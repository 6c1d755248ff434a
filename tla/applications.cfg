SPECIFICATION Spec
CONSTANTS
  Lock1 = Lock1
  Lock2 = Lock2
  LockOwn = LockOwn
  Operations2 = Operations2
  Migration1 = Migration1
  Migration2 = Migration2
  LibFull = LibFull
  Hook1 = Hook1
  Own1 = Own1
  Own2 = Own2
  OwnFile = OwnFile
  IdentityFile = IdentityFile
  None = None
  Error = Error
  Present = Present
  Occupied = Occupied
  Incompatible = Incompatible
  Unsupported = Unsupported
  Conflicting = Conflicting
  Guide = Guide
  Workflow = Workflow
  Unresolved = Unresolved
  Leaking = Leaking
  Names <- MCNames
  Destinations <- MCDestinations
  Answers <- MCAnswers
  GeneratedOnce <- MCGeneratedOnce
  RepositoryRoot = "repository"
  Mentions <- MCMentions
  Tokens <- MCTokens
  Filled <- MCFilled
  Repositories <- MCRepositories
  Releases <- MCReleases
  Identifiers <- MCIdentifiers
  Segments <- MCSegments
  MaxClaims = 1024
  BundledRelease <- V2
  MaxPackageFiles = 10000
  Clis = {1, 2}
  Packages <- MCPackages
  Catalogs <- MCCatalogs
  Setups <- MCSetups
  Requests <- MCRequests
  Applications <- MCApplications
  Edits <- MCEdits
  MaxEvents = 2
  Tools <- MCTools
  OtherTools <- MCOtherTools
  WasmBindgen <- MCWasmBindgen
  DatabaseReplies <- MCDatabaseReplies
  Servers = {11, 12}
  Starts <- MCStarts
  Settings <- MCSettings
  Sources <- MCSources
  ModuleIds = {"application", "identity"}
  Stores <- MCStores
  References <- MCReferences
  TypeNames <- MCTypeNames
  PluralOf <- MCPluralOf
  Canonical <- MCCanonical
  Reserved = {"identity", "lib", "main"}
  FieldNames = {"title", "id"}
  Scalars = {"string", "uuid"}
  MaxFields = 64
  MigrationNames <- MCMigrationNames
  MigrationFile <- MCMigrationFile
  Floor <- MCFloor
  MaxVersion <- MCMaxVersion
  Generated = Generated
  RegistryDependencies <- MCRegistryDependencies
  MemberDependencies <- MCMemberDependencies
  MemberFeatures <- MCMemberFeatures
  RustModules <- MCRustModules
  RustEntries <- MCRustEntries
  RoutesPath <- Routes
  RootRoute <- Root
  Artifacts <- MCArtifacts
 
PROPERTIES MigrationsHold  UpgradeArrives InstallationIsWhole    
CHECK_DEADLOCK FALSE
