---------------------------- MODULE MCCommandLine ----------------------------
EXTENDS CommandLine

\* Contents of files that no command reads.
CONSTANTS Lock1, Lock2, LockOwn, Operations2, Migration1, Migration2, LibFull, Hook1, Own1, Own2, OwnFile, IdentityFile, Guide, Workflow, Unresolved, Leaking

\* Types and migrations that the generator is asked for.
TypeOf(identity, key, file) == [identity |-> identity, module |-> identity, key |-> key, file |-> file]
MCTypeNames ==
    [n \in {"Order", "Orders", "Invoice", "Invoices", "Identity", "Identitys"} |->
        CASE n = "Order" -> TypeOf("order", 1, "order.rs") [] n = "Orders" -> TypeOf("orders", 2, "orders.rs")
          [] n = "Invoice" -> TypeOf("invoice", 3, "invoice.rs") [] n = "Invoices" -> TypeOf("invoices", 4, "invoices.rs")
          [] n = "Identity" -> TypeOf("identity", 5, "identity.rs") [] OTHER -> TypeOf("identitys", 6, "identitys.rs")]
MCPluralOf == [n \in {"Order", "Invoice", "Identity", "order"} |-> n \o "s"]
MCFloor == 3
MCMaxVersion == 6
MCMigrationNames == {"order", "invoice", "identity", "backfill"}
MCMigrationFile == [x \in ({1} \X {"users"}) \cup ((MCFloor .. MCMaxVersion) \X MCMigrationNames) |-> ToString(x[1]) \o "_" \o x[2]]
MCCanonical ==
    [n \in {"shop", "store", Base, LeptosMinimal, LeptosIdentity, Identity, "order.rs", "invoice.rs", "identity.rs", "own.rs", "hook.rs",
             "operations.rs", "routes.rs", "dashboard.rs", "Own-2.rs"} |->
        CASE n = "order.rs" -> "order" [] n = "invoice.rs" -> "invoice" [] n = "identity.rs" -> "identity"
          [] n = "Own-2.rs" -> None [] OTHER -> n]

\* What the template declares, and where a new application may go: two texts name one place.
MCVariables ==
    [x \in {"application_name", "client_adapter", "database_adapter", "database_feature"} |->
        CASE x = "application_name" -> "app" [] x = "client_adapter" -> "leptos" [] x = "database_adapter" -> "sqlite" [] OTHER -> "db-sqlite"]
MCDestinations == [x \in {"shop", "./shop"} |-> "shop"]
MCAnswers == {"shop", "Shop"}
ReadMe == <<"README.md">>
WorkflowFile == <<".github", "workflows", "quality.yml">>
MCGeneratedOnce == {ReadMe, WorkflowFile}

V1 == <<0, 7, 0>>
V2 == <<0, 8, 0>>
MCNames == {"shop", "store"}
MCRepositories == {"hegira", "fork"}
MCReleases == {V1, V2}
MCSegments == {"hegira.toml", "Cargo.toml", "Cargo.lock", "apps", "crates", "web", "infrastructure", "domain", "src", "migrations",
               "routes.rs", "lib.rs", "operations.rs", "hook.rs", "identity.rs", "own.rs", "0001", "server", "server.rs", "sqlite",
               "identity", "services.rs", "identity_runtime.rs", "dashboard.rs", "app", "navigation.rs", "shared", "i18n", "mod.rs", "sidebar.rs",
               "application", "application_contracts", "presentation", ".hegira-generator.toml",
               "README.md", ".github", "workflows", "quality.yml"}
              \cup {MCTypeNames[n].file : n \in DOMAIN MCTypeNames} \cup Range(MCMigrationFile)
MCIdentifiers == {Package, Base, LeptosIdentity, LeptosMinimal, Identity, "layered", "edge", "minimal", "with-identity",
                  "application-manifest", "framework-dependencies", "framework-lockfile", "database-operations", "hook",
                  "history", "platform", "runtime", "support", "sha2", "app_application", "app_application_contracts", "app_domain",
                  "chrono", "leptos_support", "uuid"} \cup DOMAIN MCVariables

Infra == <<"crates", "infrastructure">>
Lib == Infra \o <<"src", "lib.rs">>
Hook == Infra \o <<"src", "hook.rs">>
IdentityRs == Infra \o <<"src", "identity.rs">>
Migration == MigrationRoot \o <<"0001">>
SecondMigration == MigrationRoot \o <<"0003">>
ClashingMigration == MigrationRoot \o <<"0002">>
Own == <<"crates", "domain", "src", "own.rs">>
Routes == <<"apps", "web", "src", "routes.rs">>
Member == Infra \o <<"Cargo.toml">>
LockV2 == <<"upgrades", "locks", "minimal">>

Framework(v) == [repository |-> "hegira", version |-> v]
PackageAt(v) == [id |-> Package, version |-> v]
Minimal == Sorted(<<Base, LeptosMinimal>>)
WithIdentity == Sorted(<<Base, LeptosMinimal, Identity>>)

Claim(p, i) == [path |-> p, class |-> "managed-integration", integration |-> i]
History == [path |-> MigrationRoot, class |-> "immutable-history", integration |-> None]
Claims(s) == [default |-> "application-owned", claims |-> Sorted(s)]
Shared == <<Claim(Manifest, "application-manifest"), Claim(Cargo, "framework-dependencies"), Claim(Lockfile, "framework-lockfile"), History>>
OwnedV1 == Claims(Append(Shared, Claim(Hook, "hook")))
OwnedV2 == Claims(Append(Shared, Claim(DatabaseOperations, "database-operations")))

\* The release's own file has no name yet; the manifests of the applications differ in it and in the release.
ManifestAt(name, repository, v, ids, modules, owned) ==
    [schema |-> 3, name |-> name, framework |-> [repository |-> repository, version |-> v], selected |-> {},
     databases |-> {"sqlite"}, clients |-> {"leptos"},
     composition |-> [package |-> PackageAt(v), components |-> Sorted(Installed(ids, v)), modules |-> Installed(modules, v),
                      capabilities |-> IF modules = << >> THEN {} ELSE Capabilities],
     upgrade |-> [framework |-> [repository |-> repository, version |-> v], package |-> PackageAt(v), ownership |-> owned]]

Tagged(v) == [x \in {"git", "tag"} |-> IF x = "git" THEN "hegira" ELSE v]
Doc(v, names) == [t \in {WorkspaceDependencies} |-> [n \in names |-> IF n \in {"sha2"} THEN [x \in {"version"} |-> V1] ELSE Tagged(v)]]

Component(id, requires, conflicts, modules, provides, include, dependencies, installation) ==
    [schema |-> 3, id |-> id, version |-> V2, source |-> <<id>>, include |-> include, requires |-> requires,
     conflicts |-> conflicts, optional |-> << >>, modules |-> modules, provides |-> provides, needs |-> << >>,
     dependencies |-> dependencies, installation |-> installation]
Platform == [manifest |-> Cargo, name |-> "platform", path |-> <<"crates", "platform">>, defaults |-> TRUE]
Runtime == [manifest |-> Cargo, name |-> "runtime", path |-> <<"crates", "runtime">>, defaults |-> TRUE]
Support == [manifest |-> Cargo, name |-> "support", path |-> <<"crates", "support">>, defaults |-> TRUE]
Caps == Sorted(<<"authentication", "authorization">>)
Contributed == Sorted(<<<<"sqlite", "migrations">>>>)

\* Two components may claim one file.
MCComponents(shared) ==
    [f \in SupportedComponents |->
        CASE f = Base -> Component(Base, << >>, << >>, << >>, << >>, <<Manifest, ReadMe, WorkflowFile>> \o shared, <<Platform>>, None)
          [] f = LeptosMinimal -> Component(LeptosMinimal, <<Base>>, <<LeptosIdentity>>, << >>, << >>, <<Cargo, DatabaseOperations, Migration>>, <<Runtime>>, None)
          [] f = LeptosIdentity -> Component(LeptosIdentity, <<Base>>, <<LeptosMinimal>>, <<Identity>>, Caps, <<Lib>>, <<Support>>, None)
          [] OTHER -> Component(Identity, <<LeptosMinimal>>, <<LeptosIdentity>>, <<Identity>>, Caps, << >>, << >>,
                 [module |-> Identity, databases |-> <<"sqlite">>, clients |-> <<"leptos">>, contributions |-> Contributed,
                  dependencies |-> <<Support>>])]

MCFiles ==
    (<<Base>> \o Manifest :> ManifestAt("app", "hegira", V2, Minimal, << >>, OwnedV2)) @@
    (<<LeptosMinimal>> \o Cargo :> Doc(V2, {"platform", "runtime"})) @@ (<<LeptosMinimal>> \o DatabaseOperations :> Operations2) @@
    (<<LeptosMinimal>> \o Migration :> Migration2) @@ (<<LeptosIdentity>> \o Lib :> LibFull) @@ (LockV2 :> Lock2)
    @@ (<<Base>> \o ReadMe :> Guide) @@ (<<Base>> \o WorkflowFile :> Workflow)

V1Manifest == ManifestAt("shop", "hegira", V1, Minimal, << >>, OwnedV1)
V1Cargo == Doc(V1, {"platform", "runtime", "sha2"})

Managed(component, path, integration, kind, source, lock, target) ==
    [component |-> component, path |-> path, integration |-> integration, kind |-> kind, source |-> source, from |-> None,
     lock |-> lock, target |-> target]
MinimalManaged ==
    <<Managed(Base, Manifest, "application-manifest", "edit", V1Manifest, None, MCFiles[<<Base>> \o Manifest]),
      Managed(LeptosMinimal, Cargo, "framework-dependencies", "edit", V1Cargo, None, MCFiles[<<LeptosMinimal>> \o Cargo]),
      Managed(LeptosMinimal, Lockfile, "framework-lockfile", "edit", Lock1, LockV2, Lock2),
      Managed(LeptosMinimal, DatabaseOperations, "database-operations", "create", None, None, Operations2),
      Managed(Base, Hook, "hook", "retire", Hook1, None, None)>>

State(ids, modules, capabilities) ==
    [database |-> "sqlite", client |-> "leptos", components |-> ids, modules |-> modules, capabilities |-> capabilities]
Edge(owned, owns, managed) ==
    [schema |-> 1, id |-> "edge", digest |-> "package-1", source |-> [framework |-> Framework(V1), package |-> PackageAt(V1)],
     target |-> [framework |-> Framework(V2), package |-> PackageAt(V2)],
     compositions |-> <<[id |-> "minimal", digest |-> "baseline-1", owned |-> owned, owns |-> owns,
                         source |-> State(Minimal, << >>, << >>), target |-> State(Minimal, << >>, << >>),
                         transitions |-> None, managed |-> managed]>>,
     transitions |-> <<"framework", "package", "components", "ownership">>, managed |-> << >>]

SourceOf(edge, components, files) ==
    LET src(digest) ==
            [package |-> [schema |-> 3, id |-> Package, version |-> V2, framework |-> Framework(V2), templates |-> <<"layered">>,
                          components |-> Sorted(<<Base, LeptosMinimal, LeptosIdentity, Identity>>), modules |-> <<Identity>>,
                          edges |-> <<<<"upgrades", "edge">>>>, locks |-> <<LockV2>>, digest |-> digest],
             templates |-> [t \in {"layered"} |-> [schema |-> 1, id |-> "layered", components |-> Sorted(<<Base, LeptosIdentity>>), variables |-> MCVariables]],
             components |-> components, edges |-> [p \in {<<"upgrades", "edge">>} |-> edge], files |-> files, irregular |-> {}]
    IN  src(ContentDigest(src(None), CatalogOf(src(None), "layered").components))
SourceWith(edge) == SourceOf(edge, MCComponents(<< >>), MCFiles)

\* One package whose edge edits a migration that has shipped, one that edits what the target no longer
\* owns, one whose components render the same file, one with files that cannot be rendered, one with a link.
MCPackages ==
    [p \in {"release", "created", "collided", "spoiled", "linked", "generated", "operated", "served", "deployed", "history", "unowned"} |->
        CASE p \in {"release", "created", "generated", "operated", "served", "deployed"} -> SourceWith(Edge(OwnedV1, OwnedV2, MinimalManaged))
          [] p = "collided" ->
                SourceOf(Edge(OwnedV1, OwnedV2, MinimalManaged), MCComponents(<<Lib>>), MCFiles @@ (<<Base>> \o Lib :> LibFull))
          [] p = "linked" -> [SourceWith(Edge(OwnedV1, OwnedV2, MinimalManaged)) EXCEPT !.irregular = {ReadMe}]
          [] p = "spoiled" ->
                SourceOf(Edge(OwnedV1, OwnedV2, MinimalManaged), MCComponents(<< >>),
                         (<<LeptosMinimal>> \o Migration :> Unresolved) @@ (<<LeptosIdentity>> \o Lib :> Leaking) @@ MCFiles)
          [] p = "history" ->
                LET claims == Claims(Append(SelectSeq(Shared, LAMBDA x : x # History), Claim(Migration, "history")))
                IN  SourceWith(Edge(claims, claims, SubSeq(MinimalManaged, 1, 3)
                        \o <<Managed(LeptosMinimal, Migration, "history", "edit", Migration1, None, Migration2)>>))
          [] OTHER -> SourceWith(Edge(OwnedV1, Claims(Tail(Shared)), MinimalManaged))]

MCCatalogs == [p \in DOMAIN MCPackages |-> LoadCatalog(MCPackages[p])]

Root == <<"root">>

\* What an operation needs of the application.
Receipts(version) == [version |-> 3, packages |-> [n \in LockedPackages |-> version]]
Unclaimed == [marker |-> None, server |-> TRUE, site |-> FALSE]
Operated ==
    (Toolchain :> "1.90.0") @@ (Server :> {}) @@ (FrontendLock :> Receipts("4.1")) @@ (FrontendReceipts :> Receipts("4.1"))
    @@ (Tailwind :> [version |-> "4.1", runnable |-> TRUE]) @@ (Style :> Own1) @@ (EntryPoint :> Own1) @@ (DatabaseSource :> Own1)
    @@ (PublicAssets :> Own1) @@ (Profile("sqlite") :> "local") @@ (Profile("development") :> "remote") @@ (Profile("production") :> "live")
    @@ (ReleaseRoot :> None) @@ (CacheRoot :> None)
    @@ (ServerManifest :> [name |-> "app_server", features |-> {"database-operations"}, leptos |-> TRUE, release |-> TRUE,
                           bins |-> [name |-> "app_database", path |-> EntryPoint, feature |-> "database-operations"]])
ToolOf(name) ==
    [id |-> name, native |-> TRUE, place |-> "outside", wasm |-> TRUE,
     version |-> CASE name \in {"cargo", "rustc"} -> "1.90.0" [] name = "node" -> 22 [] name = "wasm-bindgen" -> <<0, 2>>
                   [] name = "wasm-opt" -> "123" [] OTHER -> "0.3.7"]
RouteLines == <<<<"code">>, Root, Block, BlockEnd>>
\* What a resource is registered in.  One application has a resource already, the other has the full web interface.
Reserving(database, next) == [schema |-> 1, database |-> database, next |-> next]
MigrationPath(x) == Directory("sqlite") \o <<MCMigrationFile[x]>>
NotMigration == Directory("sqlite") \o <<"own.rs">>
OddName == SourceRoot("web") \o <<"Own-2.rs">>
MCGenerators ==
    LET order == TypeOf("order", 1, "order.rs") @@ [route |-> 2]
        entry(block, lines) == <<Opens(7 * block + 1)>> \o lines \o <<Closes(7 * block + 1)>>
        open(lines) == <<<<"code">>, Block>> \o lines \o <<BlockEnd>>
        features(table) == [t \in {<<"dependencies">>, <<"features">>} |-> IF t = <<"features">> THEN table ELSE << >>]
        files(m, has, state) ==
            (Manifest :> m) @@ [p \in {RootModule(Layers[i]) : i \in DOMAIN Layers} |-> open(IF has THEN <<Registered(1)>> ELSE << >>)]
            @@ [p \in {LayerArtifact(Layers[i], order) : i \in DOMAIN Layers} |-> IF has THEN Generated ELSE None]
            @@ [p \in {LayerArtifact(Layers[i], MCTypeNames["Invoice"]) : i \in DOMAIN Layers} |-> None]
            @@ (Services :> open(IF has THEN entry(0, Code) \o entry(1, Code) \o entry(2, Code) \o entry(3, Code) \o entry(4, Code) ELSE << >>))
            @@ (ServerSource :> open(IF has THEN entry(0, Code) \o entry(1, Code) ELSE << >>))
            @@ (WebRoutes :> open(IF has THEN entry(0, <<RouteLine(order)>>) ELSE << >>))
            @@ [p \in {Dashboard, IdentityRuntime} |-> open(IF has THEN entry(0, Code) ELSE << >>)]
            @@ [p \in {Navigation, Localization, Sidebar} |-> open(<< >>)]
            @@ (InfrastructureManifest :> features(<< >>)) @@ (WebManifest :> features([x \in {"hydrate", "ssr"} |-> << >>]))
            @@ (GeneratorState :> state) @@ (NotMigration :> None) @@ (OddName :> None)
            @@ [p \in {MigrationPath(x) : x \in DOMAIN MCMigrationFile} |->
                   IF p = MigrationPath(<<1, "users">>) THEN Migration1
                   ELSE IF has /\ p = MigrationPath(<<MCFloor, "order">>) THEN Generated ELSE None]
    IN  [a \in {"protected", "full"} |->
            IF a = "protected" THEN files(ManifestAt("shop", "hegira", V2, WithIdentity, <<Identity>>, OwnedV2), TRUE, Reserving("sqlite", MCFloor + 1))
            ELSE files(ManifestAt("shop", "hegira", V2, Sorted(<<Base, LeptosIdentity>>), <<Identity>>, OwnedV2), FALSE, None)]

MCApplications ==
    LET files(m, doc, lock, operations, hook) ==
            (Manifest :> m) @@ (Cargo :> doc) @@ (Lockfile :> lock) @@ (DatabaseOperations :> operations) @@ (Hook :> hook)
            @@ (Migration :> Migration1) @@ (Own :> Own1) @@ (Routes :> RouteLines) @@ (Lib :> <<Block, Registered(2), BlockEnd>>)
            @@ (Member :> [t \in {<<"dependencies">>, <<"features">>} |-> IF t = <<"features">> THEN [x \in {"ssr"} |-> << >>] ELSE << >>])
            @@ (IdentityRs :> None) @@ (SecondMigration :> None) @@ (ClashingMigration :> None) @@ Operated
        served(database) == [ManifestAt("shop", "hegira", V2, WithIdentity, <<Identity>>, OwnedV2) EXCEPT !.databases = {database}]
    IN  MCGenerators @@ [a \in {"previous", "current", "claimed", "hosted", "local", "remote"} |->
            CASE a = "previous" -> files(V1Manifest, V1Cargo, Lock1, None, Hook1)
              [] a = "current" -> files(ManifestAt("shop", "hegira", V2, Minimal, << >>, OwnedV2), Doc(V2, {"platform", "runtime", "sha2"}), Lock2, Operations2, None)
              [] a = "hosted" -> files([ManifestAt("shop", "hegira", V2, Minimal, << >>, OwnedV2) EXCEPT !.databases = {"postgres"}],
                                       Doc(V2, {"platform", "runtime", "sha2"}), Lock2, Operations2, None)
              [] a \in {"local", "remote"} ->
                    (Profile("test") :> "worker") @@ (Profile("absent") :> None)
                    @@ files(served(IF a = "local" THEN "sqlite" ELSE "postgres"), Doc(V2, {"platform", "runtime", "sha2"}), Lock2, Operations2, None)
              [] OTHER -> files(ManifestAt("shop", "fork", V1, Minimal, << >>, OwnedV1), V1Cargo, Lock1, None, Hook1)]

\* What the processes of an application find: profiles of every kind, and databases before, in the
\* middle of and after a migration, of another history, and with a migration that failed.
MCSettings ==
    LET local == ("database" :> "sqlite") @@ ("database.url" :> "sqlite")
        live == ("startup" :> {"scheduler", "durable_jobs"}) @@ ("auto_migrate" :> FALSE) @@ ("seed_admin" :> FALSE) @@ ("secret" :> "long")
                @@ ("application.public_url" :> "https") @@ ("origins" :> {"https"})
    IN  [x \in {"local", "remote", "live", "worker", "bare", "zero", "garbled"} |->
            CASE x = "local" -> local [] x = "remote" -> << >> [] x = "live" -> live [] x = "bare" -> live @@ local
              [] x = "worker" -> ("role" :> "worker") @@ ("enabled" :> {"worker_operations", "scheduler", "jobs"}) @@ local
              [] x = "zero" -> ("database.connections" :> 0) @@ local [] OTHER -> None]
ApplicationMigrations(versions) == [v \in versions |-> IF v = 1 THEN Migration1 ELSE Migration2]
IdentityMigrations == [module |-> Identity, migrations |-> 2 :> IdentityFile]
MCSources(files) ==
    <<[module |-> "application",
       migrations |-> [v \in {x \in 1 .. 3 : x = 1 \/ files[IF x = 2 THEN ClashingMigration ELSE SecondMigration] # None} |->
                          IF v = 1 THEN files[Migration] ELSE OwnFile]]>>
    \o (IF files[Manifest] # None /\ Identity \in InstalledIds(files[Manifest]) THEN <<IdentityMigrations>> ELSE << >>)
Binary(versions) == <<[module |-> "application", migrations |-> ApplicationMigrations(versions)], IdentityMigrations>>
Begin(profile, versions, feature) == [profile |-> profile, sources |-> Binary(versions), features |-> {feature}]
MCStarts ==
    [p \in DOMAIN MCPackages |->
        CASE p = "served" -> {Begin("sqlite", {1}, "db-sqlite"), Begin("sqlite", {1, 3}, "db-sqlite"), Begin("sqlite", {1, 2}, "db-sqlite"),
                              Begin("test", {1}, "db-sqlite"), Begin("absent", {1}, "db-sqlite")}
          [] p = "deployed" -> {Begin("development", {1}, "db-postgres"), Begin("development", {1, 3}, "db-postgres"), Begin("production", {1}, "db-postgres")}
          [] OTHER -> {}]
MCStores ==
    LET applied(x) == [success |-> TRUE, checksum |-> x]
        database(exists, table, rows) == [exists |-> exists, table |-> table, rows |-> rows, seeded |-> {}]
        migrated(rows) == database(TRUE, TRUE, rows)
        first == migrated(1 :> applied(Migration1))
    IN  [p \in DOMAIN MCPackages |->
            CASE p = "served" -> {first, database(FALSE, FALSE, << >>), migrated(1 :> applied(OwnFile))}
              [] p = "deployed" -> {first, database(FALSE, FALSE, << >>), database(TRUE, FALSE, << >>), migrated(1 :> [success |-> FALSE, checksum |-> Migration1])}
              [] OTHER -> {first}]

MCSetups ==
    {<<"served", "local">>, <<"deployed", "remote">>} \cup
    {<<"generated", a>> : a \in {"protected", "full"}} \cup {<<"release", a>> : a \in {"previous", "current", "claimed"}} \cup {<<p, "previous">> : p \in {"history", "unowned"}}
    \cup {<<"operated", a>> : a \in {"current", "hosted"}} \cup {<<p, "current">> : p \in {"created", "collided", "spoiled", "linked"}}

Asks(kind, mode, wanted, explicit) == [kind |-> kind, mode |-> mode, wanted |-> wanted, explicit |-> explicit]
Upgrades ==
    {Asks("upgrade", "status", None, FALSE), Asks("upgrade", "dry-run", V2, FALSE), Asks("upgrade", "apply", None, FALSE),
     Asks("upgrade", "apply", V1, TRUE), Asks("add", "apply", Identity, FALSE), Asks("add", "apply", Identity, TRUE),
     Asks("add", "dry-run", Identity, FALSE), Asks("add", "apply", Base, FALSE), Asks("add", "apply", LeptosIdentity, FALSE)}

Consents == {"execute", "trust"}
Chosen == {"cargo", "directories", "wasm-bindgen", "wasm-opt"}
Intent(kind, profile) == [kind |-> kind, profile |-> profile]
Operate(mode, intent, cache, approval, options) ==
    Asks("operate", mode, [intent |-> intent, cache |-> cache, approval |-> approval, options |-> options], FALSE)
Run(intent) == Operate("apply", intent, None, None, Consents \cup Chosen)
Doctor(intent, options) == Asks("doctor", None, [intent |-> intent, options |-> options], FALSE)
Release == Intent("release-build", None)
Migrate(profile) == Intent("database-migrate", profile)
Operations ==
    {Run(Intent("check", None)), Run(Intent("develop", None)), Run(Release), Operate("dry-run", Release, 1, None, {}),
     Operate("apply", Release, None, None, Chosen), Operate("apply", Release, None, None, Consents \cup Chosen \cup {"inherited"}),
     Operate("apply", Intent("check", None), 1, None, Consents \cup Chosen), Operate("apply", Intent("test", None), 0, None, {}),
     Operate("apply", Migrate("sqlite"), None, "ordinary", Consents \cup Chosen),
     Operate("apply", Migrate("production"), None, "production", Consents \cup Chosen),
     Operate("apply", Migrate("production"), None, "ordinary", Consents \cup Chosen),
     Doctor(None, {}), Doctor(Release, Chosen \cup {"probe"}), Doctor(Intent("develop", None), {}),
     Doctor(Intent("database-status", "production"), Chosen \cup {"probe"}),
     Asks("inspect", None, None, FALSE), Asks("artifacts", None, None, FALSE), Asks("add", "apply", Identity, FALSE)}

DatabaseRun(intent) == Operate("apply", intent, None, "ordinary", Consents \cup Chosen)
Served == {DatabaseRun(Intent(k, "sqlite")) : k \in DatabaseIntents}
Deployed == {DatabaseRun(Intent("database-migrate", "development")), Operate("apply", Migrate("production"), None, "production", Consents \cup Chosen)}

Resource(mode, singular, plural, explicit) ==
    Asks("resource", mode, [singular |-> singular, plural |-> plural, fields |-> <<[name |-> "title", scalar |-> "string"]>>], explicit)
Unnamed == [singular |-> "Invoice", plural |-> None, fields |-> <<[name |-> "id", scalar |-> "uuid"]>>]
Generations ==
    {Resource("apply", "Invoice", None, FALSE), Resource("apply", "Order", None, TRUE), Resource("dry-run", "Invoice", None, FALSE),
     Resource("apply", "Invoice", "Orders", FALSE), Resource("apply", "Identity", None, FALSE), Resource("apply", "order", None, FALSE),
     Resource("dry-run", "Invoice", "Invoice", FALSE), Asks("resource", "apply", Unnamed, FALSE),
     Asks("migration", "apply", "backfill", FALSE), Asks("migration", "apply", "order", FALSE), Asks("migration", "dry-run", "up", FALSE)}
New(mode, name, destination, database, component) ==
    Asks("new", mode, [name |-> name, destination |-> destination, database |-> database, client |-> None, component |-> component], FALSE)
Complete == {New("script", "shop", "./shop", None, x) : x \in {LeptosMinimal, None}}
Creations ==
    Complete \cup {New("terminal", None, None, None, None), New("script", None, "shop", None, None), New("script", "Shop", "shop", None, None),
                 New("script", "shop", "../shop", None, None), New("terminal", "store", None, "postgres", LeptosMinimal)}
MCRequests ==
    [p \in DOMAIN MCPackages |-> CASE p = "created" -> Creations [] p \in {"collided", "spoiled", "linked"} -> Complete
        [] p = "operated" -> Operations [] p = "served" -> Served [] p = "deployed" -> Deployed [] p = "generated" -> Generations [] OTHER -> Upgrades]

MCEdits ==
    [p \in DOMAIN MCPackages |->
        IF p \in {"created", "collided", "spoiled", "linked"} THEN << >>
        ELSE IF p = "deployed" THEN << >>
        ELSE IF p = "served"
        THEN (SecondMigration :> {OwnFile}) @@ (ClashingMigration :> {OwnFile}) @@ (Migration :> {OwnFile}) @@ (Profile("sqlite") :> {"zero", "garbled", "bare"})
        ELSE IF p = "generated"
        THEN (Manifest :> {ManifestAt("shop", "hegira", V2, Minimal, << >>, OwnedV2)}) @@ (WebRoutes :> {<<<<"route", 4>>, Block, BlockEnd>>})
             @@ (RootModule("web") :> {None, <<BlockEnd, Block>>, <<Block, Registered(3), BlockEnd>>})
             @@ (LayerArtifact("domain", MCTypeNames["Invoice"]) :> {OwnFile}) @@ (OddName :> {OwnFile}) @@ (NotMigration :> {OwnFile})
             @@ (WebManifest :> {<< >>}) @@ (Localization :> {<<<<"text", 3>>, Block, BlockEnd>>})
             @@ (MigrationPath(<<MCFloor, "order">>) :> {None, OwnFile}) @@ (MigrationPath(<<MCFloor + 1, "backfill">>) :> {OwnFile})
             @@ (MigrationPath(<<MCMaxVersion, "backfill">>) :> {OwnFile})
             @@ (GeneratorState :> {None, Reserving("postgres", MCFloor), Reserving("sqlite", 0), Reserving("sqlite", MCMaxVersion)})
        ELSE (Lockfile :> {LockOwn})
        @@ IF p = "operated"
           THEN (Manifest :> {None, ManifestAt("store", "hegira", V2, Minimal, << >>, OwnedV2)}) @@ (Toolchain :> {None, "1.80.0"})
                @@ (ReleaseRoot :> {Unclaimed}) @@ (Server :> {{"bearer_routes"}}) @@ (FrontendReceipts :> {Receipts("4.0")})
                @@ (Tailwind :> {None, [version |-> "4.1", runnable |-> FALSE]}) @@ (Profile("production") :> {None}) @@ (FrontendLock :> {None})
           ELSE (Manifest :> {None, ManifestAt("store", "hegira", V2, Minimal, << >>, OwnedV2), V1Manifest})
                @@ (DatabaseOperations :> {OwnFile}) @@ (Own :> {Own2}) @@ (Routes :> {<<<<"code">>, Block, BlockEnd>>})
                @@ (IdentityRs :> {OwnFile})]

MCTools == [n \in {"cargo", "rustc", "cargo-leptos", "node", "wasm-bindgen", "wasm-opt", "npm", "rustup"} |-> ToolOf(n)]
MCOtherTools ==
    [p \in DOMAIN MCPackages |->
        IF p # "operated" THEN << >>
        ELSE [n \in {"cargo", "rustc", "wasm-bindgen", "wasm-opt"} |->
                CASE n = "cargo" -> {None, [ToolOf(n) EXCEPT !.place = "application"]}
                  [] n = "rustc" -> {[ToolOf(n) EXCEPT !.wasm = FALSE]}
                  [] n = "wasm-bindgen" -> {[ToolOf(n) EXCEPT !.place = "prepared"], [ToolOf(n) EXCEPT !.version = <<0, 1>>]}
                  [] n = "wasm-opt" -> {[ToolOf(n) EXCEPT !.place = "application"], [ToolOf(n) EXCEPT !.native = FALSE]}]]
MCWasmBindgen == (Lock1 :> {<<0, 1>>}) @@ (Lock2 :> {<<0, 2>>}) @@ (LockOwn :> {<<0, 1>>, <<0, 2>>})

MCDatabaseReplies ==
    {None, [operation |-> "database-migrate", provider |-> "sqlite", history |-> "present",
            migrations |-> <<[module |-> "application", version |-> 1, state |-> "pending"]>>]}

MCReferences(p, x) ==
    IF x = None THEN {} ELSE IF p = Server THEN x ELSE IF p = Routes /\ <<"identity">> \in Range(x) THEN {"IdentityRoutes"} ELSE {}

Skeleton == MCFiles[<<Base>> \o Manifest]
Token(name, expression) == [name |-> name, expression |-> expression]
MCTokens(x) ==
    CASE x = Skeleton -> {Token("application_name", FALSE), Token("database_adapter", FALSE), Token("framework_version", FALSE)}
      [] x = Workflow -> {Token("matrix", TRUE)} [] x = Unresolved -> {Token("matrix", TRUE)}
      [] x = Guide -> {Token("development_profile", FALSE)} [] OTHER -> {}
MCFilled(x, v) == IF x = Skeleton THEN [x EXCEPT !.name = v["application_name"], !.databases = {v["database_adapter"]}] ELSE x
MCMentions(x) == IF x = Leaking THEN {"repository"} ELSE {}

MCRegistryDependencies == <<[name |-> "sha2", version |-> V1, features |-> {}]>>
MCMemberDependencies == <<[owner |-> "infrastructure", path |-> Member, name |-> "support", optional |-> TRUE]>>
MCMemberFeatures == <<[owner |-> "infrastructure", path |-> Member, feature |-> "ssr", entry |-> "dep:support"]>>
MCRustModules == <<[owner |-> "infrastructure", path |-> Lib, key |-> 1], [owner |-> "infrastructure", path |-> Lib, key |-> 3]>>
MCRustEntries == <<[owner |-> "web", path |-> Routes, key |-> 1, lines |-> <<<<"identity">>>>, database |-> None]>>
MCArtifacts == [p \in {IdentityRs} |-> IdentityFile]
=============================================================================
