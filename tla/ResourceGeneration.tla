-------------------------- MODULE ResourceGeneration --------------------------
(***************************************************************************)
(* hegira generate resource and hegira generate migration (hegira_cli:     *)
(* lib.rs; resource_generator: lib.rs, specification.rs, migration.rs and  *)
(* the planning halves of source.rs, persistence.rs, http.rs and web.rs).  *)
(*                                                                         *)
(* A resource is a module in six layers, a migration and its registrations *)
(* in the files around them: one plan.  A file with several managed blocks *)
(* has here one block, in which the entries of the first come first.       *)
(***************************************************************************)
EXTENDS Workspace

CONSTANTS TypeNames,       \* UpperCamelCase name -> [identity, module, key, file]: its words joined, and with underscores,
                           \* its place in the order, its module's file
          PluralOf,        \* name -> the plural that is taken when none is given
          Canonical,       \* names, identifiers and source files -> their letters and digits, None where they have another form
          Reserved,        \* RESERVED_IDENTITIES
          FieldNames, Scalars, MaxFields,
          MigrationNames,  \* identities that a migration may have
          MigrationFile,   \* <<version, identity>> -> file name
          Floor,           \* APPLICATION_MIGRATION_VERSION_FLOOR
          MaxVersion,      \* i64::MAX
          Generated        \* contents of a file that the generator writes, but for its managed block

(***************************************************************************)
(* Names and fields.                                                       *)
(***************************************************************************)
Layers == <<"domain", "application_contracts", "application", "infrastructure", "presentation", "web">>
SourceRoot(layer) == IF layer = "web" THEN <<"apps", "web", "src">> ELSE <<"crates", layer, "src">>
RootModule(layer) == SourceRoot(layer) \o <<"lib.rs">>
LayerArtifact(layer, names) == SourceRoot(layer) \o <<names.file>>

\* The sources of the six layers, by their names.
SourceNames(files) ==
    {Canonical[Last(p)] : p \in {q \in DOMAIN files : /\ files[q] # None /\ Last(q) \notin {"lib.rs", "main.rs"}
                                                      /\ \E i \in DOMAIN Layers : Front(q) = SourceRoot(Layers[i])}}
Namespace(m, files) == {Canonical[m.name]} \cup {Canonical[i] : i \in InstalledIds(m)} \cup SourceNames(files)

Plural(wanted) == IF wanted.plural = None THEN PluralOf[wanted.singular] ELSE wanted.plural

Occupation(identity, occupied) ==
    IF identity \in Reserved THEN "validation" ELSE IF identity \in occupied THEN "conflict" ELSE None

NamingRefusal(wanted, occupied) ==
    IF {wanted.singular, Plural(wanted)} \ DOMAIN TypeNames # {} THEN "validation"
    ELSE LET s == TypeNames[wanted.singular].identity
             p == TypeNames[Plural(wanted)].identity
         IN  IF s = p THEN "validation"
             ELSE IF Occupation(s, occupied) # None THEN Occupation(s, occupied) ELSE Occupation(p, occupied)

\* The names that a resource's parts are derived from; its route and its table have the plural's.
NamesOf(wanted) == TypeNames[wanted.singular] @@ [route |-> TypeNames[Plural(wanted)].key]

ValidFields(fields) ==
    /\ fields # << >> /\ Len(fields) <= MaxFields
    /\ \A i \in DOMAIN fields : fields[i].name \in FieldNames \ {"id"} /\ fields[i].scalar \in Scalars
    /\ \A i, j \in DOMAIN fields : fields[i].name = fields[j].name => i = j

Selectable(m) == Cardinality(m.databases) = 1 /\ Cardinality(m.clients) = 1
MissingCapabilities(m) == Capabilities \ m.composition.capabilities
MinimalWeb(m) == LeptosMinimal \in InstalledIds(m)

(***************************************************************************)
(* Migrations: the history is what the provider's directory holds; the     *)
(* generator's own file says which version is next, so that one is not     *)
(* given twice when the newest migration was removed.                      *)
(***************************************************************************)
GeneratorState == MigrationRoot \o <<".hegira-generator.toml">>
Directory(database) == MigrationRoot \o <<database>>
FilesIn(files, database) == {Last(p) : p \in {q \in DOMAIN files : files[q] # None /\ Front(q) = Directory(database)}}

\* Error where a file is no migration, or two have one version or one identity.
ObservedHistory(files, database) ==
    LET names == FilesIn(files, database)
        history == {x \in DOMAIN MigrationFile : MigrationFile[x] \in names}
    IN  IF \/ \E n \in names : n \notin Range(MigrationFile)
           \/ \E x, y \in history : x # y /\ (x[1] = y[1] \/ x[2] = y[2]) THEN Error
        ELSE history

ParseState(x) == IF x = None THEN None ELSE IF x.schema = 1 /\ x.next > 0 THEN x ELSE Error
Highest(history) == Max({0} \cup {x[1] : x \in history})

\* A plausible bug: the files alone say what is next.
VersionFromFiles(state, highest) == Max({highest + 1, Floor})

Version(state, highest) == Max({highest + 1, Floor} \cup (IF state = None THEN {} ELSE {state.next}))

Exhausted(state, highest) == highest = MaxVersion \/ Version(state, highest) = MaxVersion

MigrationPlan(database, identity, source, observed, version) ==
    LET next == [schema |-> 1, database |-> database, next |-> version + 1]
    IN  PlanOf(<<Creation(Directory(database) \o <<MigrationFile[<<version, identity>>]>>, source),
                 IF observed = None THEN Creation(GeneratorState, next) ELSE Edit(GeneratorState, observed, next)>>)

PlanFromHistory(database, identity, source, observed, history, state) ==
    IF history = Error \/ state = Error THEN None
    ELSE IF \/ \E x \in history : x[2] = identity
            \/ state # None /\ state.database # database
            \/ Exhausted(state, Highest(history)) THEN None
    ELSE MigrationPlan(database, identity, source, observed, Version(state, Highest(history)))

PlanMigration(files, database, identity, source) ==
    PlanFromHistory(database, identity, source, files[GeneratorState], ObservedHistory(files, database), ParseState(files[GeneratorState]))

(***************************************************************************)
(* The layers.  What is registered already is a conflict.                  *)
(***************************************************************************)
Fresh(text) == IF text = Present THEN Error ELSE text
EditTo(path, observed, text) == IF text = Error THEN None ELSE Edit(path, observed, text)
Registration(files, layer, names) ==
    EditTo(RootModule(layer), files[RootModule(layer)], Fresh(PlanRustModule(files[RootModule(layer)], names.key)))

\* The entries of a file: their blocks, in the order in which the file has them, and their lines.
EntryKey(block, names) == block * (Cardinality(DOMAIN TypeNames) + 1) + names.key
AddEntry(text, key, lines) == IF text = Error THEN Error ELSE Fresh(PlanManagedEntry(text, key, lines))
ManagedFileEdit(e, names) ==
    EditTo(e.path, e.observed, FoldLeft(LAMBDA text, block : AddEntry(text, EntryKey(block, names), e.lines), e.observed, e.blocks))

\* What a layer does: files that it creates and, in each of these files, entries in these blocks.
Entry(path, observed, blocks, lines) == [path |-> path, observed |-> observed, blocks |-> blocks, lines |-> lines]
LayerPlan(files, layer, contents, entries, names) ==
    PlanOf(<<Creation(LayerArtifact(layer, names), contents), Registration(files, layer, names)>>
           \o [i \in DOMAIN entries |-> ManagedFileEdit(entries[i], names)])

\* Plans for different files.
Joined(plan, other) == IF plan = None \/ other = None THEN None ELSE plan @@ other
InwardPlan(files, names) ==
    FoldLeft(LAMBDA plan, layer : Joined(plan, LayerPlan(files, layer, Generated, << >>, names)), << >>, SubSeq(Layers, 1, 3))

ResourceModule == <<<<"code">>, Block, BlockEnd>>
PersistencePlan(files, database, names) ==
    Joined(LayerPlan(files, "infrastructure", ResourceModule, << >>, names),
           IF names.module \in MigrationNames THEN PlanMigration(files, database, names.module, Generated) ELSE None)

Services == <<"crates", "infrastructure", "src", "identity", "services.rs">>
ServerSource == <<"apps", "server", "src", "server.rs">>
IdentityRuntime == <<"apps", "server", "src", "identity_runtime.rs">>
Code == <<<<"code">>>>
HttpPlan(files, minimal, names) ==
    LayerPlan(files, "presentation", Generated,
              <<Entry(LayerArtifact("infrastructure", names), ResourceModule, <<0>>, Code),
                Entry(Services, files[Services], <<0, 1, 2, 3, 4>>, Code),
                Entry(ServerSource, files[ServerSource], IF minimal THEN <<0>> ELSE <<0, 2>>, Code)>>
              \o IF minimal THEN <<Entry(IdentityRuntime, files[IdentityRuntime], <<0>>, Code)>> ELSE << >>, names)

WebRoutes == <<"apps", "web", "src", "routes.rs">>
Dashboard == <<"apps", "web", "src", "dashboard.rs">>
Navigation == <<"apps", "web", "src", "app", "navigation.rs">>
Localization == <<"apps", "web", "src", "shared", "i18n", "mod.rs">>
Sidebar == <<"apps", "web", "src", "app", "sidebar.rs">>

\* Lines that say that a route, an entry of the navigation or a text's key is taken; two of the texts stand for all.
RouteLine(names) == <<"route", names.route>>
NavigationLine(names) == <<"item", names.route>>
TextLines(names) == <<<<"text", names.key>>, <<"text", names.route>>>>

RouteConflict(files, minimal, names) ==
    \/ RouteLine(names) \in Range(files[WebRoutes])
    \/ NavigationLine(names) \in Range(files[IF minimal THEN Dashboard ELSE Navigation])
LocalizationConflict(files, names) == Range(TextLines(names)) \cap Range(files[Localization]) # {}

\* server is what the HTTP layer leaves of the server's source.  The link of a minimal dashboard
\* does not have the form that RouteConflict looks for.
WebPlan(files, minimal, server, names) ==
    LET entry(path, blocks, lines) == Entry(path, files[path], blocks, lines)
    IN  IF RouteConflict(files, minimal, names) \/ (~minimal /\ LocalizationConflict(files, names)) THEN None
        ELSE LayerPlan(files, "web", Generated,
                <<Entry(ServerSource, server, <<1>>, Code)>>
                \o IF minimal THEN <<entry(WebRoutes, <<0>>, <<RouteLine(names)>>), entry(Dashboard, <<0>>, Code)>>
                   ELSE <<entry(WebRoutes, <<0, 1>>, <<RouteLine(names)>>), entry(Navigation, <<0, 1, 2>>, <<NavigationLine(names)>>),
                          entry(Localization, <<0, 1, 2>>, TextLines(names)), entry(Sidebar, <<0>>, Code)>>, names)

InfrastructureManifest == <<"crates", "infrastructure", "Cargo.toml">>
WebManifest == <<"apps", "web", "Cargo.toml">>
InheritedBy(path) ==
    IF path = WebManifest THEN <<"app_application_contracts", "chrono", "leptos_support", "uuid">>
    ELSE <<"app_application", "app_application_contracts", "app_domain">>
FeaturesOf(path) == IF path = WebManifest THEN <<<<"hydrate", "leptos_support/hydrate">>, <<"ssr", "leptos_support/ssr">>>> ELSE << >>

\* What is declared already is left.
Keep(doc, next) == IF next = Present THEN doc ELSE IF next = Occupied THEN Error ELSE next
Inherit(doc, name) ==
    IF doc = Error THEN Error
    ELSE Keep(doc, PlanCargoDependency(doc, <<"dependencies">>, Dependency(name, [kind |-> "workspace"], FALSE, {})))
Enable(doc, f) == IF doc = Error THEN Error ELSE Keep(doc, PlanArrayString(doc, <<"features">>, f[1], f[2]))
DependencyChanges(files, docs) ==
    IF \E path \in DOMAIN docs : docs[path] = Error THEN None
    ELSE [path \in {q \in DOMAIN docs : docs[q] # files[q]} |-> Edit(path, files[path], docs[path])]
DependencyPlan(files) ==
    DependencyChanges(files, [path \in {InfrastructureManifest, WebManifest} |->
                                 FoldLeft(Enable, FoldLeft(Inherit, files[path], InheritedBy(path)), FeaturesOf(path))])

\* The web layer starts from the server's source as the HTTP layer leaves it.
ComposeResource(files, m, minimal, http, names) ==
    Compose(<<InwardPlan(files, names), PersistencePlan(files, CHOOSE d \in m.databases : TRUE, names), http,
              IF http = None THEN None ELSE WebPlan(files, minimal, http[ServerSource].after, names)>>
            \o IF minimal THEN <<DependencyPlan(files)>> ELSE << >>)
CompleteResource(files, m, names) == ComposeResource(files, m, MinimalWeb(m), HttpPlan(files, MinimalWeb(m), names), names)

(***************************************************************************)
(* The commands.                                                           *)
(***************************************************************************)
RequiredSources(m) ==
    {RootModule(Layers[i]) : i \in DOMAIN Layers} \cup {Services, ServerSource, WebRoutes}
    \cup IF MinimalWeb(m) THEN {Dashboard, IdentityRuntime, InfrastructureManifest, WebManifest} ELSE {Navigation, Localization, Sidebar}

Generates(c, pc) == cmd[c].kind \in {"resource", "migration"} /\ cmd[c].pc = pc

AdmitGeneration(c, r, x) ==
    IF x \in {None, Conflicting, Incompatible, Error} THEN Stop(c, MutationRefusal(x))
    ELSE IF r.kind = "resource" /\ MissingCapabilities(x.manifest) # {} THEN Stop(c, "validation")
    ELSE IF r.kind = "migration" /\ (~Selectable(x.manifest) \/ r.wanted \notin MigrationNames) THEN Stop(c, "validation")
    ELSE Read(c, [r EXCEPT !.pc = IF r.kind = "resource" THEN "sources" ELSE "history", !.context = x])
ObserveForGeneration(c) == Generates(c, "observe") /\ AdmitGeneration(c, cmd[c], MutationContext(disk, cmd[c].explicit))

\* The composition sources and the names are read; the history is looked at after that.
AdmitResource(c, m, occupied) ==
    IF None \in occupied THEN Stop(c, "validation")
    ELSE IF NamingRefusal(cmd[c].wanted, occupied) # None THEN Stop(c, NamingRefusal(cmd[c].wanted, occupied))
    ELSE IF ~ValidFields(cmd[c].wanted.fields) \/ ~Selectable(m) THEN Stop(c, "validation")
    ELSE Read(c, [cmd[c] EXCEPT !.pc = "history", !.sources = Restrict(disk.files, RequiredSources(m))])

ReadSources(c) ==
    LET m == cmd[c].context.manifest
    IN  /\ Generates(c, "sources")
        /\ IF \E p \in RequiredSources(m) : disk.files[p] = None THEN Stop(c, "conflict")
           ELSE AdmitResource(c, m, Namespace(m, disk.files))

\* The history as it is by now, with the sources as they were.
PlanGeneration(c) ==
    LET r == cmd[c]
        m == r.context.manifest
        database == CHOOSE d \in m.databases : TRUE
    IN  /\ Generates(c, "history")
        /\ IF r.kind = "migration" THEN Propose(c, PlanMigration(disk.files, database, r.wanted, Generated))
           ELSE Propose(c, CompleteResource(r.sources @@ disk.files, m, NamesOf(r.wanted)))
=============================================================================
