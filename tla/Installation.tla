----------------------------- MODULE Installation -----------------------------
(***************************************************************************)
(* hegira component add: the contributions with which the Identity module  *)
(* is put into an application (hegira_cli: component.rs, mutation.rs,      *)
(* identity_installation.rs; application_mutator: installation.rs).        *)
(*                                                                         *)
(* A contribution is a step [kind, owner, path, ...] that one of the       *)
(* editors of ChangePlans works out on the text that the steps before it   *)
(* left.  The lists of names that the code spells out are constants.       *)
(***************************************************************************)
EXTENDS Workspace

CONSTANTS RegistryDependencies,   \* [name, version, features] of the workspace
          MemberDependencies,     \* [owner, path, name, optional]: a member that inherits one
          MemberFeatures,         \* [owner, path, feature, entry]
          RustModules,            \* [owner, path, key]
          RustEntries,            \* [owner, path, key, lines, database], database None for every one
          RoutesPath,             \* where the client's routes are
          RootRoute,              \* the line of the minimal dashboard's own route
          Artifacts               \* path -> contents of the files that are added

(***************************************************************************)
(* Each part of the application has one owner, known by its path.          *)
(***************************************************************************)
OwnerRoot(o) ==
    CASE o = "configuration" -> <<"config">>
      [] o \in {"server", "web"} -> <<"apps", o>>
      [] OTHER -> <<"crates", o>>

Owns(o, path) ==
    CASE o = "workspace" -> path = <<"Cargo.toml">>
      [] o = "manifest" -> path = Manifest
      [] OTHER -> IsStrictPrefix(OwnerRoot(o), path)

\* New files are added anywhere an owner has; a migration that is there already is never edited.
Artifact(o, path, contents) == IF Owns(o, path) THEN Creation(path, contents) ELSE None
Integration(o, path, before, after) ==
    IF Owns(o, path) /\ ~IsStrictPrefix(MigrationRoot, path) THEN Edit(path, before, after) ELSE None

\* The identity of a component or a module in the manifest, or one of its capabilities.
PlanCompositionIdentity(m, key, id, version) ==
    LET list == PlanIdentityEntry(m.composition[key], id, version)
    IN  IF list \in {Error, Present} THEN list ELSE [m EXCEPT !.composition[key] = list]

PlanCapability(m, x) ==
    IF x \in m.composition.capabilities THEN Present ELSE [m EXCEPT !.composition.capabilities = @ \cup {x}]

\* The dashboard gives up its route, where it is the one that the template has.
RemoveRootRoute(lines) ==
    IF Cardinality(Positions(lines, RootRoute)) = 1 THEN SelectSeq(lines, LAMBDA l : l # RootRoute) ELSE Error

EditOf(s, text) ==
    CASE s.kind \in {"components", "modules"} -> PlanCompositionIdentity(text, s.kind, s.id, s.version)
      [] s.kind = "capability" -> PlanCapability(text, s.id)
      [] s.kind = "dependency" -> PlanCargoDependency(text, s.section, s.dependency)
      [] s.kind = "feature" -> PlanArrayString(text, <<"features">>, s.feature, s.entry)
      [] s.kind = "module" -> PlanRustModule(text, s.key)
      [] s.kind = "entry" -> PlanManagedEntry(text, s.key, s.lines)
      [] s.kind = "unroute" -> RemoveRootRoute(text)

(***************************************************************************)
(* The steps, in the order of the code.                                    *)
(***************************************************************************)
ManifestSteps(version) ==
    <<[kind |-> "components", owner |-> "manifest", path |-> Manifest, id |-> Identity, version |-> version],
      [kind |-> "modules", owner |-> "manifest", path |-> Manifest, id |-> Identity, version |-> version],
      [kind |-> "capability", owner |-> "manifest", path |-> Manifest, id |-> "authentication"],
      [kind |-> "capability", owner |-> "manifest", path |-> Manifest, id |-> "authorization"]>>

DependencyStep(o, path, section, d) ==
    [kind |-> "dependency", owner |-> o, path |-> path, section |-> section, dependency |-> d]

DependencySteps(framework, installation) ==
    [i \in DOMAIN installation.dependencies |->
        LET d == installation.dependencies[i]
        IN  DependencyStep("workspace", <<"Cargo.toml">>, WorkspaceDependencies,
                Dependency(d.name, FrameworkSource(framework.repository, framework.version, d.defaults), FALSE, {}))]
    \o [i \in DOMAIN RegistryDependencies |->
          LET d == RegistryDependencies[i]
          IN  DependencyStep("workspace", <<"Cargo.toml">>, WorkspaceDependencies,
                  Dependency(d.name, [kind |-> "registry", version |-> d.version], FALSE, d.features))]
    \o [i \in DOMAIN MemberDependencies |->
          LET d == MemberDependencies[i]
          IN  DependencyStep(d.owner, d.path, <<"dependencies">>, Dependency(d.name, [kind |-> "workspace"], d.optional, {}))]
    \o [i \in DOMAIN MemberFeatures |->
          LET f == MemberFeatures[i]
          IN  [kind |-> "feature", owner |-> f.owner, path |-> f.path, feature |-> f.feature, entry |-> f.entry]]

SourceSteps(database) ==
    [i \in DOMAIN RustModules |->
        [kind |-> "module", owner |-> RustModules[i].owner, path |-> RustModules[i].path, key |-> RustModules[i].key]]
    \o <<[kind |-> "unroute", owner |-> "web", path |-> RoutesPath]>>
    \o LET entries == SelectSeq(RustEntries, LAMBDA e : e.database \in {None, database})
       IN  [i \in DOMAIN entries |-> [kind |-> "entry", owner |-> entries[i].owner, path |-> entries[i].path,
                                      key |-> entries[i].key, lines |-> entries[i].lines]]

\* One step: what is there already is left, what cannot be worked out ends the plan.
TakeChange(acc, s, text, change) ==
    IF change = None THEN None
    ELSE [texts |-> [acc.texts EXCEPT ![s.path] = text], changes |-> Append(acc.changes, [owner |-> s.owner, change |-> change])]
TakeText(acc, s, text) ==
    CASE text \in {Error, Occupied} -> None
      [] text = Present -> acc
      [] OTHER -> TakeChange(acc, s, text, Integration(s.owner, s.path, acc.texts[s.path], text))
TakeStep(acc, s) == IF acc = None THEN None ELSE TakeText(acc, s, EditOf(s, acc.texts[s.path]))

\* A plausible bug: of two contributions to a file the first is kept.
JoinContributionFirst(acc, x) ==
    IF acc = None \/ x.change.path \in DOMAIN acc THEN acc ELSE [p \in DOMAIN acc \cup {x.change.path} |-> IF p = x.change.path THEN x ELSE acc[p]]

\* Contributions to one file become one, each expecting what the one before left.
JoinContribution(acc, x) ==
    IF acc = None THEN None
    ELSE IF x.change.path \notin DOMAIN acc THEN [p \in DOMAIN acc \cup {x.change.path} |-> IF p = x.change.path THEN x ELSE acc[p]]
    ELSE LET previous == acc[x.change.path]
         IN  IF \/ previous.owner # x.owner \/ x.change.op # "edit" \/ previous.change.after # x.change.before THEN None
             ELSE [acc EXCEPT ![x.change.path].change.after = x.change.after]

ComposeContributions(changes) == FoldLeft(JoinContribution, << >>, changes)

PlanInstallation(component, installed, joined) ==
    IF joined = None \/ ~ValidIdentifier(component) \/ component \in installed \/ joined = << >> THEN None
    ELSE [p \in DOMAIN joined |-> joined[p].change]

\* Every file that a step may edit has to be there.
Required(steps) == {s.path : s \in Range(steps)}

\* The files that are added: the server's own, and the infrastructure's.
AddedArtifacts ==
    [i \in 1 .. Cardinality(DOMAIN Artifacts) |->
        LET p == SetToSeq(DOMAIN Artifacts)[i]
            o == IF Owns("server", p) THEN "server" ELSE "infrastructure"
        IN  [owner |-> o, change |-> Artifact(o, p, Artifacts[p])]]
PlanFromSteps(m, end) ==
    IF end = None THEN None
    ELSE PlanInstallation(Identity, InstalledIds(m), ComposeContributions(end.changes \o AddedArtifacts))
TakeSteps(m, files, steps) ==
    IF \E p \in Required(steps) : files[p] = None THEN None
    ELSE PlanFromSteps(m, FoldLeft(TakeStep, [texts |-> Restrict(files, Required(steps)), changes |-> << >>], steps))

\* identity_installation::plan, from the context and the files as they are read.
PlanIdentity(x, files) ==
    LET component == Bundled.components[Identity]
    IN  IF ~(x.manifest.databases \subseteq Range(component.installation.databases) /\ x.manifest.clients \subseteq Range(component.installation.clients))
        THEN None
        ELSE TakeSteps(x.manifest, files,
                ManifestSteps(component.version) \o DependencySteps(x.manifest.framework, component.installation)
                \o SourceSteps(CHOOSE d \in x.manifest.databases : TRUE))

(***************************************************************************)
(* The command.  An editor's refusal, a file that is missing and a text    *)
(* that is not the template's are conflicts.                               *)
(***************************************************************************)
AdmitAdd(c, x) ==
    IF x \in {None, Conflicting, Incompatible, Error} THEN Stop(c, MutationRefusal(x))
    ELSE IF cmd[c].wanted \in InstalledIds(x.manifest) THEN Stop(c, "conflict")
    ELSE IF Bundled = None THEN Stop(c, "internal-error")
    ELSE IF Resolve(Bundled, Request(x.manifest.framework, x.manifest.composition.package,
                                     Sorted(IdsOf(x.manifest.composition.components) \o <<cmd[c].wanted>>))) = None THEN Stop(c, "refused")
    ELSE IF cmd[c].wanted # Identity THEN Stop(c, "validation")
    ELSE Read(c, [cmd[c] EXCEPT !.pc = "plan", !.context = x])

ObserveForAdd(c) ==
    /\ cmd[c].kind = "add" /\ cmd[c].pc = "observe"
    /\ AdmitAdd(c, MutationContext(disk, cmd[c].explicit))

\* The sources are read and the plan made.
PlanAdd(c) ==
    /\ cmd[c].kind = "add" /\ cmd[c].pc = "plan"
    /\ Propose(c, PlanIdentity(cmd[c].context, disk.files))
=============================================================================
