------------------------------- MODULE Upgrade -------------------------------
(***************************************************************************)
(* Moving an application from one release to the next (template_renderer:  *)
(* upgrade.rs, upgrade_planning.rs): the graph of upgrades that a package  *)
(* declares, the checks it passes when the package is loaded, and the plan *)
(* for an application whose managed files have been authenticated.         *)
(*                                                                         *)
(* An edge is a record of schema, id, digest, source and target (each      *)
(* [framework, package]), compositions, transitions, managed.  A           *)
(* composition is [id, digest, owned, owns, source, target, transitions,   *)
(* managed], owned and owns the ownership before and after, its states     *)
(* [database, client, components, modules, capabilities].  A managed       *)
(* transition is [component, path, integration, kind, source, from, lock,  *)
(* target]: the digests of the file before and after, and the component or *)
(* the lock file of the package that holds the new one.                    *)
(***************************************************************************)
EXTENDS Catalog, ChangePlans

CONSTANTS Incompatible, Unsupported, Conflicting    \* why there is no plan

UpgradeEdgeSchema == 1
MaxUpgradeEdges == 16
MaxCompositions == 64
MaxManaged == 512
MaxMembers == 64
Manifest == <<"hegira.toml">>
Lockfile == <<"Cargo.lock">>
MigrationRoot == <<"crates", "infrastructure", "migrations">>

Distinct(s) == \A i, j \in DOMAIN s : i # j => s[i] # s[j]
ValidDigest(d) == d # None

(***************************************************************************)
(* The graph                                                               *)
(***************************************************************************)
ValidReleaseIdentity(package, r) ==
    /\ ValidFramework(r.framework)
    /\ r.framework.repository = package.framework.repository
    /\ r.package = [id |-> package.id, version |-> r.framework.version]

\* The next patch, minor or major release, with nothing in between.
DirectRelease(a, b) ==
    \/ b = <<a[1], a[2], a[3] + 1>>
    \/ b = <<a[1], a[2] + 1, 0>>
    \/ b = <<a[1] + 1, 0, 0>>

ValidState(cat, s) ==
    /\ Len(s.components) <= MaxMembers /\ Len(s.modules) <= MaxMembers /\ Len(s.capabilities) <= MaxMembers
    /\ s.components # << >> /\ ValidIdentifiers(s.components) /\ ValidIdentifiers(s.modules) /\ SortedUnique(s.capabilities)
    /\ Range(s.components) \subseteq DOMAIN cat.components
    /\ Range(s.modules) \subseteq Range(cat.package.modules)
    /\ Range(s.capabilities) \subseteq UNION {Range(cat.components[c].provides) : c \in DOMAIN cat.components}

\* The state after an upgrade is one that this package resolves to itself.
ValidTargetState(cat, s) ==
    /\ ValidState(cat, s)
    /\ \A c \in Range(s.components) :
          LET i == cat.components[c].installation
          IN  i # None => s.database \in Range(i.databases) /\ s.client \in Range(i.clients)
    /\ LET r == ResolveRoots(cat, s.components)
       IN  /\ r # None
           /\ Range(r.components) = Range(s.components)
           /\ {x.id : x \in r.modules} = Range(s.modules) /\ r.capabilities = Range(s.capabilities)

\* The contents that the package holds for a transition, None where it holds none.
TargetOf(cat, t) ==
    IF t.lock # None THEN UpgradeLockfile(cat, t.lock)
    ELSE ComponentFile(cat, IF t.from # None THEN t.from ELSE t.component, t.path)

ValidDigests(cat, t) ==
    /\ (t.kind \in {"edit", "retire"}) = (t.source # None)
    /\ (t.kind \in {"create", "edit"}) = (t.target # None)
    /\ t.kind = "edit" => t.source # t.target
    /\ t.target # None => TargetOf(cat, t) = t.target

ManagedKey(t) == <<t.component, t.path, t.integration>>

ValidManaged(cat, s) ==
    /\ \A t \in Range(s) :
          /\ ValidIdentifier(t.component) /\ ValidIdentifier(t.integration) /\ ValidRelativePath(t.path)
          /\ t.component \in DOMAIN cat.components
          /\ t.from # None => t.from \in DOMAIN cat.components /\ t.kind # "retire"
          /\ t.lock # None => t.kind = "edit" /\ t.path = Lockfile /\ t.integration = "framework-lockfile" /\ t.from = None
          /\ ValidDigests(cat, t)
    /\ Distinct([i \in DOMAIN s |-> ManagedKey(s[i])])

OwnershipDeclares(o, t) == Declares(o, t.path, t.integration)

\* An upgrade adds what it will own, edits what it owned and still owns, and removes what it owned.
OwnedTransition(c, t) ==
    /\ t.kind \in {"edit", "retire"} => OwnershipDeclares(c.owned, t)
    /\ t.kind \in {"create", "edit"} => OwnershipDeclares(c.owns, t)

Applicable(c, s) == SelectSeq(s, LAMBDA t : t.component \in Range(c.source.components) \cup Range(c.target.components))

ValidTransition(cat, edge, c) ==
    /\ ValidIdentifier(c.id) /\ ValidDigest(c.digest)
    /\ ValidState(cat, c.source) /\ ValidTargetState(cat, c.target)
    /\ ValidOwnership(c.owned) /\ ValidOwnership(c.owns)
    /\ c.source.database = c.target.database /\ c.source.client = c.target.client
    /\ c.transitions # None => Distinct(c.transitions)
    /\ ValidManaged(cat, c.managed) /\ Applicable(c, c.managed) = c.managed
    /\ LET all == Applicable(c, edge.managed \o c.managed)
       IN  Distinct([i \in DOMAIN all |-> ManagedKey(all[i])]) /\ \A t \in Range(all) : OwnedTransition(c, t)

ValidEdge(cat, e) ==
    /\ e.schema = UpgradeEdgeSchema /\ ValidIdentifier(e.id) /\ ValidDigest(e.digest)
    /\ ValidReleaseIdentity(cat.package, e.source) /\ ValidReleaseIdentity(cat.package, e.target)
    /\ e.target.framework.version = cat.package.framework.version /\ e.target.package.version = cat.package.version
    /\ DirectRelease(e.source.framework.version, e.target.framework.version)
    /\ e.compositions # << >> /\ Len(e.compositions) <= MaxCompositions
    /\ Len(e.managed) + FoldLeft(LAMBDA n, c : n + Len(c.managed), 0, e.compositions) <= MaxManaged
    /\ Distinct([i \in DOMAIN e.compositions |-> e.compositions[i].id])
    /\ Distinct(e.transitions)
    /\ ValidManaged(cat, e.managed)
    /\ \A c \in Range(e.compositions) : ValidTransition(cat, e, c)

\* No two ways to upgrade the same application.
CompositionKey(e, c) == <<e.source, c.source>>

ValidGraph(cat) ==
    /\ Range(cat.package.locks) \subseteq DOMAIN cat.src.files
    /\ Len(cat.edges) <= MaxUpgradeEdges
    /\ Distinct([i \in DOMAIN cat.edges |-> cat.edges[i].id])
    /\ Distinct([i \in DOMAIN cat.edges |-> <<cat.edges[i].source.framework.version, cat.edges[i].target.framework.version>>])
    /\ \A e \in Range(cat.edges) : ValidEdge(cat, e)
    /\ \A e, f \in Range(cat.edges) :
          \A i \in DOMAIN e.compositions, j \in DOMAIN f.compositions :
             e # f \/ i # j => CompositionKey(e, e.compositions[i]) # CompositionKey(f, f.compositions[j])

LoadCatalog(src) ==
    LET cat == CatalogOf(src, "layered")
    IN  IF Manifests(src, "layered") /\ (cat.package = None \/ (ValidGraph(cat) /\ Sealed(src, cat))) THEN cat ELSE None

(***************************************************************************)
(* The edge for an application, and what its manifest becomes.             *)
(***************************************************************************)
ReleaseOf(m) == [framework |-> m.framework, package |-> m.composition.package]
IdsOf(s) == [i \in DOMAIN s |-> s[i].id]

EdgeFrom(cat, source) == SelectSeq(cat.edges, LAMBDA e : e.source = source)

\* None for a release, or a composition, that no edge starts from.
ResolveEdge(cat, m) ==
    LET es == EdgeFrom(cat, ReleaseOf(m))
        recorded(c) == /\ m.databases = {c.source.database} /\ m.clients = {c.source.client}
                       /\ c.source.components = IdsOf(m.composition.components) /\ c.source.modules = IdsOf(m.composition.modules)
                       /\ Range(c.source.capabilities) = m.composition.capabilities
        cs == IF es = << >> THEN << >> ELSE SelectSeq(Head(es).compositions, recorded)
    IN  IF cs = << >> THEN None
        ELSE [id |-> Head(es).id, source |-> Head(es).source, target |-> Head(es).target, composition |-> Head(cs),
              transitions |-> Range(IF Head(cs).transitions # None THEN Head(cs).transitions ELSE Head(es).transitions),
              managed |-> Applicable(Head(cs), Head(es).managed \o Head(cs).managed)]

Installed(ids, version) == [i \in DOMAIN ids |-> [id |-> ids[i], version |-> version]]

TargetGraph(cat, edge) ==
    Resolve(cat, [framework |-> edge.target.framework, package |-> edge.target.package,
                  components |-> edge.composition.target.components,
                  modules |-> Installed(edge.composition.target.modules, edge.target.package.version),
                  capabilities |-> Range(edge.composition.target.capabilities)])

\* An upgrade never takes a component or a module away.
RemovesComponent(edge, graph) ==
    \/ ~(Range(edge.composition.source.components) \subseteq Range(graph.components))
    \/ ~(Range(edge.composition.source.modules) \subseteq {x.id : x \in graph.modules})

\* Dependencies that two components declare differently have no target.
TargetDependencies(cat, graph) ==
    LET declared(c) == cat.components[c].dependencies
                       \o (IF cat.components[c].installation = None THEN << >> ELSE cat.components[c].installation.dependencies)
        all == UNION {Range(declared(c)) : c \in Range(graph.components)}
    IN  IF \E d, e \in all : d # e /\ d.manifest = e.manifest /\ d.name = e.name THEN None ELSE all

TargetManifest(m, edge, graph) ==
    [m EXCEPT !.schema = ManifestSchema, !.framework = edge.target.framework,
              !.composition = [package |-> edge.target.package,
                               components |-> Installed(graph.components, edge.target.package.version),
                               modules |-> Sorted(SetToSeq(graph.modules)), capabilities |-> graph.capabilities],
              !.upgrade = [framework |-> edge.target.framework, package |-> edge.target.package,
                           ownership |-> edge.composition.owns]]

ManifestTransitions(m, n) ==
    LET of(x, f) == IF x = None THEN None ELSE x[f]
    IN  {t \in {"schema", "framework"} : m[t] # n[t]}
        \cup {t \in {"package", "components", "modules", "capabilities"} : of(m.composition, t) # of(n.composition, t)}
        \cup {t \in {"ownership"} : of(m.upgrade, t) # of(n.upgrade, t)}

\* validated_target_manifest: the new manifest, or why there is none.
Written(m, n, edge) == IF ToToml(n) = None \/ ManifestTransitions(m, n) # edge.transitions THEN Incompatible ELSE n
TargetFor(cat, m, edge, graph) ==
    IF graph = None THEN Incompatible
    ELSE IF RemovesComponent(edge, graph) THEN Unsupported
    ELSE IF TargetDependencies(cat, graph) = None THEN Incompatible
    ELSE Written(m, TargetManifest(m, edge, graph), edge)

ValidatedTarget(cat, m, edge) == TargetFor(cat, m, edge, TargetGraph(cat, edge))

(***************************************************************************)
(* The plan.  A managed source is [t, before, after]: a transition with    *)
(* what was read and what the package brings.                              *)
(***************************************************************************)
RequiredSource(sources, path, integration) ==
    {s \in Range(sources) : s.t.path = path /\ s.t.integration = integration}

\* A framework dependency of another release or repository is not ours to change.
DependenciesAgree(doc, framework) ==
    \A n \in DOMAIN doc[WorkspaceDependencies] :
       LET x == doc[WorkspaceDependencies][n]
       IN  x # None => (Given(x, "git", None) = framework.repository) = (Given(x, "tag", None) = framework.version)

FrameworkNames(doc, framework) ==
    {n \in DOMAIN doc[WorkspaceDependencies] :
        LET x == doc[WorkspaceDependencies][n] IN x # None /\ Given(x, "git", None) = framework.repository}

\* One dependency moves to the new release, or is added; None where that would clash.
MoveDependency(doc, d, edge) ==
    LET of(f) == Dependency(d.name, FrameworkSource(f.repository, f.version, d.defaults), FALSE, {})
        unless(refusals, x, y) == IF x \in refusals THEN y ELSE x
        moved == PlanCargoTransition(doc, WorkspaceDependencies, of(edge.source.framework), of(edge.target.framework))
        added == PlanCargoDependency(doc, WorkspaceDependencies, of(edge.target.framework))
    IN  IF doc = None THEN None ELSE unless({Error, Present, Occupied}, unless({Occupied}, moved, added), None)

\* Every dependency of one Cargo manifest.
DependencyEdit(s, edge, dependencies) ==
    LET from == edge.source.framework
        editTo(doc) == IF doc = None THEN Conflicting ELSE Edit(s.t.path, s.before, doc)
        moved == FoldSet(LAMBDA d, doc : MoveDependency(doc, d, edge), s.before, dependencies)
    IN  CASE s.t.kind # "edit" -> Incompatible
          [] s.t.kind = "edit" /\ WorkspaceDependencies \notin DOMAIN s.before -> Conflicting
          [] OTHER -> IF ~DependenciesAgree(s.before, from) THEN Conflicting
                      ELSE IF ~(FrameworkNames(s.before, from) \subseteq {d.name : d \in dependencies}) THEN Unsupported
                      ELSE editTo(moved)

ManifestEdit(s, m, n) ==
    IF s.t.kind # "edit" \/ s.before # m THEN Incompatible ELSE Edit(Manifest, m, ToToml(n))

\* The one source that a plan needs.
TheSource(found) == CHOOSE s \in found : TRUE
WithSource(found, edit) ==
    CASE found = {} -> Incompatible
      [] Cardinality(found) > 1 -> Conflicting
      [] OTHER -> edit

PlanDependencies(sources, edge, path, dependencies) ==
    LET found == RequiredSource(sources, path, "framework-dependencies")
    IN  WithSource(found, DependencyEdit(TheSource(found), edge, dependencies))
PlanManifest(sources, m, n) ==
    LET found == RequiredSource(sources, Manifest, "application-manifest")
    IN  WithSource(found, ManifestEdit(TheSource(found), m, n))

\* Migrations that have shipped are history: an upgrade may add one, never change one.
PlanTransition(edge, s) ==
    IF s.t.kind \in {"edit", "retire"} /\ IsStrictPrefix(MigrationRoot, s.t.path) THEN Incompatible
    ELSE CASE s.t.kind = "create" -> Creation(s.t.path, s.after)
           [] s.t.kind = "edit" -> Edit(s.t.path, s.before, s.after)
           [] s.t.kind = "retire" -> Retirement(edge.composition.owned, s.t.path, s.t.integration, s.before)

\* from_authenticated: a change plan, or the first error.
Changes(sources, edge, raw, n, dependencies, manifests) ==
    LET others == SelectSeq(sources, LAMBDA s : s.t.path \notin Range(manifests) \cup {Manifest})
    IN  [i \in DOMAIN manifests |->
            PlanDependencies(sources, edge, manifests[i], {d \in dependencies : d.manifest = manifests[i]})]
        \o <<PlanManifest(sources, raw, n)>>
        \o [i \in DOMAIN others |-> PlanTransition(edge, others[i])]

Refused(changes) == SelectSeq(changes, LAMBDA c : c \in {Incompatible, Unsupported, Conflicting, None})
OrConflicting(x) == IF x = None THEN Conflicting ELSE x
Settled(changes) == OrConflicting(IF Refused(changes) # << >> THEN Head(Refused(changes)) ELSE PlanOf(changes))
PlanFrom(sources, edge, raw, n, dependencies) ==
    IF n \in {Incompatible, Unsupported} THEN n
    ELSE Settled(Changes(sources, edge, raw, n, dependencies, SetToSeq({d.manifest : d \in dependencies})))

UpgradePlan(cat, m, raw, edge, sources) ==
    PlanFrom(sources, edge, raw, ValidatedTarget(cat, m, edge), TargetDependencies(cat, TargetGraph(cat, edge)))
=============================================================================
