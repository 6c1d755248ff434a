------------------------------- MODULE Catalog -------------------------------
(***************************************************************************)
(* The component package that a release bundles, and how a set of          *)
(* components is resolved against it (template_renderer: manifest.rs and   *)
(* composition.rs).                                                        *)
(*                                                                         *)
(* A package source is a record of                                         *)
(*   package     package.toml, or None where the release has none,         *)
(*   templates   template id -> template.toml,                             *)
(*   components  file name   -> components/<name>.toml,                    *)
(*   edges       path -> upgrade edge (see Upgrade),                       *)
(*   files       path -> contents of every other file,                     *)
(*   irregular   entries that are links, devices or too large.             *)
(* A digest of something is the thing itself: SHA-256 is taken to be       *)
(* injective.  A list that must be sorted and free of duplicates is one    *)
(* that equals the enumeration of its set.                                 *)
(***************************************************************************)
EXTENDS ApplicationManifest

CONSTANTS BundledRelease,    \* the release this command line was built as
          MaxPackageFiles

TemplateSchema == 1
PackageSchema == 3
ComponentSchema(package) == IF package # None THEN 3 ELSE 1

SortedUnique(s) == s = Sorted(s)
ValidIdentifiers(s) == SortedUnique(s) /\ \A x \in Range(s) : ValidIdentifier(x)
ValidRelativePath(p) == p # << >> /\ ".." \notin Range(p)

ValidUpgradePaths(paths) ==
    /\ SortedUnique(paths)
    /\ \A p \in Range(paths) : ValidRelativePath(p) /\ Len(p) = 2 /\ p[1] = "upgrades"

ValidLockPaths(paths) ==
    /\ SortedUnique(paths)
    /\ \A p \in Range(paths) : ValidRelativePath(p) /\ Len(p) = 3 /\ p[1] = "upgrades" /\ p[2] = "locks"

ValidPackage(p) ==
    /\ p.schema = PackageSchema
    /\ ValidIdentifier(p.id) /\ p.id = Package
    /\ ValidFramework(p.framework) /\ p.framework.repository = "hegira"
    /\ p.version = p.framework.version /\ p.version = BundledRelease
    /\ p.templates # << >> /\ ValidIdentifiers(p.templates)
    /\ p.components # << >> /\ ValidIdentifiers(p.components)
    /\ ValidIdentifiers(p.modules)
    /\ ValidUpgradePaths(p.edges) /\ ValidLockPaths(p.locks)
    /\ p.digest # None

ValidTemplate(t, id) ==
    /\ t.schema = TemplateSchema /\ ValidIdentifier(t.id) /\ t.id = id
    /\ t.components # << >>
    /\ \A x \in Range(t.components) \cup DOMAIN t.variables : ValidIdentifier(x)

ValidDependency(d) == ValidIdentifier(d.name) /\ ValidRelativePath(d.manifest) /\ ValidRelativePath(d.path)

\* A component that is installed into an application renders nothing of its own.
ValidInstallation(c) ==
    LET i == c.installation
        listed(s) == s # << >> /\ SortedUnique(s)
    IN  /\ ValidIdentifier(i.module) /\ c.modules = <<i.module>>
        /\ c.include = << >> /\ c.requires # << >>
        /\ listed(i.databases) /\ listed(i.clients) /\ listed(i.contributions)
        /\ i.dependencies # << >>
        /\ \A d \in Range(i.dependencies) : ValidDependency(d) /\ d.manifest = <<"Cargo.toml">>
        /\ SortedUnique([k \in DOMAIN i.dependencies |-> i.dependencies[k].name])
        /\ Cardinality({d.path : d \in Range(i.dependencies)}) = Len(i.dependencies)
        /\ \A db \in Databases : (db \in Range(i.databases)) = (<<db, "migrations">> \in Range(i.contributions))

ValidComponent(c, package) ==
    /\ ValidIdentifier(c.id)
    /\ (package # None) = (c.version # None)
    /\ ValidRelativePath(c.source)
    /\ c.include # << >> \/ c.installation # None
    /\ \A p \in Range(c.include) : ValidRelativePath(p)
    /\ ValidIdentifiers(c.requires) /\ ValidIdentifiers(c.conflicts)
    /\ ValidIdentifiers(c.optional) /\ ValidIdentifiers(c.modules)
    /\ SortedUnique(c.provides) /\ SortedUnique(c.needs)
    /\ c.id \notin Range(c.requires) \cup Range(c.optional) \cup Range(c.conflicts)
    /\ (Range(c.requires) \cup Range(c.optional)) \cap Range(c.conflicts) = {}
    /\ \A d \in Range(c.dependencies) : ValidDependency(d)
    /\ c.installation # None => ValidInstallation(c)

(***************************************************************************)
(* Files of a component: each include is a file or a directory with files. *)
(***************************************************************************)
Included(src, c, i) ==
    IF c.source \o i \in DOMAIN src.files THEN {i}
    ELSE {SubSeq(p, Len(c.source) + 1, Len(p)) : p \in {q \in DOMAIN src.files : IsStrictPrefix(c.source \o i, q)}}

HasFiles(src, c) == \A i \in Range(c.include) : Included(src, c, i) # {}

ComponentFiles(src, c) ==
    [p \in UNION {Included(src, c, i) : i \in Range(c.include)} |-> src.files[c.source \o p]]

\* component_file and upgrade_lockfile: None where the package has no such file.
ComponentFile(cat, id, path) ==
    IF id \in DOMAIN cat.components /\ path \in DOMAIN ComponentFiles(cat.src, cat.components[id])
    THEN ComponentFiles(cat.src, cat.components[id])[path] ELSE None

UpgradeLockfile(cat, path) ==
    IF cat.package # None /\ path \in Range(cat.package.locks) /\ path \in DOMAIN cat.src.files
    THEN cat.src.files[path] ELSE None

\* Nothing in the package that its manifests do not name, and nothing missing.
DeclaredFiles(src, components) ==
    /\ DOMAIN src.templates = Range(src.package.templates)
    /\ DOMAIN src.edges = Range(src.package.edges)
    /\ DOMAIN src.components = DOMAIN components
    /\ \A id \in DOMAIN components : HasFiles(src, components[id])
    /\ DOMAIN src.files =
          Range(src.package.locks) \cup
          UNION {{components[id].source \o p : p \in DOMAIN ComponentFiles(src, components[id])} : id \in DOMAIN components}

ContentDigest(src, components) ==
    [templates |-> src.templates, edges |-> src.edges,
     locks |-> [p \in Range(src.package.locks) |-> src.files[p]], components |-> src.components,
     sources |-> [id \in DOMAIN components |-> ComponentFiles(src, components[id])]]

(***************************************************************************)
(* Resolving components: depth first, dependencies before dependants.      *)
(***************************************************************************)
Walks == [ordered : Seq(STRING), stack : Seq(STRING), ok : BOOLEAN]

Visit(components) ==
    LET visit[id \in STRING, acc \in Walks] ==
            CASE id \in Range(acc.ordered) -> acc
              [] id \in Range(acc.stack) -> [acc EXCEPT !.ok = FALSE]
              [] id \notin Range(acc.ordered) \cup Range(acc.stack) \cup DOMAIN components -> [acc EXCEPT !.ok = FALSE]
              [] OTHER -> LET below == FoldLeft(LAMBDA a, d : visit[d, a], [acc EXCEPT !.stack = Append(@, id)], components[id].requires)
                          IN  [below EXCEPT !.stack = Front(@), !.ordered = Append(@, id)]
    IN  visit

Visited(components, roots) ==
    FoldLeft(LAMBDA a, r : Visit(components)[r, a], [ordered |-> << >>, stack |-> << >>, ok |-> TRUE], Sorted(roots))

\* The request is for the package and the framework release that are here.
Compatible(package, request) ==
    /\ request.framework = package.framework
    /\ request.package = [id |-> package.id, version |-> package.version]

\* What the manifest records is what the components bring, where it records it.
RecordedState(modules, capabilities, request) ==
    /\ request.modules # None => Range(request.modules) = modules /\ Cardinality(Ids(request.modules)) = Len(request.modules)
    /\ request.capabilities # None => request.capabilities = capabilities

Consistent(package, components, chosen, provided) ==
    \A c \in chosen :
       /\ components[c].version = package.version
       /\ Range(components[c].optional) \subseteq DOMAIN components
       /\ Range(components[c].conflicts) \cap chosen = {}
       /\ Range(components[c].modules) \subseteq Range(package.modules)
       /\ Range(components[c].needs) \subseteq provided
       /\ \A d \in chosen \ {c} : Range(components[c].modules) \cap Range(components[d].modules) = {}

GraphOf(package, components, request, v, provided, modules) ==
    IF v.ok /\ Consistent(package, components, Range(v.ordered), provided) /\ RecordedState(modules, provided, request)
    THEN [components |-> v.ordered, modules |-> modules, capabilities |-> provided] ELSE None

ResolveWith(package, components, request) ==
    LET v == Visited(components, request.components)
        all(field) == UNION {Range(components[c][field]) : c \in Range(v.ordered)}
    IN  IF /\ Compatible(package, request)
           /\ \A x \in Range(request.components) : ValidIdentifier(x)
           /\ Cardinality(Range(request.components)) = Len(request.components)
        THEN GraphOf(package, components, request, v, all("provides"),
                     {[id |-> x, version |-> package.version] : x \in all("modules")})
        ELSE None

Request(framework, package, components) ==
    [framework |-> framework, package |-> package, components |-> components, modules |-> None, capabilities |-> None]

Resolve(cat, request) == IF cat.package = None THEN None ELSE ResolveWith(cat.package, cat.components, request)

\* The components that a template, or a list of roots, stands for.
ResolveRoots(cat, roots) ==
    IF cat.package = None THEN None
    ELSE ResolveWith(cat.package, cat.components,
             Request(cat.package.framework, [id |-> cat.package.id, version |-> cat.package.version],
                     IF roots = None THEN cat.template.components ELSE roots))

(***************************************************************************)
(* Loading: every manifest is read and checked, then the upgrade graph     *)
(* (ValidGraph, of Upgrade), the declared files and the content digest.    *)
(***************************************************************************)
RegularEntries(src) == src.irregular = {}
WithinLimits(src) ==
    Cardinality(DOMAIN src.templates) + Cardinality(DOMAIN src.components) + Cardinality(DOMAIN src.edges)
        + Cardinality(DOMAIN src.files) < MaxPackageFiles
Snapshot(src) == RegularEntries(src) /\ WithinLimits(src)

Manifests(src, id) ==
    /\ Snapshot(src) /\ ValidIdentifier(id)
    /\ src.package # None => ValidPackage(src.package) /\ id \in Range(src.package.templates)
    /\ id \in DOMAIN src.templates /\ ValidTemplate(src.templates[id], id)
    /\ \A f \in DOMAIN src.components :
          /\ src.components[f].schema = ComponentSchema(src.package)
          /\ ValidComponent(src.components[f], src.package)
    /\ \A f, g \in DOMAIN src.components : f # g => src.components[f].id # src.components[g].id
    /\ src.package # None => Range(src.package.components) = {src.components[f].id : f \in DOMAIN src.components}
    /\ src.package # None => Range(src.package.edges) \subseteq DOMAIN src.edges

CatalogOf(src, id) ==
    [src |-> src, template |-> src.templates[id], package |-> src.package,
     components |-> [c \in {src.components[f].id : f \in DOMAIN src.components} |->
                        CHOOSE x \in {src.components[f] : f \in DOMAIN src.components} : x.id = c],
     edges |-> IF src.package = None THEN << >>
               ELSE [k \in DOMAIN src.package.edges |-> src.edges[src.package.edges[k]]]]

\* What a package declares is there, and its content is what its digest says.
Sealed(src, cat) ==
    DeclaredFiles(src, cat.components) /\ ContentDigest(src, cat.components) = cat.package.digest
=============================================================================
