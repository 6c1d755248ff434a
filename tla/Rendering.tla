------------------------------ MODULE Rendering ------------------------------
(***************************************************************************)
(* hegira new: what is asked of the user, what the bundled package renders *)
(* and how the rendered application comes to its destination (hegira_cli:  *)
(* lib.rs; template_renderer: render.rs and destination.rs).               *)
(*                                                                         *)
(* A destination names a place in one parent directory.  disk.parent is    *)
(* the directory that the parent's path names, None where it is no real    *)
(* directory; disk.places[d][n] is what directory d holds at n, None or    *)
(* path -> contents; disk.staged[c] is what c's staging directory holds    *)
(* and whether the name still means the directory that c created.          *)
(***************************************************************************)
EXTENDS Workspace

CONSTANTS Destinations,      \* text of a destination -> the place it names; other texts are refused
          Answers,           \* names that the user may type
          GeneratedOnce,     \* guides and policy that belong to the owner once they are rendered
          RepositoryRoot,    \* the directory that the command line was built from
          Mentions(_),       \* directories that a rendered file mentions
          Tokens(_),         \* template tokens of a file, [name, expression]; Error where one is not closed
          Filled(_, _)       \* contents with the tokens replaced by the values of the variables

(***************************************************************************)
(* Planning.  Each step makes a value, path -> contents in the end, or     *)
(* fails with the kind of its error.                                       *)
(***************************************************************************)
Failed(kind) == [failure |-> kind, value |-> None]
Made(x) == [failure |-> None, value |-> x]
RendererDiagnostic(kind) ==
    CASE kind \in {"application-manifest", "variables", "safety"} -> "validation"
      [] kind = "conflict" -> "conflict"
      [] OTHER -> "internal-error"

Feature(database) == IF database = "sqlite" THEN "db-sqlite" ELSE "db-postgres"
Overrides(new) ==
    [x \in {"application_name", "client_adapter", "database_adapter", "database_feature"} |->
        CASE x = "application_name" -> new.name [] x = "client_adapter" -> new.client
          [] x = "database_adapter" -> new.database [] OTHER -> Feature(new.database)]

\* The template's defaults, the user's choices over them, and what the package and the database add.
PackageVariables(package) ==
    [x \in {"framework_repository", "framework_version", "package_id", "package_version"} |->
        CASE x = "framework_repository" -> package.framework.repository [] x = "framework_version" -> package.framework.version
          [] x = "package_id" -> package.id [] OTHER -> package.version]
ProfileVariable(database) == [x \in {"development_profile"} |-> IF database = "sqlite" THEN "sqlite" ELSE "development"]
ResolveVariables(cat, overrides) ==
    LET declared == cat.template.variables
        package == IF cat.package = None THEN << >> ELSE PackageVariables(cat.package)
        chosen == package @@ overrides @@ declared
        adapts == "database_adapter" \in DOMAIN chosen
    IN  IF ~(DOMAIN overrides \subseteq DOMAIN declared) THEN Failed("variables")
        ELSE IF DOMAIN declared \cap DOMAIN package # {} THEN Failed("catalog")
        ELSE IF adapts /\ chosen["database_adapter"] \notin Databases THEN Failed("variables")
        ELSE IF adapts /\ "development_profile" \in DOMAIN chosen THEN Failed("catalog")
        ELSE Made(IF adapts THEN ProfileVariable(chosen["database_adapter"]) @@ chosen ELSE chosen)

\* Tokens that look like ${{ ... }} are left alone in workflows: they are evaluated elsewhere.
IsWorkflow(p) == IsPrefix(<<".github", "workflows">>, p) \/ IsPrefix(<<".github", "actions">>, p)
SubstituteVariables(p, contents, variables) ==
    LET ours(tokens) == {t.name : t \in {u \in tokens : ~(u.expression /\ IsWorkflow(p))}}
    IN  IF Tokens(contents) = Error \/ ~(ours(Tokens(contents)) \subseteq DOMAIN variables) THEN Error
        ELSE Filled(contents, variables)

\* A path is rendered by one component.
CollectFile(made, p, contents) ==
    IF made.failure # None THEN made
    ELSE IF contents = Error THEN Failed("variables")
    ELSE IF p \in DOMAIN made.value THEN Failed("collision")
    ELSE Made((p :> contents) @@ made.value)
CollectComponentFiles(made, files, variables) ==
    FoldSet(LAMBDA p, acc : CollectFile(acc, p, SubstituteVariables(p, files[p], variables)), made, DOMAIN files)

\* The manifest records what was resolved, and gives the guides that were rendered to the owner.
WithComposition(m, cat, graph, once) ==
    [m EXCEPT !.framework = cat.package.framework,
              !.composition = [package |-> [id |-> cat.package.id, version |-> cat.package.version],
                               components |-> Installed(graph.components, cat.package.version),
                               modules |-> SetToSeq(graph.modules), capabilities |-> graph.capabilities],
              !.upgrade = IF @ = None THEN None ELSE [@ EXCEPT !.ownership.claims = @ \o once]]
WriteResolvedComposition(cat, graph, files) ==
    LET once == SetToSeq({[path |-> p, class |-> "generated-once", integration |-> None] : p \in GeneratedOnce \cap DOMAIN files})
        written == ToToml(WithComposition(files[Manifest], cat, graph, once))
    IN  IF Manifest \notin DOMAIN files THEN Made(files)
        ELSE IF written = None THEN Failed("application-manifest") ELSE Made([files EXCEPT ![Manifest] = written])

RenderedAs(files, ids) ==
    Manifest \in DOMAIN files => FromToml(files[Manifest]) # None /\ RenderedComponents(FromToml(files[Manifest]), ids)
LeaksRepository(files) == \E p \in DOMAIN files : RepositoryRoot \in Mentions(files[p])

\* The steps of a plan; each goes on from what the one before it made.
ValidateRendered(graph, made) ==
    IF made.failure # None THEN made
    ELSE IF ~RenderedAs(made.value, Range(graph.components)) THEN Failed("application-manifest")
    ELSE IF LeaksRepository(made.value) THEN Failed("safety") ELSE made
ComposeRendered(cat, graph, made) ==
    IF made.failure # None THEN made ELSE ValidateRendered(graph, WriteResolvedComposition(cat, graph, made.value))
RenderGraph(cat, graph, variables) ==
    IF graph = None THEN Failed("component-resolution")
    ELSE IF variables.failure # None THEN variables
    ELSE ComposeRendered(cat, graph,
             FoldLeft(LAMBDA made, c : CollectComponentFiles(made, ComponentFiles(cat.src, cat.components[c]), variables.value),
                      Made(<< >>), graph.components))
RenderPlan(cat, new) ==
    IF cat = None THEN Failed(IF Snapshot(Packages[pkg]) THEN "catalog" ELSE "safety")
    ELSE IF cat.package = None THEN Failed("component-resolution")     \* a choice of components needs a package
    ELSE RenderGraph(cat, ResolveRoots(cat, <<new.component>>), ResolveVariables(cat, Overrides(new)))

(***************************************************************************)
(* The destination: its parent is there, without symbolic links, and       *)
(* nothing is at the place itself.                                         *)
(***************************************************************************)
CheckedPath(text) == IF text \in DOMAIN Destinations THEN Destinations[text] ELSE None
EnsureAbsent(d, directory, text) == IF d.places[directory][CheckedPath(text)] = None THEN None ELSE "conflict"
ValidateDestination(d, text) ==
    IF CheckedPath(text) = None \/ d.parent = None THEN "safety" ELSE EnsureAbsent(d, d.parent, text)

Creates(c, pc) == cmd[c].kind = "new" /\ cmd[c].pc = pc
Asked(c, field, value) == [cmd[c] EXCEPT !.wanted = [@ EXCEPT ![field] = value]]
Answered(c, field, values) == IF cmd[c].wanted[field] # None THEN {cmd[c].wanted[field]} ELSE values
Choose(new) ==
    [new EXCEPT !.database = IF @ = None THEN "sqlite" ELSE @, !.client = IF @ = None THEN "leptos" ELSE @,
                !.component = IF @ = None THEN LeptosIdentity ELSE @]

\* A command that names the application and its destination asks nothing.
ResolveNewCommand(c) ==
    LET new == cmd[c].wanted
    IN  /\ Creates(c, "observe")
        /\ \/ None \notin {new.name, new.destination} /\ Read(c, [cmd[c] EXCEPT !.pc = "create", !.wanted = Choose(new)])
           \/ None \in {new.name, new.destination} /\ cmd[c].mode = "script" /\ Stop(c, "usage")
           \/ None \in {new.name, new.destination} /\ cmd[c].mode = "terminal" /\ Read(c, [cmd[c] EXCEPT !.pc = "name"])

\* The prompts, in their order.  The input may end at each of them.
Cancel(c) ==
    /\ cmd[c].kind = "new"
    /\ \/ cmd[c].pc \in {"name", "destination"} /\ cmd[c].wanted[cmd[c].pc] = None
       \/ cmd[c].pc = "choices" /\ None \in {cmd[c].wanted[x] : x \in {"database", "client", "component"}}
       \/ cmd[c].pc = "confirm"
    /\ Stop(c, "cancelled")

ResolveName(c) ==
    /\ Creates(c, "name")
    /\ \E n \in Answered(c, "name", Answers) :
          IF ValidName(n) THEN Read(c, [Asked(c, "name", n) EXCEPT !.pc = "destination"]) ELSE Stop(c, RendererDiagnostic("variables"))

ResolveDestination(c) ==
    /\ Creates(c, "destination")
    /\ \E text \in Answered(c, "destination", {cmd[c].wanted.name} \cup Answers) :
          IF ValidateDestination(disk, text) = None THEN Read(c, [Asked(c, "destination", text) EXCEPT !.pc = "choices"])
          ELSE Stop(c, RendererDiagnostic(ValidateDestination(disk, text)))

ResolveChoices(c) ==
    /\ Creates(c, "choices")
    /\ \E db \in Answered(c, "database", Databases), client \in Answered(c, "client", Clients),
          component \in Answered(c, "component", {LeptosIdentity, LeptosMinimal}) :
          Read(c, [cmd[c] EXCEPT !.pc = "confirm", !.wanted = [@ EXCEPT !.database = db, !.client = client, !.component = component]])

Confirm(c) == Creates(c, "confirm") /\ Read(c, [cmd[c] EXCEPT !.pc = "create"])

\* The name and the destination are checked, and the destination once more, before anything is planned.
CreateApplication(c) ==
    LET new == cmd[c].wanted
        refusal == ValidateDestination(disk, new.destination)
    IN  /\ Creates(c, "create")
        /\ IF ~ValidName(new.name) THEN Stop(c, RendererDiagnostic("variables"))
           ELSE IF refusal # None THEN Stop(c, RendererDiagnostic(refusal))
           ELSE Read(c, [cmd[c] EXCEPT !.pc = "render"])

PlanRendering(c, made) ==
    IF made.failure # None THEN Stop(c, RendererDiagnostic(made.failure))
    ELSE Read(c, [cmd[c] EXCEPT !.pc = "stage", !.plan = made.value])
Render(c) ==
    LET refusal == ValidateDestination(disk, cmd[c].wanted.destination)
    IN  /\ Creates(c, "render")
        /\ IF refusal # None THEN Stop(c, RendererDiagnostic(refusal)) ELSE PlanRendering(c, RenderPlan(Bundled, cmd[c].wanted))

(***************************************************************************)
(* Publication: the parent is opened once, the files are written into a    *)
(* private directory in it, and the directory is renamed to its place.     *)
(***************************************************************************)
OpenStaging(c) ==
    LET refusal == ValidateDestination(disk, cmd[c].wanted.destination)
    IN  /\ Creates(c, "stage")
        /\ \/ refusal # None /\ Stop(c, RendererDiagnostic(refusal))
           \/ refusal = None /\ Stop(c, RendererDiagnostic("safety"))     \* the directory cannot be made
           \/ /\ refusal = None
              /\ Do(c, [cmd[c] EXCEPT !.pc = "write", !.root = disk.parent])
              /\ disk' = [disk EXCEPT !.staged[c] = [files |-> << >>, mine |-> TRUE]]

\* Dropping the staging directory removes what was written, and the directory if it is still the one.
Dropped(c) == [disk EXCEPT !.staged[c] = IF @.mine THEN None ELSE @]
Abandon(c, kind) == Finish(c, RendererDiagnostic(kind)) /\ disk' = Dropped(c)

\* Nobody else reads the files before the rename, so they are written in one step.
Staged(c, paths) ==
    [disk EXCEPT !.staged[c].files = IF disk.staged[c].mine THEN Restrict(cmd[c].plan, paths) ELSE @]
WriteFiles(c) ==
    /\ Creates(c, "write")
    /\ \/ Do(c, [cmd[c] EXCEPT !.pc = "verify"]) /\ disk' = Staged(c, DOMAIN cmd[c].plan)
       \/ Abandon(c, "safety")

\* A command that is killed leaves its staging directory behind, with part of the files or all of them.
KillRendering(c) ==
    /\ cmd[c].kind = "new" /\ cmd[c].pc \in {"write", "verify", "rename"} /\ Finish(c, "killed")
    /\ IF cmd[c].pc = "write" THEN \E p \in DOMAIN cmd[c].plan : disk' = Staged(c, {p}) ELSE UNCHANGED disk

VerifyStaging(c) ==
    /\ Creates(c, "verify")
    /\ IF disk.parent # cmd[c].root THEN Abandon(c, "safety")
       ELSE IF EnsureAbsent(disk, cmd[c].root, cmd[c].wanted.destination) # None THEN Abandon(c, "conflict")
       ELSE IF ~disk.staged[c].mine THEN Abandon(c, "safety")
       ELSE Read(c, [cmd[c] EXCEPT !.pc = "rename"])

Renamed(c) ==
    [disk EXCEPT !.places[cmd[c].root][CheckedPath(cmd[c].wanted.destination)] = disk.staged[c].files, !.staged[c] = None]

\* A plausible bug: a rename that replaces what is there.
RenameStagingReplacing(c) == Creates(c, "rename") /\ Finish(c, "created") /\ disk' = Renamed(c)

\* The rename does not replace: where something has come to the place since, it fails.
RenameStaging(c) ==
    /\ Creates(c, "rename")
    /\ IF EnsureAbsent(disk, cmd[c].root, cmd[c].wanted.destination) # None THEN Abandon(c, "conflict")
       ELSE (Finish(c, "created") /\ disk' = Renamed(c)) \/ Abandon(c, "safety")

\* Someone else: takes the place, puts another directory in the place of the parent or of a staging directory.
OwnerTakesPlace ==
    /\ disk.parent # None
    /\ \E n \in Range(Destinations) :
          disk.places[disk.parent][n] = None /\ Owner([disk EXCEPT !.places[disk.parent][n] = << >>])
OwnerReplacesParent == disk.parent = 0 /\ \E x \in {None, 1} : Owner([disk EXCEPT !.parent = x])
OwnerReplacesStaging ==
    \E c \in Clis : disk.staged[c] # None /\ Owner([disk EXCEPT !.staged[c] = [files |-> << >>, mine |-> FALSE]])
=============================================================================
