----------------------------- MODULE CommandLine -----------------------------
(***************************************************************************)
(* The commands together: upgrades, installations, operations and          *)
(* inspections run at the same time as each other and as the owner's own   *)
(* edits.                                                                  *)
(***************************************************************************)
EXTENDS Inspection, ResourceGeneration, Rendering

CONSTANTS Tools,        \* name -> what the machine has under it
          OtherTools    \* where a package is bundled: name -> what the owner may put in its place

Init ==
    /\ \E s \in Setups : \E db \in Stores[s[1]] :
          /\ pkg = s[1]
          /\ disk = [files |-> Applications[s[2]], tools |-> Tools, other |-> None, marker |-> FALSE, root |-> 0, outer |-> FALSE, owned |-> TRUE,
                     parent |-> 0, places |-> [d \in {0, 1} |-> [n \in Range(Destinations) |-> None]], staged |-> [c \in Clis |-> None],
                     db |-> db, hosts |-> [h \in Hosts |-> Off]]
    /\ cmd = [c \in Clis |-> Idle]
    /\ edits = 0

UpgradeStep(c) ==
    \/ Observe(c) \/ CheckRecovery(c) \/ OpenSource(c) \/ ReadManaged(c) \/ Seal(c)
    \/ Reobserve(c) \/ Recheck(c)
AddStep(c) == ObserveForAdd(c) \/ PlanAdd(c)
OperateStep(c) ==
    \/ ObserveForOperation(c) \/ AnchorOperation(c) \/ Consent(c) \/ Interrupt(c) \/ LockApplication(c) \/ Reauthenticate(c)
    \/ PrepareSession(c) \/ PrepareOutputs(c) \/ CheckStep(c) \/ RunTool(c) \/ RunDatabase(c) \/ EndDatabase(c) \/ CompleteOutputs(c) \/ EndOperation(c)
InspectStep(c) ==
    \/ Inspect(c) \/ ObserveForDoctor(c) \/ PlanDiagnosis(c) \/ LockDiagnosis(c) \/ Diagnose(c)
    \/ PlanMeasurement(c) \/ Measure(c)

\* A tool is installed, replaced or removed.
OwnerReplacesTool == \E n \in DOMAIN OtherTools[pkg] : \E t \in OtherTools[pkg][n] : Owner([disk EXCEPT !.tools[n] = t])
\* Only where a command creates an application does it matter what else happens there.
OwnerMovesDestination == (\E c \in Clis : cmd[c].kind = "new") /\ (OwnerTakesPlace \/ OwnerReplacesParent \/ OwnerReplacesStaging)
OwnerStep == OwnerMovesDestination \/ OwnerEdits \/ OwnerReplacesRoot \/ OwnerMovesRoots \/ OwnerRecovers \/ OwnerReplacesTool

NewStep(c) ==
    \/ ResolveNewCommand(c) \/ Cancel(c) \/ ResolveName(c) \/ ResolveDestination(c) \/ ResolveChoices(c) \/ Confirm(c)
    \/ CreateApplication(c) \/ Render(c) \/ OpenStaging(c) \/ WriteFiles(c) \/ KillRendering(c) \/ VerifyStaging(c) \/ RenameStaging(c)
GenerateStep(c) == ObserveForGeneration(c) \/ ReadSources(c) \/ PlanGeneration(c)

Next ==
    \/ \E c \in Clis : Start(c) \/ NewStep(c) \/ UpgradeStep(c) \/ AddStep(c) \/ GenerateStep(c) \/ OperateStep(c) \/ InspectStep(c) \/ Publish(c)
    \/ OwnerStep \/ HostStep

Spec == Init /\ [][Next]_vars

(***************************************************************************)
(* Properties                                                              *)
(***************************************************************************)
Applied(c) == cmd[c].pc = "publish" /\ cmd'[c].status = "applied"
Changed(p) == disk.files[p] # disk'.files[p]

\* The package accepts what a manifest records.
Sound(m) ==
    LET n == FromToml(m)
    IN  /\ n # None /\ Assess(m, Policy) = "compatible"
        /\ Resolve(Bundled, [framework |-> n.framework, package |-> n.composition.package,
                             components |-> Sorted(IdsOf(n.composition.components)), modules |-> n.composition.modules,
                             capabilities |-> n.composition.capabilities]) # None

\* An upgrade replaces only files that the release manages and that are still as the release before
\* left them, and never a migration that has shipped; and it arrives: the application is one of this
\* release, whose manifest is compatible, whose composition the package resolves, and with no
\* framework dependency at the old release (upgrade_authentication.rs, upgrade_planning.rs, publisher).
UpgradeArrives ==
    [][\A c \in Clis : Applied(c) /\ cmd[c].kind = "upgrade" =>
          LET doc == disk'.files[<<"Cargo.toml">>][WorkspaceDependencies]
          IN  /\ \A p \in DOMAIN disk.files : Changed(p) =>
                   \E t \in Range(cmd[c].edge.managed) :
                      /\ t.path = p /\ (t.kind = "retire" \/ Declares(cmd[c].edge.composition.owns, p, t.integration))
                      /\ disk.files[p] = (IF t.kind = "create" THEN None ELSE t.source)
                      /\ disk.files[p] # None => ~IsStrictPrefix(MigrationRoot, p)
              /\ Sound(disk'.files[Manifest])
              /\ \A n \in DOMAIN doc : doc[n] # None /\ "tag" \in DOMAIN doc[n] => doc[n]["tag"] = BundledRelease]_vars

\* A new application comes to its destination whole or not at all, and takes nothing that is there: it
\* is one of this release, named and composed as it was asked for; a command that fails leaves no
\* staging directory.  Whoever exchanges the staging directory between the last comparison and the
\* rename has their own directory renamed (destination.rs, render.rs).
NewIsWhole ==
    [][\A c \in Clis : cmd[c].kind = "new" /\ cmd'[c] # cmd[c] =>
          LET new == cmd[c].wanted
              fresh == {x \in {0, 1} \X Range(Destinations) : disk'.places[x[1]][x[2]] # disk.places[x[1]][x[2]]}
          IN  /\ cmd'[c].status = "created" <=> fresh # {}
              /\ \A x \in fresh :
                    LET tree == disk'.places[x[1]][x[2]]
                    IN  /\ disk.places[x[1]][x[2]] = None /\ x = <<cmd[c].root, Destinations[new.destination]>>
                        /\ disk.staged[c].mine =>
                              /\ Sound(tree[Manifest]) /\ tree[Manifest].name = new.name /\ tree[Manifest].databases = {new.database}
                              /\ new.component \in InstalledIds(tree[Manifest])
                              /\ \A k \in InstalledIds(tree[Manifest]) : DOMAIN ComponentFiles(Bundled.src, Bundled.components[k]) \subseteq DOMAIN tree
              /\ cmd'[c].pc = "done" /\ cmd'[c].status # "killed" => disk'.staged[c] = None \/ ~disk'.staged[c].mine]_vars

\* A component is installed once, and what its installation leaves is an application of this release
\* with every registration in its place (identity_installation.rs, installation.rs).  The sources
\* are read after the manifest was assessed and are not compared with it, so this is said of a
\* manifest that is still the one that was assessed.
InstallationIsWhole ==
    [][\A c \in Clis : Applied(c) /\ cmd[c].kind = "add" /\ FromToml(disk.files[Manifest]) = cmd[c].context.manifest =>
          /\ Sound(disk'.files[Manifest])
          /\ Identity \notin InstalledIds(disk.files[Manifest]) /\ Identity \in InstalledIds(disk'.files[Manifest])
          /\ \A i \in DOMAIN RustModules : Registered(RustModules[i].key) \in Range(disk'.files[RustModules[i].path])
          /\ \A p \in DOMAIN disk.files : Changed(p) /\ disk.files[p] # None => p \notin DOMAIN Artifacts]_vars

\* A generated resource is whole, and takes nothing of another: its module is in the six layers where
\* there was none, it is registered in each, and its route and with it its table were free, whatever
\* plural was asked for and whatever ran at the same time.  Its migration, and one that is added by
\* itself, has a version above those of the generated migrations that are there and not below the one
\* that the generator's file reserves, although the newest migration may be gone and generators run at
\* the same time (resource_generator: lib.rs, migration.rs, web.rs; hegira_cli: lib.rs).
GeneratedIsWhole ==
    [][\A c \in Clis : Applied(c) /\ cmd[c].kind \in {"resource", "migration"} =>
          LET names == NamesOf(cmd[c].wanted)
              at(z) == Directory("sqlite") \o <<MigrationFile[z]>>
          IN  /\ \A x, y \in DOMAIN MigrationFile : at(x) \in DOMAIN cmd[c].plan =>
                    /\ disk.files[GeneratorState] # None => x[1] >= disk.files[GeneratorState].next
                    /\ disk.files[at(y)] = Generated => y[1] < x[1]
              /\ cmd[c].kind = "resource" =>
                    /\ \A i \in DOMAIN Layers :
                          /\ disk.files[LayerArtifact(Layers[i], names)] = None /\ disk'.files[LayerArtifact(Layers[i], names)] # None
                          /\ Registered(names.key) \in Range(disk'.files[RootModule(Layers[i])])
                    /\ RouteLine(names) \notin Range(disk.files[WebRoutes])
                    /\ RouteLine(names) \in Range(disk'.files[WebRoutes])]_vars

\* What migrates is one history: a row, once there, stays as it is; a migration is applied only over all
\* that come before it in the plan of the process that applies it, as that plan has them; a command
\* that reports its migrations applied has them in the database and nothing else; a server that
\* migrates serves only over the whole of its plan; and a database command makes no database.  It
\* holds although SQLite has no lock, processes of two releases migrate at once, and any may be
\* stopped between two migrations (database_operations.rs, operations.rs, persistence: migrations).
Recorded(plan, rows, v) == v \in DOMAIN rows /\ rows[v].success /\ rows[v].checksum = plan[v].checksum
MigrationsHold ==
    [][\A h \in Hosts : ~At(h, "off") /\ disk'.hosts[h] # disk.hosts[h] =>
          LET host == disk.hosts[h]
              old == disk.db.rows
              new == disk'.db.rows
          IN  /\ \A v \in DOMAIN old : v \in DOMAIN new /\ new[v] = old[v]
              /\ \A v \in DOMAIN new \ DOMAIN old :
                    host.kind # "database-status" /\ Recorded(host.plan, new, v) /\ \A u \in DOMAIN host.plan : u < v => Recorded(host.plan, old, u)
              /\ disk'.db.exists # disk.db.exists => host.kind = "server"
              /\ host.kind = "database-migrate" /\ disk'.hosts[h].report # None => DOMAIN old = DOMAIN host.plan /\ \A v \in DOMAIN old : Recorded(host.plan, old, v)
              /\ disk'.hosts[h].pc = "serving" /\ host.config["auto_migrate"] => \A v \in DOMAIN host.plan : Recorded(host.plan, old, v)]_vars

\* Two operations never run their children in one directory, and no child runs while a doctor probes
\* there: the lock is the directory's, whatever the path names (execution.rs, readiness.rs).
Running(c) == Operates(c, "run")
OperationsExclude ==
    \A c, o \in Clis :
       Running(c) /\ c # o => /\ ~(Running(o) /\ cmd[o].op.plan.root = cmd[c].op.plan.root)
                              /\ ~(cmd[o].kind = "doctor" /\ Inspects(o, cmd[c].op.plan.root))

\* A child is started only in the directory and for the manifest that were planned, with the approval
\* that its intent asks for, and never behind a publication that another command left half done:
\* publishing does not take the operation's lock (execution.rs).
StepsRunAsPlanned ==
    [][\A c \in Clis : Operates(c, "check") /\ cmd'[c].pc = "run" =>
          LET plan == cmd[c].op.plan
          IN  /\ ~disk.marker /\ disk.root = plan.root
              /\ FromToml(disk.files[Manifest]).composition = plan.composition /\ plan.provider \in FromToml(disk.files[Manifest]).databases
              /\ plan.intent = [kind |-> "database-migrate", profile |-> "production"] => cmd[c].wanted.approval = "production"]_vars

\* A release build that succeeds was made by the tools that the application's sources ask for, at the
\* end as well as at the beginning, although the builder may rewrite a lock and tools may be replaced
\* while it runs (platform/leptos.rs, platform/artifacts.rs).
BuiltAsLocked ==
    [][\A c \in Clis : Operates(c, "complete") /\ cmd'[c].pc = "finish" /\ cmd'[c].op.outcome = "succeeded" =>
          /\ WasmBindgen[disk.files[Lockfile]] = {disk.tools["wasm-bindgen"].version}
          /\ disk.tools["rustc"].version = disk.files[Toolchain]
          /\ OutputsHold(disk, cmd[c].op.plan) /\ OutputsComplete(disk, cmd[c].op.plan)]_vars

\* What a doctor finds nothing wrong with, the operation accepts: on the same disk none of its checks
\* before the first child refuses, but that Tailwind runs, which a doctor does not try (readiness.rs,
\* execution.rs, platform/leptos.rs, platform/artifacts.rs).
ExpectedWarnings == {"postgres", "database-provider", "frontend-execution", "production-approval"}
ReadyMeansRunnable ==
    [][\A c \in Clis :
          cmd[c].kind = "doctor" /\ cmd[c].pc = "probe" /\ cmd'[c].pc = "done" /\ cmd'[c].report.failures = {} /\ cmd'[c].report.warnings \subseteq ExpectedWarnings =>
             LET plan == cmd[c].op.plan
                 sources == FrontendSources(disk, plan, "inherited" \in cmd[c].wanted.options)
             IN  /\ AnchorRefusal(disk, plan) = None /\ RecoveryRefusal(disk) = None /\ PrerequisiteRefusal(disk, plan) = None
                 /\ ToolchainFound(disk, cmd[c].wanted.options) /\ ToolchainRefusal(disk, ResolveToolchain(disk)) = None
                 /\ plan.intent.kind \in FrontendIntents =>
                       sources # None /\ \A n \in FrontendTools(plan.intent) : Probed(disk, n, sources)
                 /\ plan.artifacts # None => OutputsUsable(disk, plan)]_vars
=============================================================================
