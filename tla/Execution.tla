------------------------------ MODULE Execution ------------------------------
(***************************************************************************)
(* Running an operation on an application (hegira_cli: operations/command, *)
(* operations/execution and its platform modules).                         *)
(*                                                                         *)
(* A command plans, and only with consent and selected tools takes the     *)
(* advisory lock of the application's directory, plans again, prepares and *)
(* runs its steps, checking everything anew before each.  The commands     *)
(* that change an application do not take that lock, and neither does its  *)
(* owner, so anything may change between a check and what follows it.      *)
(* How a child's processes are ended, and the protocol of the validation   *)
(* caches, are in Operations.                                              *)
(*                                                                         *)
(* disk.tools is what the machine has under each name: None, or            *)
(* [id, native, place, version, wasm]: its place is outside of the         *)
(* application, where the application keeps a prepared tool, or among the  *)
(* application's own files; wasm for a compiler with that target.          *)
(***************************************************************************)
EXTENDS Hosting

CONSTANTS WasmBindgen,       \* what a Cargo.lock selects: contents -> versions
          DatabaseReplies    \* what the application's database command may print

Toolchain == <<"rust-toolchain.toml">>
Cargo == <<"Cargo.toml">>
ServerManifest == <<"apps", "server", "Cargo.toml">>
FrontendLock == <<"apps", "web", "src", "package-lock.json">>
FrontendReceipts == <<"apps", "web", "src", "node_modules", "package-lock.json">>
Tailwind == <<"apps", "web", "src", "node_modules", "tailwindcss">>
Style == <<"apps", "web", "src", "style", "tailwind.css">>
EntryPoint == <<"apps", "server", "src", "bin", "app_database.rs">>
DatabaseSource == <<"crates", "infrastructure", "src", "database_operations.rs">>

There(files, p) == files[p] # None

\* The first of several refusals, each None or how the command ends.
Else(refusal, next) == IF refusal # None THEN refusal ELSE next
RefusedIf(condition, kind) == IF condition THEN kind ELSE None

(***************************************************************************)
(* Tools.  The name under which each was found, with what it was then.     *)
(***************************************************************************)
CargoSelected(options) == {"cargo", "directories"} \subseteq options
Native(tool) == tool # None /\ tool.native
Inside(tool) == tool.place # "outside"

ToolchainFound(d, options) == CargoSelected(options) /\ Native(d.tools["cargo"])
ResolveToolchain(d) == [n \in {"cargo"} |-> d.tools["cargo"]]

\* What was found is outside the application, and still there.
ToolchainRefusal(d, tools) ==
    Else(RefusedIf(\E n \in DOMAIN tools : Inside(tools[n]), "validation"),
         RefusedIf(\E n \in DOMAIN tools : d.tools[n] # tools[n], "conflict"))

SelectionNeeded(intent) ==
    (IF intent.kind \in FrontendIntents THEN {"wasm-bindgen"} ELSE {})
    \cup (IF intent.kind = "release-build" THEN {"wasm-opt"} ELSE {})

FrontendTools(intent) == {"cargo-leptos", "rustc", "node"} \cup SelectionNeeded(intent)

\* Each tool answers with the version that the application pins or the release requires.
VersionHolds(name, tool, sources) ==
    CASE name = "rustc" -> tool.version = sources.channel /\ tool.wasm
      [] name = "wasm-bindgen" -> tool.version = sources.wasm
      [] name = "cargo-leptos" -> tool.version = "0.3.7"
      [] name = "wasm-opt" -> tool.version = "123"
      [] name = "node" -> tool.version >= 22

Probed(d, name, sources) ==
    /\ Native(d.tools[name])
    /\ name # "wasm-bindgen" => ~Inside(d.tools[name])
    /\ VersionHolds(name, d.tools[name], sources)

(***************************************************************************)
(* What the frontend is built from.  A server manifest is [name, bins,     *)
(* features, leptos, release]: whether its metadata is the template's, for *)
(* any build and for a release; a lock [version, packages]; the installed  *)
(* Tailwind [version, runnable].                                           *)
(***************************************************************************)
FrontendPaths == {Toolchain, Lockfile, ServerManifest, Cargo, Style, FrontendLock, FrontendReceipts, Tailwind}
\* A lock selects one version.
Single(versions) == \E v \in versions : versions = {v}
LockedPackages == {"tailwind-cli", "tailwind", "animate"}

SameReceipts(lock, installed) ==
    /\ lock.version = 3 /\ installed.version = 3
    /\ \A n \in LockedPackages : lock.packages[n] # None /\ lock.packages[n] = installed.packages[n]

FrontendSources(d, plan, inherited) ==
    LET files == d.files
        release == plan.intent.kind = "release-build"
    IN  IF \E p \in FrontendPaths : ~There(files, p) THEN None
        ELSE IF \/ ~Single(WasmBindgen[files[Lockfile]])
                \/ ~files[ServerManifest].leptos
                \/ release /\ (~files[ServerManifest].release \/ inherited)
                \/ plan.intent.kind = "develop" /\ ~There(files, Profile(DevelopmentProfile(plan.provider)))
                \/ ~SameReceipts(files[FrontendLock], files[FrontendReceipts])
                \/ files[Tailwind].version # files[FrontendLock].packages["tailwind-cli"] THEN None
        ELSE [files |-> Restrict(files, FrontendPaths), channel |-> files[Toolchain],
              wasm |-> CHOOSE v \in WasmBindgen[files[Lockfile]] : TRUE]

\* The database command is the application's own, registered as the templates register it.
EntryPointHolds(d, intent) ==
    /\ \A p \in {ServerManifest, EntryPoint, DatabaseSource, Profile(intent.profile)} : There(d.files, p)
    /\ d.files[ServerManifest].name = "app_server"
    /\ "database-operations" \in d.files[ServerManifest].features
    /\ d.files[ServerManifest].bins = [name |-> "app_database", path |-> EntryPoint, feature |-> "database-operations"]

PrerequisiteRefusal(d, plan) ==
    Else(RefusedIf(\E p \in {Cargo, Lockfile, Toolchain} : ~There(d.files, p), "validation"),
         RefusedIf(plan.intent.kind \in DatabaseIntents /\ ~EntryPointHolds(d, plan.intent), "validation"))

(***************************************************************************)
(* Output: [marker, server, site], the claim on the directory and what has *)
(* been built in it.  Only a directory that was made here, or claimed for  *)
(* this application before, is written to.                                 *)
(***************************************************************************)
ReleaseMarker(plan) == <<IF plan.cache = None THEN "release-build" ELSE "cache", plan.name>>
OutputOf(d, plan) == d.files[plan.artifacts]
OutputsHold(d, plan) == There(d.files, plan.artifacts) /\ OutputOf(d, plan).marker = ReleaseMarker(plan)
OutputsUsable(d, plan) == ~There(d.files, plan.artifacts) \/ OutputsHold(d, plan)
OutputsComplete(d, plan) == OutputOf(d, plan).server /\ OutputOf(d, plan).site
NewOutput(plan) == [marker |-> ReleaseMarker(plan), server |-> FALSE, site |-> FALSE]

(***************************************************************************)
(* The command.                                                            *)
(***************************************************************************)
Held == {"replan", "prepare", "outputs", "check", "run", "complete", "finish"}
HoldsLock(c, root) == cmd[c].kind = "operate" /\ cmd[c].pc \in Held /\ cmd[c].op.plan.root = root

\* A doctor takes the same lock while it looks, and a report of artifacts a shared one.
Inspects(c, root) == cmd[c].kind \in {"doctor", "artifacts"} /\ cmd[c].pc \in {"probe", "measure"} /\ cmd[c].op.plan.root = root
Stopped(c) == cmd[c].op.signal # None

Operates(c, pc) == cmd[c].kind = "operate" /\ cmd[c].pc = pc
Goto(c, pc) == Read(c, [cmd[c] EXCEPT !.pc = pc])
OperationReport(outcome, completed, op) ==
    [outcome |-> outcome, completed |-> completed, database |-> op.database,
     artifacts |-> IF outcome = "succeeded" THEN op.plan.artifacts ELSE None]

\* An operation that failed ends with its error, one that did not succeed with an internal error.
Errors == {"validation", "conflict", "internal-error"}
ASSUME AnErrorIsNoSuccess == None \notin Errors
ExitOf(outcome) == IF outcome = "succeeded" THEN "success" ELSE IF outcome \in Errors THEN outcome ELSE "internal-error"
StopUnless(c, refusal, step) == IF refusal # None THEN Stop(c, refusal) ELSE step

\* The plan's context is read, then the anchor; a preview ends with the plan.
ObserveForOperation(c) ==
    LET proceed(x) == StopUnless(c, PlanRefusal(x, cmd[c].wanted.intent), Read(c, [cmd[c] EXCEPT !.pc = "anchor", !.context = x]))
    IN  Operates(c, "observe") /\ proceed(Context(disk, cmd[c].explicit))

OperationAt(plan) ==
    [plan |-> plan, signal |-> None, toolchain |-> None, tools |-> << >>, sources |-> None, step |-> 0, outcome |-> None, database |-> None]

AnchorOperation(c) ==
    LET r == cmd[c]
        proceed(plan) ==
            IF plan = None THEN Stop(c, "conflict")
            ELSE IF plan = Error THEN Stop(c, "validation")
            ELSE IF r.mode = "dry-run" THEN Stop(c, "planned")
            ELSE Read(c, [r EXCEPT !.pc = "consent", !.op = OperationAt(plan)])
    IN  Operates(c, "anchor") /\ proceed(Cached(Anchor(disk, r.context.manifest, r.wanted.intent), r.wanted.cache))

\* Without consent, approval and selected tools nothing is run; signals are caught from here on.
Consent(c) ==
    LET r == cmd[c]
    IN  /\ Operates(c, "consent")
        /\ IF \/ ~({"execute", "trust"} \subseteq r.wanted.options)
              \/ ~Approved(r.op.plan, r.wanted.approval)
              \/ ~ToolchainFound(disk, r.wanted.options)
              \/ ~(SelectionNeeded(r.wanted.intent) \subseteq r.wanted.options) THEN Stop(c, "validation")
           ELSE Read(c, [r EXCEPT !.pc = "lock", !.op.toolchain = ResolveToolchain(disk)])

Interrupt(c) ==
    /\ cmd[c].kind = "operate" /\ cmd[c].pc \in {"lock"} \cup Held /\ ~Stopped(c) /\ Events < MaxEvents
    /\ \E s \in {"cancelled", "terminated"} : cmd' = [cmd EXCEPT ![c].op.signal = s]
    /\ edits' = edits + 1 /\ UNCHANGED <<pkg, disk>>

\* The application is the one that the anchor was taken of, and no publication is pending.
AnchorRefusal(d, plan) ==
    Else(RefusedIf(d.root # plan.root, "conflict"),
         Else(RefusedIf(d.files[Manifest] = None, "validation"), RefusedIf(d.files[Manifest] # plan.raw, "conflict")))
RecoveryRefusal(d) == RefusedIf(d.marker, "conflict")

\* A plausible bug: the application is opened and checked but not locked.
LockApplicationOpen(c) ==
    Operates(c, "lock") /\ IF Stopped(c) THEN Stop(c, ExitOf(cmd[c].op.signal)) ELSE StopUnless(c, AnchorRefusal(disk, cmd[c].op.plan), Goto(c, "replan"))

\* The lock is not waited for.
LockApplication(c) ==
    LET plan == cmd[c].op.plan
        held == \E o \in Clis \ {c} : HoldsLock(o, plan.root) \/ Inspects(o, plan.root)
    IN  /\ Operates(c, "lock")
        /\ IF Stopped(c) THEN Stop(c, ExitOf(cmd[c].op.signal))
           ELSE StopUnless(c, Else(AnchorRefusal(disk, plan), RefusedIf(held, "conflict")), Goto(c, "replan"))

\* Everything is authenticated again under the lock.
Reauthenticate(c) ==
    LET op == cmd[c].op
        plan == op.plan
    IN  /\ Operates(c, "replan")
        /\ StopUnless(c,
              Else(RecoveryRefusal(disk),
              Else(RefusedIf(PlanAgain(disk, plan) # plan, "conflict"),
              Else(PrerequisiteRefusal(disk, plan), ToolchainRefusal(disk, op.toolchain)))),
              Goto(c, IF plan.intent.kind \in FrontendIntents THEN "prepare" ELSE "outputs"))

\* A plausible bug: only the tools are compared again.
SessionRefusalTools(d, op) ==
    Else(AnchorRefusal(d, op.plan), Else(ToolchainRefusal(d, op.toolchain), RefusedIf(\E n \in DOMAIN op.tools : d.tools[n] # op.tools[n], "conflict")))

\* The session still sees what it was prepared with.
SessionRefusal(d, op) ==
    Else(AnchorRefusal(d, op.plan),
    Else(ToolchainRefusal(d, op.toolchain),
    IF op.sources = None THEN None
    ELSE Else(RefusedIf(\E p \in FrontendPaths : ~There(d.files, p), "validation"),
         Else(RefusedIf(Restrict(d.files, FrontendPaths) # op.sources.files, "conflict"),
         Else(RefusedIf(\E n \in DOMAIN op.tools : ~Native(d.tools[n]), "validation"),
              RefusedIf(\E n \in DOMAIN op.tools : d.tools[n] # op.tools[n], "conflict"))))))

\* Leptos: the sources are pinned, the tools asked for their versions and Tailwind for its help.
Ready(d, intent, sources) ==
    /\ sources # None
    /\ \A n \in FrontendTools(intent) : Probed(d, n, sources)
    /\ d.files[Tailwind].runnable

PrepareSession(c) ==
    LET intent == cmd[c].op.plan.intent
        proceed(sources) ==
            IF Stopped(c) THEN Stop(c, ExitOf(cmd[c].op.signal))
            ELSE IF ~Ready(disk, intent, sources) THEN Stop(c, "validation")
            ELSE Read(c, [cmd[c] EXCEPT !.pc = "outputs", !.op.sources = sources,
                                        !.op.tools = [n \in FrontendTools(intent) |-> disk.tools[n]]])
    IN  Operates(c, "prepare") /\ proceed(FrontendSources(disk, cmd[c].op.plan, "inherited" \in cmd[c].wanted.options))

Finishing(c, outcome) == Read(c, [cmd[c] EXCEPT !.pc = "finish", !.op.outcome = outcome])

OutputsUnusable(d, plan) == Else(RefusedIf(~OutputsUsable(d, plan), "conflict"), AnchorRefusal(d, plan))

\* A validation cache is as Operations leaves it: the operation's own, or refused.
PrepareOutputs(c) ==
    LET plan == cmd[c].op.plan
    IN  /\ Operates(c, "outputs")
        /\ \/ plan.cache # None /\ Stop(c, "conflict")
           \/ plan.artifacts = None /\ Goto(c, "check")
           \/ /\ plan.artifacts # None
              /\ IF OutputsUnusable(disk, plan) # None THEN Finishing(c, OutputsUnusable(disk, plan))
                 ELSE /\ Do(c, [cmd[c] EXCEPT !.pc = "check"])
                      /\ disk' = IF There(disk.files, plan.artifacts) THEN disk
                                 ELSE [disk EXCEPT !.files[plan.artifacts] = NewOutput(plan)]

FinishUnless(c, refusal, step) == IF refusal # None THEN Finishing(c, refusal) ELSE step
\* A plausible bug: recovery is looked for when the application is locked, and not again.
StepRefusalOnce(d, op) == Else(AnchorRefusal(d, op.plan), Else(PrerequisiteRefusal(d, op.plan), SessionRefusal(d, op)))
StepRefusal(d, op) ==
    Else(AnchorRefusal(d, op.plan), Else(RecoveryRefusal(d), Else(PrerequisiteRefusal(d, op.plan),
    Else(SessionRefusal(d, op), RefusedIf(op.plan.artifacts # None /\ ~OutputsHold(d, op.plan), "conflict")))))

\* Before each step; after the last one a release build is verified, other operations are done.
CheckStep(c) ==
    LET op == cmd[c].op
        plan == op.plan
    IN  /\ Operates(c, "check")
        /\ IF op.step = Len(plan.steps)
           THEN IF plan.artifacts = None THEN Finishing(c, IF Stopped(c) THEN op.signal ELSE "succeeded") ELSE Goto(c, "complete")
           ELSE IF Stopped(c) THEN Finishing(c, op.signal)
           ELSE FinishUnless(c, StepRefusal(disk, op), Goto(c, "run"))

\* The child has run, or was stopped.  A builder writes its output, and may write elsewhere.
BuildOutput(o, server, site) == [o EXCEPT !.server = server, !.site = site]
StepEnded(c, outcome) ==
    IF Stopped(c) THEN Do(c, [cmd[c] EXCEPT !.pc = "finish", !.op.outcome = cmd[c].op.signal])
    ELSE IF outcome # "succeeded" THEN Do(c, [cmd[c] EXCEPT !.pc = "finish", !.op.outcome = outcome])
    ELSE Do(c, [cmd[c] EXCEPT !.pc = "check", !.op.step = @ + 1])

Builds(d, plan) ==
    {[d EXCEPT !.files[plan.artifacts] = BuildOutput(@, b[1], b[2])] : b \in BOOLEAN \X BOOLEAN}
    \cup {[d EXCEPT !.files[plan.artifacts] = BuildOutput(@, TRUE, TRUE), !.files[Lockfile] = x] : x \in DOMAIN WasmBindgen}

RunTool(c) ==
    LET plan == cmd[c].op.plan
    IN  /\ Operates(c, "run") /\ plan.intent.kind \notin DatabaseIntents
        /\ \E outcome \in {"succeeded", "child-failed"} : StepEnded(c, outcome)
        /\ disk' \in IF plan.artifacts # None /\ disk.root = plan.root /\ There(disk.files, plan.artifacts)
                     THEN Builds(disk, plan) ELSE {disk}

\* The database command is built and started in the directory that was opened.
RunDatabase(c) ==
    LET plan == cmd[c].op.plan
        started == Process(plan.intent.kind, plan.root, plan.intent.profile, Sources(TreeOf(plan.root)), {"db-" \o plan.provider})
    IN  /\ Operates(c, "run") /\ plan.intent.kind \in DatabaseIntents /\ At(c, "off")
        /\ IF Stopped(c) THEN Finishing(c, cmd[c].op.signal)
           ELSE Finishing(c, "child-failed") \/ Go(c, started)

\* It is stopped wherever it is, or its reply is parsed, and is a result only where it fits the plan;
\* an application may have a command of its own that replies otherwise.
EndDatabase(c) ==
    LET plan == cmd[c].op.plan
        ends(outcome, reply) ==
            /\ Do(c, [cmd[c] EXCEPT !.pc = "finish", !.op.outcome = outcome, !.op.database = reply, !.op.step = IF outcome = "succeeded" THEN @ + 1 ELSE @])
            /\ disk' = [disk EXCEPT !.hosts[c] = Off]
    IN  /\ Operates(c, "run") /\ ~At(c, "off")
        /\ \/ Stopped(c) /\ ends(cmd[c].op.signal, None)
           \/ ~Stopped(c) /\ At(c, "done") /\ disk.hosts[c].report = None /\ ends("child-failed", None)
           \/ /\ ~Stopped(c) /\ At(c, "done") /\ disk.hosts[c].report # None
              /\ \E reply \in {disk.hosts[c].report} \cup DatabaseReplies :
                    IF ValidReply(plan, reply) THEN ends("succeeded", reply) ELSE ends("internal-error", None)

\* A builder may not have changed what was reviewed, and must have built everything.
OutputsRefusal(d, op) ==
    Else(SessionRefusal(d, op),
    Else(RefusedIf(~OutputsHold(d, op.plan), "conflict"), RefusedIf(~OutputsComplete(d, op.plan), "validation")))

CompleteOutputs(c) ==
    /\ Operates(c, "complete")
    /\ FinishUnless(c, OutputsRefusal(disk, cmd[c].op), Finishing(c, IF Stopped(c) THEN cmd[c].op.signal ELSE "succeeded"))

\* The cache is finished; a signal that came late still takes a success away.
EndOperation(c) ==
    LET op == cmd[c].op
        late == Stopped(c) /\ op.outcome \notin Errors
        outcome == IF late THEN op.signal ELSE op.outcome
    IN  /\ Operates(c, "finish")
        /\ \/ op.plan.cache # None /\ Stop(c, "conflict")
           \/ Read(c, [Idle EXCEPT !.kind = "operate", !.pc = "done", !.status = ExitOf(outcome),
                                   !.report = IF outcome \in Errors THEN None
                                              ELSE OperationReport(outcome, op.step, IF late THEN [op EXCEPT !.database = None] ELSE op)])
=============================================================================
