------------------------------ MODULE Inspection ------------------------------
(***************************************************************************)
(* The commands that only look at an application: inspect, doctor and the  *)
(* report of its artifacts (hegira_cli: lib.rs, doctor.rs, artifacts.rs,   *)
(* operations/execution: artifact_usage, platform/readiness).              *)
(*                                                                         *)
(* A doctor runs no application code and grants nothing: its report is     *)
(* [failures, warnings], the codes of the checks that did not pass.  The   *)
(* two that need the application to be still try its lock once.            *)
(***************************************************************************)
EXTENDS Execution

CONSTANT References(_, _)   \* what the source of a path refers to, of what an Identity application needs

Server == <<"apps", "server", "src", "server.rs">>
DatabaseOperations == <<"crates", "infrastructure", "src", "operations.rs">>
PublicAssets == <<"apps", "web", "src", "public">>

Report(failures, warnings) == [failures |-> failures, warnings |-> warnings]
Fail(report, codes) == [report EXCEPT !.failures = @ \cup codes]
Warn(report, codes) == [report EXCEPT !.warnings = @ \cup codes]
Reports(c, report) == Read(c, [Idle EXCEPT !.kind = cmd[c].kind, !.pc = "done", !.report = report,
                                           !.status = IF report.failures = {} THEN "success" ELSE "validation"])

(***************************************************************************)
(* hegira inspect                                                          *)
(***************************************************************************)
Inspected(x) ==
    IF x \in {None, Conflicting} THEN MutationRefusal(x)
    ELSE IF InspectComposition(x.manifest) = "error" THEN "internal-error" ELSE "success"

Inspect(c) == cmd[c].kind = "inspect" /\ cmd[c].pc = "observe" /\ Stop(c, Inspected(Context(disk, cmd[c].explicit)))

(***************************************************************************)
(* hegira doctor: the application.                                         *)
(***************************************************************************)
IntegrationsHold(d, m) ==
    LET routes == "IdentityRoutes" \in References(RoutesPath, d.files[RoutesPath])
        server == References(Server, d.files[Server])
        transport == server \cap {"bearer_api_routes", "bearer_routes"} # {}
        migrations == References(DatabaseOperations, d.files[DatabaseOperations])
    IN  /\ \A p \in {Server, RoutesPath, DatabaseOperations} : There(d.files, p)
        /\ IF m.composition # None /\ Identity \in Ids(m.composition.modules)
           THEN routes /\ Provider(m) \in migrations /\ transport /\ "csrf" \in server
           ELSE ~routes /\ migrations = {} /\ ~transport

ApplicationFailures(d, x, m) ==
    {f \in {"manifest", "composition", "recovery-marker", "managed-integrations", "database-provider"} :
        CASE f = "manifest" -> x.compatibility # "compatible" \/ m = None
          [] f = "composition" -> InspectComposition(m) # "compatible"
          [] f = "recovery-marker" -> d.marker
          [] f = "managed-integrations" -> m = None \/ ~IntegrationsHold(d, m)
          [] f = "database-provider" -> m = None}

ApplicationWarnings(x) == IF x.manifest # None /\ Provider(x.manifest) = "postgres" THEN {"database-provider"} ELSE {}

\* Without an operation it is enough that the tools are on the path.
AmbientTools == {"rustc", "cargo", "cargo-leptos", "node", "npm"}
AmbientWarnings(d) ==
    {n \in AmbientTools : d.tools[n] = None}
    \cup (IF d.tools["rustup"] = None \/ d.tools["rustc"] = None \/ ~d.tools["rustc"].wasm THEN {"wasm-target"} ELSE {})

ApplicationReport(d, x) ==
    IF x \in {None, Conflicting} THEN Report({"application-context"}, {})
    ELSE Report(ApplicationFailures(d, x, x.manifest), ApplicationWarnings(x))

ObserveForDoctor(c) ==
    LET r == cmd[c]
        proceed(report) ==
            IF r.wanted.intent = None
            THEN IF "application-context" \in report.failures THEN Stop(c, "validation") ELSE Reports(c, Warn(report, AmbientWarnings(disk)))
            ELSE IF "application-context" \in report.failures THEN Reports(c, report)
            ELSE IF report.failures # {} THEN Reports(c, Fail(report, {"operation-plan"}))
            ELSE Read(c, [r EXCEPT !.pc = "plan", !.report = report])
    IN  r.kind = "doctor" /\ r.pc = "observe" /\ proceed(ApplicationReport(disk, Context(disk, r.explicit)))

\* The operation is planned from the beginning, as it would be to run it.
PlanDiagnosis(c) ==
    LET r == cmd[c]
        proceed(plan) ==
            IF plan = None THEN Reports(c, Fail(r.report, {"operation-plan"}))
            ELSE Read(c, [r EXCEPT !.pc = "lock", !.op = OperationAt(plan)])
    IN  r.kind = "doctor" /\ r.pc = "plan" /\ proceed(Planned(disk, Context(disk, r.explicit), r.wanted.intent))

(***************************************************************************)
(* hegira doctor: one operation.                                           *)
(***************************************************************************)
LockDiagnosis(c) ==
    LET r == cmd[c]
        plan == r.op.plan
        blocked(code) == Reports(c, Fail(r.report, {code}))
    IN  /\ r.kind = "doctor" /\ r.pc = "lock"
        /\ IF \E o \in Clis \ {c} : HoldsLock(o, plan.root) \/ Inspects(o, plan.root) THEN blocked("operation-active")
           ELSE IF AnchorRefusal(disk, plan) # None \/ RecoveryRefusal(disk) # None THEN blocked("operation-state")
           ELSE Read(c, [r EXCEPT !.pc = "probe"])

ProbesTools(options) == {"probe", "cargo", "directories"} \subseteq options

\* A Cargo that is not there is worth a warning, one that is not to be trusted ends the diagnosis.
CargoMissing(d, options) == ProbesTools(options) /\ d.tools["cargo"] = None
CargoRefused(d, options) == ProbesTools(options) /\ ~CargoMissing(d, options) /\ (~Native(d.tools["cargo"]) \/ Inside(d.tools["cargo"]))

LockedVersion(d) ==
    IF There(d.files, Lockfile) /\ Single(WasmBindgen[d.files[Lockfile]])
    THEN CHOOSE v \in WasmBindgen[d.files[Lockfile]] : TRUE ELSE None

\* What is asked of each tool; only the prepared wasm-bindgen may be the application's.
ToolAnswers(d, name, tool) ==
    CASE name \in {"cargo", "rustc"} -> tool.version = d.files[Toolchain]
      [] name = "wasm-target" -> tool.wasm
      [] name = "wasm-bindgen" -> LockedVersion(d) # None /\ tool.version = LockedVersion(d)
      [] OTHER -> VersionHolds(name, tool, None)

\* A plausible bug: a tool is asked for its version wherever it was found.
ProbeToolAnywhere(d, options, name) ==
    LET tool == d.tools[IF name = "wasm-target" THEN "rustc" ELSE name]
    IN  ProbesTools(options) /\ Native(tool) /\ There(d.files, Toolchain) /\ ToolAnswers(d, name, tool)
ProbeTool(d, options, name) ==
    LET tool == d.tools[IF name = "wasm-target" THEN "rustc" ELSE name]
    IN  /\ ProbesTools(options) /\ ~CargoMissing(d, options) /\ There(d.files, Toolchain)
        /\ name \in {"wasm-bindgen", "wasm-opt"} => name \in options
        /\ Native(tool) /\ tool.place \in {"outside"} \cup (IF name = "wasm-bindgen" THEN {"prepared"} ELSE {})
        /\ ToolAnswers(d, name, tool)

PrerequisiteHolds(d, plan, options, p) ==
    CASE p = "toolchain" -> There(d.files, Toolchain) /\ ProbeTool(d, options, "rustc")
      [] p \in {"cargo", "wasm-target", "wasm-opt"} -> ProbeTool(d, options, p)
      [] p = "cargo-leptos" -> ProbeTool(d, options, "node") /\ ProbeTool(d, options, "cargo-leptos")
      [] p = "wasm-bindgen" -> LockedVersion(d) # None /\ ProbeTool(d, options, "wasm-bindgen")
      [] p = "lockfile" -> There(d.files, Lockfile)
      [] p = "frontend" -> There(d.files, FrontendLock) /\ d.files[FrontendLock].version = 3
      [] p = "tailwind" -> FrontendSources(d, plan, "inherited" \in options) # None
      [] p = "profile" -> There(d.files, Profile(IF plan.intent.kind = "develop" THEN DevelopmentProfile(plan.provider) ELSE plan.intent.profile))
      [] p = "entry-point" -> EntryPointHolds(d, plan.intent)
      [] p = "postgres" -> FALSE

If(condition, code) == IF condition THEN {code} ELSE {}

Diagnosis(d, plan, options, broken) ==
    IF CargoRefused(d, options) THEN Report({"tool-selection"}, {})
    ELSE Report(
             If("entry-point" \in plan.prerequisites /\ ~PrerequisiteHolds(d, plan, options, "entry-point"), "entry-point")
             \cup If(plan.intent.kind = "release-build" /\ ~OutputsUsable(d, plan), "release-output")
             \cup If(AnchorRefusal(d, plan) # None \/ RecoveryRefusal(d) # None, "operation-state")
             \cup If(broken, "probe-interrupted"),
             If(CargoMissing(d, options), "tool-selection") \cup If(~There(d.files, Cargo), "workspace-manifest")
             \cup {p \in plan.prerequisites \ {"entry-point"} : broken \/ ~PrerequisiteHolds(d, plan, options, p)}
             \cup If(plan.intent.kind \in FrontendIntents /\ ~There(d.files, PublicAssets), "public-assets")
             \cup If(plan.intent.kind \in FrontendIntents, "frontend-execution")
             \cup If(plan.approval, "production-approval"))

\* One probe that fails ends all others.
Diagnose(c) ==
    LET r == cmd[c]
    IN  /\ r.kind = "doctor" /\ r.pc = "probe"
        /\ \E broken \in {FALSE, ProbesTools(r.wanted.options)} :
              LET found(report) == Reports(c, Warn(Fail(r.report, report.failures), report.warnings))
              IN  found(Diagnosis(disk, r.op.plan, r.wanted.options, broken))

(***************************************************************************)
(* hegira artifacts status.  The claim on the release output is read when  *)
(* the walk gets there and once more when it leaves.                       *)
(***************************************************************************)
CheckIntent == [kind |-> "check", profile |-> None]
BuildPlan(plan) == [plan EXCEPT !.artifacts = ReleaseRoot]

PlanMeasurement(c) ==
    LET r == cmd[c]
        activity == IF \E o \in Clis \ {c} : HoldsLock(o, disk.root) \/ (cmd[o].kind = "doctor" /\ Inspects(o, disk.root)) THEN "active" ELSE "idle"
        claim(plan) == IF ~There(disk.files, ReleaseRoot) THEN "missing" ELSE IF OutputsHold(disk, plan) THEN "claimed" ELSE "unclaimed"
        measure(plan) == Read(c, [r EXCEPT !.pc = IF activity = "idle" THEN "measure" ELSE "measure-active",
                                           !.op = OperationAt(plan), !.report = claim(plan)])
        proceed(x) ==
            StopUnless(c, PlanRefusal(x, CheckIntent),
                LET opened(plan) == IF plan = None THEN Stop(c, "conflict") ELSE measure(BuildPlan(plan))
                IN  opened(Anchor(disk, x.manifest, CheckIntent)))
    IN  r.kind = "artifacts" /\ r.pc = "observe" /\ proceed(Context(disk, r.explicit))

Measure(c) ==
    LET r == cmd[c]
        stays == OutputsHold(disk, r.op.plan)
        unclaimed == r.report = "unclaimed" \/ (r.report = "claimed" /\ ~stays)
    IN  /\ r.kind = "artifacts" /\ r.pc \in {"measure", "measure-active"}
        /\ StopUnless(c, AnchorRefusal(disk, r.op.plan), Reports(c, Report(If(unclaimed, "release-output"), {})))
=============================================================================
