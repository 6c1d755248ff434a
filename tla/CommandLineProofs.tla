-------------------------- MODULE CommandLineProofs --------------------------
(***************************************************************************)
(* For any number of commands and servers, any applications, packages and  *)
(* tools, and any edits by the owner: the lock of an application excludes, *)
(* a child is run as it was planned, a release build is what the sources   *)
(* ask for, what a doctor accepts runs, and the database has one history.  *)
(***************************************************************************)
EXTENDS CommandLine, FiniteSetTheorems, TLAPS

Fields == {"kind", "explicit", "mode", "wanted", "pc", "stage", "context", "report", "root", "raw", "manifest", "edge", "left", "sources",
           "plan", "op", "status"}
OperationFields == {"plan", "signal", "toolchain", "tools", "sources", "step", "outcome", "database"}

\* The commands that look at one operation or run it, from when they have planned it.
Inspections == {"doctor", "artifacts"}
HasPlan(r) == r.kind \in {"operate"} \cup Inspections /\ r.pc \in {"consent", "lock", "probe", "measure", "measure-active"} \cup Held

\* The lock of the application's directory: an operation's and a doctor's are exclusive.
Locks(r) == (r.kind = "operate" /\ r.pc \in Held) \/ (r.kind \in Inspections /\ r.pc \in {"probe", "measure"})
Exclusive(r) == Locks(r) /\ r.kind # "artifacts"

ShapeOf(r) == DOMAIN r = Fields /\ (HasPlan(r) => DOMAIN r.op = OperationFields)

\* What a plan says of the manifest that it was made of.
Production == [kind |-> "database-migrate", profile |-> "production"]
Anchored(plan) ==
    /\ plan.composition = FromToml(plan.raw).composition /\ plan.provider \in FromToml(plan.raw).databases
    /\ plan.prerequisites = Prerequisites(plan.intent, plan.provider)
    /\ plan.approval = (plan.intent = Production)
    /\ plan.artifacts # None => plan.intent.kind = "release-build"

\* A frontend session: its tools answered with the versions that its sources ask for.
Pinned(op) ==
    /\ op.sources # None
    /\ WasmBindgen[op.sources.files[Lockfile]] = {op.sources.wasm} /\ op.sources.channel = op.sources.files[Toolchain]
    /\ DOMAIN op.tools = FrontendTools(op.plan.intent)
    /\ op.tools["rustc"].version = op.sources.channel /\ op.tools["wasm-bindgen"].version = op.sources.wasm

\* What an operation rests on, by how far it is.
Prepared == {"outputs", "check", "run", "complete"}
Backed(r) ==
    /\ r.kind = "operate" /\ r.pc = "anchor" => r.context.manifest # None
    /\ r.kind \in {"operate", "doctor"} /\ HasPlan(r) => Anchored(r.op.plan)
    /\ r.kind = "operate" /\ HasPlan(r) /\ r.pc # "consent" /\ r.op.plan.intent = Production => r.wanted.approval = "production"
    /\ r.kind = "operate" /\ r.pc \in Prepared /\ r.op.plan.intent.kind \in FrontendIntents => Pinned(r.op)
    /\ r.kind = "operate" /\ r.pc = "complete" => r.op.plan.artifacts # None
    /\ r.kind = "doctor" /\ r.pc \in {"plan", "lock", "probe"} => DOMAIN r.report = {"failures", "warnings"}

WellFormed(r) == ShapeOf(r) /\ Backed(r)
Shapes == DOMAIN cmd = Clis /\ \A c \in Clis : WellFormed(cmd[c])

SameRoot(c, o) == cmd[c].op.plan.root = cmd[o].op.plan.root
LockExcludes == \A c, o \in Clis : c # o /\ Exclusive(cmd[c]) /\ Locks(cmd[o]) => ~SameRoot(c, o)

ExclusionInv == Shapes /\ LockExcludes

-----------------------------------------------------------------------------
(* What a step of a command comes to: it has no lock; or goes on with its  *)
(* plan; or takes the lock.                                                *)
Writes(c, r) == cmd' = [cmd EXCEPT ![c] = r] /\ WellFormed(r)
Unlocked(c) == \E r : Writes(c, r) /\ ~Locks(r)
GoesOn(c) == \E r : Writes(c, r) /\ r.kind = cmd[c].kind /\ r.op.plan = cmd[c].op.plan /\ (Locks(r) => Locks(cmd[c]))
TakesLock(c) ==
    \E r : /\ Writes(c, r)
           /\ \A o \in Clis \ {c} : Locks(cmd[o]) /\ (Exclusive(r) \/ Exclusive(cmd[o])) => cmd[o].op.plan.root # r.op.plan.root
Proceeds(c) == Unlocked(c) \/ GoesOn(c) \/ TakesLock(c)

LEMMA IdleShape == DOMAIN Idle = Fields /\ Idle.kind = "idle" /\ Idle.pc = "idle"
  BY DEF Idle, Fields

\* A command without a plan needs nothing more than its fields.
LEMMA NoPlan ==
  ASSUME NEW r, DOMAIN r = Fields, ~HasPlan(r), r.kind = "operate" => r.pc # "anchor",
         r.kind = "doctor" /\ r.pc = "plan" => DOMAIN r.report = {"failures", "warnings"}
  PROVE  WellFormed(r) /\ ~Locks(r)
  <1>1. r.kind = "operate" => r.pc \notin Held
    BY DEF HasPlan
  <1>2. r.kind = "operate" => r.pc \notin Prepared
    BY <1>1 DEF Prepared, Held
  <1>3. ~Locks(r)
    BY <1>1 DEF Locks, HasPlan
  <1>4. r.kind = "doctor" => r.pc \notin {"lock", "probe"}
    BY DEF HasPlan, Inspections
  <1> QED
    BY <1>2, <1>3, <1>4 DEF WellFormed, ShapeOf, Backed, Prepared

\* A command that has ended has no plan.
LEMMA FinishProceeds ==
  ASSUME NEW c \in Clis, NEW status, Finish(c, status)
  PROVE  Proceeds(c)
  <1> DEFINE r == [Idle EXCEPT !.kind = cmd[c].kind, !.pc = "done", !.status = status]
  <1>1. cmd' = [cmd EXCEPT ![c] = r]
    BY DEF Finish, Do
  <1>2. r.pc = "done" /\ DOMAIN r = Fields
    BY IdleShape DEF Fields
  <1>3. ~HasPlan(r)
    BY <1>2 DEF HasPlan, Held
  <1>4. WellFormed(r) /\ ~Locks(r)
    BY <1>2, <1>3, NoPlan
  <1> HIDE DEF r
  <1> QED
    BY <1>1, <1>4 DEF Writes, Unlocked, Proceeds

\* The ways in which a command goes on.
LEMMA Ways ==
  ASSUME NEW c \in Clis
  PROVE  /\ \A status : Finish(c, status) => Proceeds(c)
         /\ \A status : Stop(c, status) => Proceeds(c)
         /\ \A r : Do(c, r) /\ WellFormed(r) /\ ~Locks(r) => Proceeds(c)
         /\ \A r : Read(c, r) /\ WellFormed(r) /\ ~Locks(r) => Proceeds(c)
  BY FinishProceeds DEF Stop, Read, Do, Proceeds, Unlocked, Writes

\* The commands of other kinds never have a plan of this kind.
OtherKinds == {"upgrade", "add", "new", "resource", "migration", "inspect"}
LEMMA OtherWays ==
  ASSUME NEW c \in Clis, cmd[c].kind \in OtherKinds
  PROVE  /\ \A status : Finish(c, status) => Proceeds(c)
         /\ \A status : Stop(c, status) => Proceeds(c)
         /\ \A r : Do(c, r) /\ DOMAIN r = Fields /\ r.kind = cmd[c].kind => Proceeds(c)
         /\ \A r : Read(c, r) /\ DOMAIN r = Fields /\ r.kind = cmd[c].kind => Proceeds(c)
  <1>1. \A r : r.kind = cmd[c].kind => ~HasPlan(r) /\ r.kind \notin {"operate", "doctor"}
    BY DEF OtherKinds, HasPlan, Inspections
  <1> QED
    BY <1>1, Ways, NoPlan

\* Which commands upgrade, add, generate and create.
LEMMA KindOf ==
  ASSUME NEW c \in Clis, UpgradeStep(c) \/ AddStep(c) \/ GenerateStep(c) \/ NewStep(c)
  PROVE  cmd[c].kind \in OtherKinds
  <1>1. CASE UpgradeStep(c)
    BY <1>1 DEF UpgradeStep, Observe, ObserveAs, CheckRecovery, OpenSource, ReadManaged, Seal, Reobserve, Recheck, OtherKinds
  <1>2. CASE AddStep(c)
    BY <1>2 DEF AddStep, ObserveForAdd, PlanAdd, OtherKinds
  <1>3. CASE GenerateStep(c)
    BY <1>3 DEF GenerateStep, ObserveForGeneration, ReadSources, PlanGeneration, Generates, OtherKinds
  <1>4. CASE NewStep(c)
    BY <1>4 DEF NewStep, ResolveNewCommand, Cancel, ResolveName, ResolveDestination, ResolveChoices, Confirm, CreateApplication, Render,
                OpenStaging, WriteFiles, KillRendering, VerifyStaging, RenameStaging, Creates, OtherKinds
  <1> QED
    BY <1>1, <1>2, <1>3, <1>4

LEMMA UpgradeProceeds ==
  ASSUME NEW c \in Clis, DOMAIN cmd[c] = Fields, UpgradeStep(c)
  PROVE  Proceeds(c)
  <1>1. cmd[c].kind \in OtherKinds
    BY KindOf
  <1>2. CASE Observe(c)
    BY <1>1, <1>2, OtherWays DEF Observe, ObserveAs, Fields
  <1>3. CASE CheckRecovery(c)
    BY <1>1, <1>3, OtherWays DEF CheckRecovery, Fields
  <1>4. CASE OpenSource(c)
    BY <1>1, <1>4, OtherWays DEF OpenSource, Refuse, Fields
  <1>5. CASE ReadManaged(c)
    BY <1>1, <1>5, OtherWays DEF ReadManaged, Refuse, Fields
  <1>6. CASE Seal(c)
    BY <1>1, <1>6, OtherWays DEF Seal, SealAssessment, SealPlan, Refuse, Fields
  <1>7. CASE Reobserve(c)
    BY <1>1, <1>7, OtherWays DEF Reobserve, Fields
  <1>8. CASE Recheck(c)
    BY <1>1, <1>8, OtherWays DEF Recheck, Fields
  <1> QED
    BY <1>2, <1>3, <1>4, <1>5, <1>6, <1>7, <1>8 DEF UpgradeStep

LEMMA AddProceeds ==
  ASSUME NEW c \in Clis, DOMAIN cmd[c] = Fields, AddStep(c)
  PROVE  Proceeds(c)
  <1>1. cmd[c].kind \in OtherKinds
    BY KindOf
  <1>2. CASE ObserveForAdd(c)
    BY <1>1, <1>2, OtherWays DEF ObserveForAdd, AdmitAdd, Fields
  <1>3. CASE PlanAdd(c)
    BY <1>1, <1>3, OtherWays DEF PlanAdd, Propose, Fields
  <1> QED
    BY <1>2, <1>3 DEF AddStep

LEMMA GenerateProceeds ==
  ASSUME NEW c \in Clis, DOMAIN cmd[c] = Fields, GenerateStep(c)
  PROVE  Proceeds(c)
  <1>1. cmd[c].kind \in OtherKinds
    BY KindOf
  <1>2. CASE ObserveForGeneration(c)
    BY <1>1, <1>2, OtherWays DEF ObserveForGeneration, AdmitGeneration, Fields
  <1>3. CASE ReadSources(c)
    BY <1>1, <1>3, OtherWays DEF ReadSources, AdmitResource, Fields
  <1>4. CASE PlanGeneration(c)
    BY <1>1, <1>4, OtherWays DEF PlanGeneration, Propose, Fields
  <1> QED
    BY <1>2, <1>3, <1>4 DEF GenerateStep

LEMMA NewProceeds ==
  ASSUME NEW c \in Clis, DOMAIN cmd[c] = Fields, NewStep(c)
  PROVE  Proceeds(c)
  <1>1. cmd[c].kind \in OtherKinds
    BY KindOf
  <1>2. CASE ResolveNewCommand(c)
    BY <1>1, <1>2, OtherWays DEF ResolveNewCommand, Fields
  <1>3. CASE Cancel(c)
    BY <1>1, <1>3, OtherWays DEF Cancel, Fields
  <1>4. CASE ResolveName(c)
    BY <1>1, <1>4, OtherWays DEF ResolveName, Asked, Fields
  <1>5. CASE ResolveDestination(c)
    BY <1>1, <1>5, OtherWays DEF ResolveDestination, Asked, Fields
  <1>6. CASE ResolveChoices(c)
    BY <1>1, <1>6, OtherWays DEF ResolveChoices, Fields
  <1>7. CASE Confirm(c)
    BY <1>1, <1>7, OtherWays DEF Confirm, Fields
  <1>8. CASE CreateApplication(c)
    BY <1>1, <1>8, OtherWays DEF CreateApplication, Fields
  <1>9. CASE Render(c)
    BY <1>1, <1>9, OtherWays DEF Render, PlanRendering, Fields
  <1>10. CASE OpenStaging(c)
    BY <1>1, <1>10, OtherWays DEF OpenStaging, Fields
  <1>11. CASE WriteFiles(c)
    BY <1>1, <1>11, OtherWays DEF WriteFiles, Abandon, Fields
  <1>12. CASE KillRendering(c)
    BY <1>1, <1>12, OtherWays DEF KillRendering
  <1>13. CASE VerifyStaging(c)
    BY <1>1, <1>13, OtherWays DEF VerifyStaging, Abandon, Fields
  <1>14. CASE RenameStaging(c)
    BY <1>1, <1>14, OtherWays DEF RenameStaging, Abandon
  <1> QED
    BY <1>2, <1>3, <1>4, <1>5, <1>6, <1>7, <1>8, <1>9, <1>10, <1>11, <1>12, <1>13, <1>14 DEF NewStep

LEMMA StartProceeds ==
  ASSUME NEW c \in Clis, Start(c)
  PROVE  Proceeds(c)
  <1>1. PICK q \in Requests[pkg] :
           Read(c, [Idle EXCEPT !.kind = q.kind, !.mode = q.mode, !.wanted = q.wanted, !.explicit = q.explicit, !.pc = "observe", !.stage = "assess"])
    BY DEF Start
  <1> DEFINE r == [Idle EXCEPT !.kind = q.kind, !.mode = q.mode, !.wanted = q.wanted, !.explicit = q.explicit, !.pc = "observe", !.stage = "assess"]
  <1>2. DOMAIN r = Fields /\ r.pc = "observe"
    BY IdleShape DEF Fields
  <1>3. ~HasPlan(r)
    BY <1>2 DEF HasPlan, Held
  <1>4. WellFormed(r) /\ ~Locks(r)
    BY <1>2, <1>3, NoPlan
  <1> HIDE DEF r
  <1> QED
    BY <1>1, <1>4, Ways DEF r

LEMMA PublishProceeds ==
  ASSUME NEW c \in Clis, Publish(c)
  PROVE  Proceeds(c)
  BY Ways DEF Publish

-----------------------------------------------------------------------------
(* Plans                                                                   *)

\* A manifest that can be read has a database.
LEMMA DatabasesGiven ==
  ASSUME NEW raw, FromToml(raw) # None
  PROVE  Provider(FromToml(raw)) \in FromToml(raw).databases
  <1>1. ValidManifest(raw) /\ FromToml(raw) = Normalize(raw)
    BY DEF FromToml
  <1>2. Normalize(raw).databases = raw.databases
    BY <1>1 DEF ValidManifest, ManifestFields, Normalize
  <1>3. raw.databases # {}
    <2>1. CASE ValidSelection(raw)
      BY <2>1, FS_EmptySet DEF ValidSelection
    <2>2. CASE ValidLegacySelection(raw)
      BY <2>2 DEF ValidLegacySelection
    <2> QED
      BY <1>1, <2>1, <2>2 DEF ValidManifest
  <1> QED
    BY <1>1, <1>2, <1>3 DEF Provider

\* What is planned holds of the manifest that it was planned for, with a cache or without.
LEMMA AnchorAnchored ==
  ASSUME NEW m, NEW intent, m # None, Anchor(disk, m, intent) # None
  PROVE  /\ Anchored(Anchor(disk, m, intent))
         /\ \A budget : Cached(Anchor(disk, m, intent), budget) # Error => Anchored(Cached(Anchor(disk, m, intent), budget))
  <1> DEFINE raw == disk.files[Manifest]
             plan == OperationPlan(m, disk.root, raw, intent)
  <1>1. FromToml(raw) = m /\ Anchor(disk, m, intent) = plan
    BY DEF Anchor
  <1>2. /\ plan.raw = raw /\ plan.composition = m.composition /\ plan.provider = Provider(m) /\ plan.intent = intent
        /\ plan.prerequisites = Prerequisites(intent, Provider(m)) /\ plan.approval = (intent = Production)
        /\ plan.artifacts # None => intent.kind = "release-build"
    BY DEF OperationPlan, Production
  <1>3. Anchored(plan)
    BY <1>1, <1>2, DatabasesGiven DEF Anchored
  <1>4. ASSUME NEW budget, Cached(plan, budget) # Error
        PROVE  Anchored(Cached(plan, budget))
    <2> DEFINE kept == [plan EXCEPT !.cache = budget, !.artifacts = IF @ = None THEN None ELSE CacheRoot]
    <2>1. Cached(plan, budget) = plan \/ Cached(plan, budget) = kept
      BY <1>1, <1>4 DEF Cached, WithValidationCache
    <2>2. /\ kept.raw = plan.raw /\ kept.composition = plan.composition /\ kept.provider = plan.provider /\ kept.intent = plan.intent
          /\ kept.prerequisites = plan.prerequisites /\ kept.approval = plan.approval /\ (kept.artifacts # None => plan.artifacts # None)
      BY DEF OperationPlan
    <2> HIDE DEF kept, plan
    <2>3. Anchored(kept)
      BY <1>3, <2>2 DEF Anchored
    <2> QED
      BY <1>3, <2>1, <2>3
  <1> QED
    BY <1>1, <1>3, <1>4

\* A plan is refused where the manifest cannot be read.
LEMMA PlanRefused ==
  ASSUME NEW x, NEW intent, PlanRefusal(x, intent) = None
  PROVE  x.manifest # None
  BY AnErrorIsNoSuccess DEF PlanRefusal, CompositionRefusal, Errors

LEMMA PlannedAnchored ==
  ASSUME NEW x, NEW intent, Planned(disk, x, intent) # None
  PROVE  Anchored(Planned(disk, x, intent))
  BY PlanRefused, AnchorAnchored DEF Planned

-----------------------------------------------------------------------------
(* Operations                                                              *)

\* How an operation goes on with its plan and, once it has one, its session.
Continues(c, r) ==
    /\ DOMAIN r = Fields /\ r.kind = cmd[c].kind /\ r.wanted = cmd[c].wanted
    /\ DOMAIN r.op = OperationFields /\ r.op.plan = cmd[c].op.plan
    /\ r.op.sources = cmd[c].op.sources /\ r.op.tools = cmd[c].op.tools
    /\ r.pc # "anchor"
    /\ r.pc \in Prepared => cmd[c].pc \in Prepared \/ r.op.plan.intent.kind \notin FrontendIntents
    /\ r.pc = "complete" => r.op.plan.artifacts # None

LEMMA ContinuesFormed ==
  ASSUME NEW c \in Clis, cmd[c].kind = "operate", HasPlan(cmd[c]), cmd[c].pc # "consent", WellFormed(cmd[c]), NEW r, Continues(c, r)
  PROVE  WellFormed(r)
  <1>1. ShapeOf(r)
    BY DEF Continues, ShapeOf
  <1>2. Anchored(r.op.plan) /\ (r.op.plan.intent = Production => r.wanted.approval = "production")
    BY DEF Continues, WellFormed, Backed
  <1>3. r.pc \in Prepared /\ r.op.plan.intent.kind \in FrontendIntents => Pinned(r.op)
    BY DEF Continues, WellFormed, Backed, Pinned
  <1> QED
    BY <1>1, <1>2, <1>3 DEF Continues, WellFormed, Backed

LEMMA HeldWays ==
  ASSUME NEW c \in Clis, cmd[c].kind = "operate", cmd[c].pc \in Held, WellFormed(cmd[c])
  PROVE  /\ \A r : Do(c, r) /\ Continues(c, r) => Proceeds(c)
         /\ \A r : Read(c, r) /\ Continues(c, r) => Proceeds(c)
  <1>1. HasPlan(cmd[c]) /\ Locks(cmd[c]) /\ cmd[c].pc # "consent"
    BY DEF HasPlan, Locks, Held
  <1>2. \A r : Continues(c, r) => WellFormed(r)
    BY <1>1, ContinuesFormed
  <1> QED
    BY <1>1, <1>2 DEF Do, Read, Proceeds, GoesOn, Writes, Continues

LEMMA HeldShape ==
  ASSUME NEW c \in Clis, cmd[c].kind = "operate", cmd[c].pc \in Held, WellFormed(cmd[c])
  PROVE  DOMAIN cmd[c] = Fields /\ DOMAIN cmd[c].op = OperationFields
  BY DEF WellFormed, ShapeOf, HasPlan

\* Before the lock.
LEMMA ObserveProceeds ==
  ASSUME NEW c \in Clis, WellFormed(cmd[c]), ObserveForOperation(c)
  PROVE  Proceeds(c)
  <1> DEFINE x == Context(disk, cmd[c].explicit)
             r == [cmd[c] EXCEPT !.pc = "anchor", !.context = x]
  <1>1. CASE \E status : Stop(c, status)
    BY <1>1, Ways
  <1>2. CASE Read(c, r) /\ PlanRefusal(x, cmd[c].wanted.intent) = None
    <2>1. DOMAIN r = Fields /\ r.pc = "anchor" /\ r.context = x
      BY DEF WellFormed, ShapeOf, Fields
    <2>2. x.manifest # None
      BY <1>2, PlanRefused
    <2>3. ~HasPlan(r) /\ ~Locks(r)
      BY <2>1 DEF HasPlan, Locks, Held
    <2>4. WellFormed(r)
      BY <2>1, <2>2, <2>3 DEF WellFormed, ShapeOf, Backed, Prepared
    <2> HIDE DEF r
    <2> QED
      BY <1>2, <2>3, <2>4, Ways
  <1>3. (\E status : Stop(c, status)) \/ (Read(c, r) /\ PlanRefusal(x, cmd[c].wanted.intent) = None)
    BY DEF ObserveForOperation, StopUnless
  <1> QED
    BY <1>1, <1>2, <1>3

LEMMA AnchorProceeds ==
  ASSUME NEW c \in Clis, WellFormed(cmd[c]), AnchorOperation(c)
  PROVE  Proceeds(c)
  <1> DEFINE a == Anchor(disk, cmd[c].context.manifest, cmd[c].wanted.intent)
             plan == Cached(a, cmd[c].wanted.cache)
             r == [cmd[c] EXCEPT !.pc = "consent", !.op = OperationAt(plan)]
  <1>1. CASE \E status : Stop(c, status)
    BY <1>1, Ways
  <1>2. CASE Read(c, r) /\ plan # None /\ plan # Error
    <2>1. cmd[c].context.manifest # None
      BY DEF AnchorOperation, Operates, WellFormed, Backed
    <2>2. a # None
      BY <1>2 DEF Cached
    <2>3. Anchored(plan)
      BY <1>2, <2>1, <2>2, AnchorAnchored
    <2>4. DOMAIN r = Fields /\ r.pc = "consent" /\ r.op = OperationAt(plan)
      BY DEF WellFormed, ShapeOf, Fields
    <2>5. DOMAIN r.op = OperationFields /\ r.op.plan = plan
      BY <2>4 DEF OperationAt, OperationFields
    <2>6. ~Locks(r)
      BY <2>4 DEF Locks, Held
    <2> HIDE DEF r, plan, a
    <2>7. WellFormed(r)
      BY <2>3, <2>4, <2>5 DEF WellFormed, ShapeOf, Backed, Prepared
    <2> QED
      BY <1>2, <2>6, <2>7, Ways
  <1>3. (\E status : Stop(c, status)) \/ (Read(c, r) /\ plan # None /\ plan # Error)
    BY DEF AnchorOperation
  <1> QED
    BY <1>1, <1>2, <1>3

LEMMA ConsentProceeds ==
  ASSUME NEW c \in Clis, WellFormed(cmd[c]), Consent(c)
  PROVE  Proceeds(c)
  <1> DEFINE r == [cmd[c] EXCEPT !.pc = "lock", !.op.toolchain = ResolveToolchain(disk)]
  <1>1. CASE \E status : Stop(c, status)
    BY <1>1, Ways
  <1>2. CASE Read(c, r) /\ Approved(cmd[c].op.plan, cmd[c].wanted.approval)
    <2>1. HasPlan(cmd[c]) /\ cmd[c].kind = "operate"
      BY DEF Consent, Operates, HasPlan
    <2>2. /\ DOMAIN r = Fields /\ r.kind = "operate" /\ r.pc = "lock" /\ DOMAIN r.op = OperationFields
          /\ r.op.plan = cmd[c].op.plan /\ r.wanted = cmd[c].wanted
      BY <2>1 DEF WellFormed, ShapeOf, Fields, OperationFields
    <2>3. Anchored(cmd[c].op.plan)
      BY <2>1 DEF WellFormed, Backed
    <2>4. cmd[c].op.plan.intent = Production => cmd[c].wanted.approval = "production"
      BY <1>2, <2>3 DEF Approved, Anchored, Production, DatabaseIntents
    <2>5. ~Locks(r)
      BY <2>2 DEF Locks, Held
    <2> HIDE DEF r
    <2>6. WellFormed(r)
      BY <2>2, <2>3, <2>4 DEF WellFormed, ShapeOf, Backed, Prepared
    <2> QED
      BY <1>2, <2>5, <2>6, Ways
  <1>3. (\E status : Stop(c, status)) \/ (Read(c, r) /\ Approved(cmd[c].op.plan, cmd[c].wanted.approval))
    BY DEF Consent
  <1> QED
    BY <1>1, <1>2, <1>3

LEMMA InterruptProceeds ==
  ASSUME NEW c \in Clis, WellFormed(cmd[c]), Interrupt(c)
  PROVE  Proceeds(c)
  <1>1. PICK s : cmd' = [cmd EXCEPT ![c].op.signal = s]
    BY DEF Interrupt
  <1> DEFINE r == [cmd[c] EXCEPT !.op.signal = s]
  <1>2. cmd' = [cmd EXCEPT ![c] = r]
    BY <1>1
  <1>3. HasPlan(cmd[c]) /\ cmd[c].kind = "operate" /\ cmd[c].pc # "consent" /\ cmd[c].pc # "anchor"
    BY DEF Interrupt, HasPlan, Held
  <1>4. /\ DOMAIN r = Fields /\ r.kind = cmd[c].kind /\ r.pc = cmd[c].pc /\ r.wanted = cmd[c].wanted
        /\ DOMAIN r.op = OperationFields /\ r.op.plan = cmd[c].op.plan /\ r.op.sources = cmd[c].op.sources /\ r.op.tools = cmd[c].op.tools
    BY <1>3 DEF WellFormed, ShapeOf, Fields, OperationFields
  <1> HIDE DEF r
  <1>5. Continues(c, r)
    BY <1>3, <1>4 DEF Continues, WellFormed, Backed
  <1>6. WellFormed(r)
    BY <1>3, <1>5, ContinuesFormed
  <1>7. Locks(r) => Locks(cmd[c])
    BY <1>4 DEF Locks
  <1> QED
    BY <1>2, <1>4, <1>6, <1>7 DEF Proceeds, GoesOn, Writes

\* The lock is taken only where nobody else has it for that directory.
LEMMA LockProceeds ==
  ASSUME NEW c \in Clis, WellFormed(cmd[c]), LockApplication(c)
  PROVE  Proceeds(c)
  <1> DEFINE r == [cmd[c] EXCEPT !.pc = "replan"]
  <1>1. HasPlan(cmd[c]) /\ cmd[c].kind = "operate" /\ cmd[c].pc = "lock"
    BY DEF LockApplication, Operates, HasPlan
  <1>2. DOMAIN r = Fields /\ r.kind = "operate" /\ r.pc = "replan" /\ r.op = cmd[c].op /\ r.wanted = cmd[c].wanted
    BY <1>1 DEF WellFormed, ShapeOf, Fields
  <1>3. Continues(c, r)
    BY <1>1, <1>2 DEF Continues, WellFormed, ShapeOf, Prepared
  <1>4. WellFormed(r)
    BY <1>1, <1>3, ContinuesFormed
  <1>5. CASE \E status : Stop(c, status)
    BY <1>5, Ways
  <1>6. CASE Read(c, r) /\ \A o \in Clis \ {c} : ~HoldsLock(o, r.op.plan.root) /\ ~Inspects(o, r.op.plan.root)
    <2>1. \A o \in Clis \ {c} : Locks(cmd[o]) => cmd[o].op.plan.root # r.op.plan.root
      BY <1>6 DEF Locks, HoldsLock, Inspects, Inspections
    <2> QED
      BY <1>4, <1>6, <2>1 DEF Proceeds, TakesLock, Writes, Read, Do
  <1>7. (\E status : Stop(c, status)) \/ (Read(c, r) /\ \A o \in Clis \ {c} : ~HoldsLock(o, r.op.plan.root) /\ ~Inspects(o, r.op.plan.root))
    BY <1>2, AnErrorIsNoSuccess DEF LockApplication, StopUnless, Else, RefusedIf, Goto, Errors
  <1> QED
    BY <1>5, <1>6, <1>7

\* What a frontend is built from is pinned by its own files.
LEMMA SourcesPinned ==
  ASSUME NEW plan, NEW inherited, NEW s, s = FrontendSources(disk, plan, inherited), s # None
  PROVE  /\ WasmBindgen[s.files[Lockfile]] = {s.wasm} /\ s.channel = s.files[Toolchain]
         /\ s.files = Restrict(disk.files, FrontendPaths)
  <1>1. /\ Single(WasmBindgen[disk.files[Lockfile]])
        /\ s = [files |-> Restrict(disk.files, FrontendPaths), channel |-> disk.files[Toolchain],
                wasm |-> CHOOSE v \in WasmBindgen[disk.files[Lockfile]] : TRUE]
    BY DEF FrontendSources
  <1>2. PICK v : WasmBindgen[disk.files[Lockfile]] = {v}
    BY <1>1 DEF Single
  <1>3. (CHOOSE w \in WasmBindgen[disk.files[Lockfile]] : TRUE) = v
    BY <1>2
  <1>4. Restrict(disk.files, FrontendPaths)[Lockfile] = disk.files[Lockfile] /\ Restrict(disk.files, FrontendPaths)[Toolchain] = disk.files[Toolchain]
    BY DEF Restrict, FrontendPaths
  <1> QED
    BY <1>1, <1>2, <1>3, <1>4

\* A session is prepared with the tools that its sources ask for.
LEMMA SessionProceeds ==
  ASSUME NEW c \in Clis, WellFormed(cmd[c]), PrepareSession(c)
  PROVE  Proceeds(c)
  <1> DEFINE intent == cmd[c].op.plan.intent
             s == FrontendSources(disk, cmd[c].op.plan, "inherited" \in cmd[c].wanted.options)
             tools == [n \in FrontendTools(intent) |-> disk.tools[n]]
             r == [cmd[c] EXCEPT !.pc = "outputs", !.op.sources = s, !.op.tools = tools]
  <1>1. cmd[c].kind = "operate" /\ cmd[c].pc = "prepare" /\ cmd[c].pc \in Held
    BY DEF PrepareSession, Operates, Held
  <1>2. HasPlan(cmd[c]) /\ Locks(cmd[c])
    BY <1>1 DEF HasPlan, Locks
  <1>3. CASE \E status : Stop(c, status)
    BY <1>3, Ways
  <1>4. CASE Read(c, r) /\ Ready(disk, intent, s)
    <2>1. /\ DOMAIN r = Fields /\ r.kind = "operate" /\ r.pc = "outputs" /\ r.wanted = cmd[c].wanted
          /\ DOMAIN r.op = OperationFields /\ r.op.plan = cmd[c].op.plan /\ r.op.sources = s /\ r.op.tools = tools
      BY <1>1, <1>2 DEF WellFormed, ShapeOf, Fields, OperationFields
    <2>2. s # None /\ WasmBindgen[s.files[Lockfile]] = {s.wasm} /\ s.channel = s.files[Toolchain]
      BY <1>4, SourcesPinned DEF Ready
    <2>3. ASSUME intent.kind \in FrontendIntents PROVE tools["rustc"].version = s.channel /\ tools["wasm-bindgen"].version = s.wasm
      <3>1. {"rustc", "wasm-bindgen"} \subseteq FrontendTools(intent)
        BY <2>3 DEF FrontendTools, SelectionNeeded
      <3>2. VersionHolds("rustc", disk.tools["rustc"], s) /\ VersionHolds("wasm-bindgen", disk.tools["wasm-bindgen"], s)
        BY <1>4, <3>1 DEF Ready, Probed
      <3>3. tools["rustc"] = disk.tools["rustc"] /\ tools["wasm-bindgen"] = disk.tools["wasm-bindgen"]
        BY <3>1
      <3> HIDE DEF tools, s
      <3> QED
        BY <3>2, <3>3 DEF VersionHolds
    <2>4. DOMAIN tools = FrontendTools(intent)
      OBVIOUS
    <2>5. r.op.plan.intent = intent
      BY <2>1
    <2> HIDE DEF r, s, tools, intent
    <2>6. intent.kind \in FrontendIntents => Pinned(r.op)
      BY <2>1, <2>2, <2>3, <2>4, <2>5 DEF Pinned
    <2>7. WellFormed(r)
      BY <1>1, <1>2, <2>1, <2>5, <2>6 DEF WellFormed, ShapeOf, Backed
    <2>8. cmd' = [cmd EXCEPT ![c] = r]
      BY <1>4 DEF Read, Do
    <2> QED
      BY <1>1, <1>2, <2>1, <2>7, <2>8 DEF Proceeds, GoesOn, Writes
  <1>5. (\E status : Stop(c, status)) \/ (Read(c, r) /\ Ready(disk, intent, s))
    BY DEF PrepareSession
  <1> QED
    BY <1>3, <1>4, <1>5

\* Under the lock.
LEMMA HeldProceeds ==
  ASSUME NEW c \in Clis, WellFormed(cmd[c]), cmd[c].kind = "operate", cmd[c].pc \in Held,
         \/ Reauthenticate(c) \/ PrepareSession(c) \/ PrepareOutputs(c) \/ CheckStep(c) \/ RunTool(c) \/ RunDatabase(c) \/ EndDatabase(c)
         \/ CompleteOutputs(c) \/ EndOperation(c),
         ~UNCHANGED cmd
  PROVE  Proceeds(c)
  <1>1. DOMAIN cmd[c] = Fields /\ DOMAIN cmd[c].op = OperationFields
    BY HeldShape
  <1>2. /\ \A r : Do(c, r) /\ Continues(c, r) => Proceeds(c)
        /\ \A r : Read(c, r) /\ Continues(c, r) => Proceeds(c)
    BY HeldWays
  <1>3. ASSUME NEW pc, pc # "anchor", pc \in Prepared => cmd[c].pc \in Prepared \/ cmd[c].op.plan.intent.kind \notin FrontendIntents,
               pc = "complete" => cmd[c].op.plan.artifacts # None
        PROVE  Continues(c, [cmd[c] EXCEPT !.pc = pc])
    BY <1>1, <1>3 DEF Continues, Fields
  <1>4. \A pc : /\ Goto(c, pc) /\ pc # "anchor" /\ (pc \in Prepared => cmd[c].pc \in Prepared \/ cmd[c].op.plan.intent.kind \notin FrontendIntents)
                /\ (pc = "complete" => cmd[c].op.plan.artifacts # None)
                => Proceeds(c)
    BY <1>2, <1>3 DEF Goto
  <1>5. \A outcome : Continues(c, [cmd[c] EXCEPT !.pc = "finish", !.op.outcome = outcome])
    BY <1>1 DEF Continues, Fields, OperationFields, Prepared
  <1>6. \A outcome : Finishing(c, outcome) => Proceeds(c)
    BY <1>2, <1>5 DEF Finishing
  <1>7. \A status : Stop(c, status) => Proceeds(c)
    BY Ways
  <1>8. CASE Reauthenticate(c)
    <2>1. CASE \E status : Stop(c, status)
      BY <1>7, <2>1
    <2>2. CASE Goto(c, IF cmd[c].op.plan.intent.kind \in FrontendIntents THEN "prepare" ELSE "outputs")
      BY <1>4, <2>2 DEF Prepared
    <2> QED
      BY <1>8, <2>1, <2>2 DEF Reauthenticate, StopUnless
  <1>9. CASE PrepareSession(c)
    BY <1>9, SessionProceeds
  <1>10. CASE PrepareOutputs(c)
    <2>1. cmd[c].pc \in Prepared
      BY <1>10 DEF PrepareOutputs, Operates, Prepared
    <2>2. Continues(c, [cmd[c] EXCEPT !.pc = "check"])
      BY <1>3, <2>1
    <2> QED
      BY <1>2, <1>4, <1>6, <1>7, <1>10, <2>1, <2>2 DEF PrepareOutputs
  <1>11. CASE CheckStep(c)
    <2>1. cmd[c].pc \in Prepared
      BY <1>11 DEF CheckStep, Operates, Prepared
    <2>2. \/ \E outcome : Finishing(c, outcome)
          \/ Goto(c, "complete") /\ cmd[c].op.plan.artifacts # None
          \/ Goto(c, "run")
      BY <1>11 DEF CheckStep, FinishUnless
    <2> QED
      BY <1>4, <1>6, <2>1, <2>2
  <1>12. CASE RunTool(c)
    <2>1. cmd[c].pc \in Prepared
      BY <1>12 DEF RunTool, Operates, Prepared
    <2>2. \A outcome : Continues(c, [cmd[c] EXCEPT !.pc = "check", !.op.step = @ + 1])
      BY <1>1, <2>1 DEF Continues, Fields, OperationFields, Prepared
    <2> QED
      BY <1>2, <1>5, <1>12, <2>2 DEF RunTool, StepEnded
  <1>13. CASE RunDatabase(c)
    BY <1>6, <1>13 DEF RunDatabase, Go
  <1>14. CASE EndDatabase(c)
    <2>1. ASSUME NEW outcome, NEW reply
          PROVE  Continues(c, [cmd[c] EXCEPT !.pc = "finish", !.op.outcome = outcome, !.op.database = reply,
                                             !.op.step = IF outcome = "succeeded" THEN @ + 1 ELSE @])
      <3> DEFINE r == [cmd[c] EXCEPT !.pc = "finish", !.op.outcome = outcome, !.op.database = reply,
                                     !.op.step = IF outcome = "succeeded" THEN @ + 1 ELSE @]
      <3>1. DOMAIN r = Fields /\ r.kind = "operate" /\ r.pc = "finish" /\ r.wanted = cmd[c].wanted
        BY <1>1 DEF Fields
      <3>2. DOMAIN r.op = OperationFields
        BY <1>1 DEF Fields, OperationFields
      <3>3. r.op.plan = cmd[c].op.plan /\ r.op.sources = cmd[c].op.sources /\ r.op.tools = cmd[c].op.tools
        BY <1>1 DEF Fields, OperationFields
      <3> HIDE DEF r
      <3>4. Continues(c, r)
        BY <3>1, <3>2, <3>3 DEF Continues, Prepared
      <3> QED
        BY <3>4 DEF r
    <2> QED
      BY <1>2, <1>14, <2>1 DEF EndDatabase
  <1>15. CASE CompleteOutputs(c)
    BY <1>6, <1>15 DEF CompleteOutputs, FinishUnless
  <1>16. CASE EndOperation(c)
    <2>1. CASE \E status : Stop(c, status)
      BY <1>7, <2>1
    <2>2. CASE \E status, report : Read(c, [Idle EXCEPT !.kind = "operate", !.pc = "done", !.status = status, !.report = report])
      <3>1. PICK status, report : Read(c, [Idle EXCEPT !.kind = "operate", !.pc = "done", !.status = status, !.report = report])
        BY <2>2
      <3> DEFINE r == [Idle EXCEPT !.kind = "operate", !.pc = "done", !.status = status, !.report = report]
      <3>2. DOMAIN r = Fields /\ r.pc = "done"
        BY IdleShape DEF Fields
      <3>3. ~HasPlan(r)
        BY <3>2 DEF HasPlan, Held
      <3>4. WellFormed(r) /\ ~Locks(r)
        BY <3>2, <3>3, NoPlan
      <3> HIDE DEF r
      <3> QED
        BY <3>1, <3>4, Ways DEF r
    <2> QED
      BY <1>16, <2>1, <2>2 DEF EndOperation
  <1> QED
    BY <1>8, <1>9, <1>10, <1>11, <1>12, <1>13, <1>14, <1>15, <1>16

LEMMA OperateProceeds ==
  ASSUME NEW c \in Clis, WellFormed(cmd[c]), OperateStep(c), ~UNCHANGED cmd
  PROVE  Proceeds(c)
  <1>1. CASE ObserveForOperation(c) \/ AnchorOperation(c) \/ Consent(c)
    BY <1>1, ObserveProceeds, AnchorProceeds, ConsentProceeds
  <1>2. CASE Interrupt(c)
    BY <1>2, InterruptProceeds
  <1>3. CASE LockApplication(c)
    BY <1>3, LockProceeds
  <1>4. CASE \/ Reauthenticate(c) \/ PrepareSession(c) \/ PrepareOutputs(c) \/ CheckStep(c) \/ RunTool(c) \/ RunDatabase(c) \/ EndDatabase(c)
             \/ CompleteOutputs(c) \/ EndOperation(c)
    <2>1. cmd[c].kind = "operate" /\ cmd[c].pc \in Held
      BY <1>4 DEF Reauthenticate, PrepareSession, PrepareOutputs, CheckStep, RunTool, RunDatabase, EndDatabase, CompleteOutputs, EndOperation,
                  Operates, Held
    <2> QED
      BY <1>4, <2>1, HeldProceeds
  <1> QED
    BY <1>1, <1>2, <1>3, <1>4 DEF OperateStep

-----------------------------------------------------------------------------
(* Inspections                                                             *)

LEMMA ReportsProceeds ==
  ASSUME NEW c \in Clis, NEW report, Reports(c, report)
  PROVE  Proceeds(c)
  <1> DEFINE r == [Idle EXCEPT !.kind = cmd[c].kind, !.pc = "done", !.report = report,
                               !.status = IF report.failures = {} THEN "success" ELSE "validation"]
  <1>1. DOMAIN r = Fields /\ r.pc = "done"
    BY IdleShape DEF Fields
  <1>2. ~HasPlan(r)
    BY <1>1 DEF HasPlan, Held
  <1>3. WellFormed(r) /\ ~Locks(r)
    BY <1>1, <1>2, NoPlan
  <1>4. Read(c, r)
    BY DEF Reports
  <1> HIDE DEF r
  <1> QED
    BY <1>3, <1>4, Ways

\* A doctor that takes the lock finds it free; so does a report of artifacts, which shares it.
LEMMA DiagnosisLocks ==
  ASSUME NEW c \in Clis, WellFormed(cmd[c]), LockDiagnosis(c)
  PROVE  Proceeds(c)
  <1> DEFINE r == [cmd[c] EXCEPT !.pc = "probe"]
  <1>1. HasPlan(cmd[c]) /\ cmd[c].kind = "doctor"
    BY DEF LockDiagnosis, HasPlan, Inspections
  <1>2. DOMAIN r = Fields /\ r.kind = "doctor" /\ r.pc = "probe" /\ r.op = cmd[c].op /\ r.report = cmd[c].report
    BY <1>1 DEF WellFormed, ShapeOf, Fields
  <1>3. WellFormed(r)
    BY <1>1, <1>2 DEF WellFormed, ShapeOf, Backed, LockDiagnosis
  <1>4. CASE \E report : Reports(c, report)
    BY <1>4, ReportsProceeds
  <1>5. CASE Read(c, r) /\ \A o \in Clis \ {c} : ~HoldsLock(o, r.op.plan.root) /\ ~Inspects(o, r.op.plan.root)
    <2>1. \A o \in Clis \ {c} : Locks(cmd[o]) => cmd[o].op.plan.root # r.op.plan.root
      BY <1>5 DEF Locks, HoldsLock, Inspects, Inspections
    <2> QED
      BY <1>3, <1>5, <2>1 DEF Proceeds, TakesLock, Writes, Read, Do
  <1>6. (\E report : Reports(c, report)) \/ (Read(c, r) /\ \A o \in Clis \ {c} : ~HoldsLock(o, r.op.plan.root) /\ ~Inspects(o, r.op.plan.root))
    BY <1>2 DEF LockDiagnosis
  <1> QED
    BY <1>4, <1>5, <1>6

\* The root of a report of artifacts is the one whose locks were looked at.
LEMMA AnchorRoot ==
  ASSUME NEW m, NEW intent, Anchor(disk, m, intent) # None
  PROVE  LET plan == BuildPlan(Anchor(disk, m, intent)) IN plan.root = disk.root /\ OperationAt(plan).plan = plan
  BY DEF Anchor, OperationPlan, BuildPlan, OperationAt

LEMMA MeasurementLocks ==
  ASSUME NEW c \in Clis, WellFormed(cmd[c]), PlanMeasurement(c)
  PROVE  Proceeds(c)
  <1> DEFINE active == \E o \in Clis \ {c} : HoldsLock(o, disk.root) \/ (cmd[o].kind = "doctor" /\ Inspects(o, disk.root))
             R(plan, report) == [cmd[c] EXCEPT !.pc = IF active THEN "measure-active" ELSE "measure", !.op = OperationAt(plan), !.report = report]
  <1>1. CASE \E status : Stop(c, status)
    BY <1>1, Ways
  <1>2. ASSUME NEW plan, NEW report, plan.root = disk.root, OperationAt(plan).plan = plan, Read(c, R(plan, report))
        PROVE  Proceeds(c)
    <2>1. /\ DOMAIN R(plan, report) = Fields /\ R(plan, report).kind = "artifacts" /\ R(plan, report).op = OperationAt(plan)
          /\ R(plan, report).pc = IF active THEN "measure-active" ELSE "measure"
      BY DEF PlanMeasurement, WellFormed, ShapeOf, Fields
    <2>2. WellFormed(R(plan, report))
      BY <2>1 DEF WellFormed, ShapeOf, Backed, OperationAt, OperationFields
    <2>3. CASE active
      <3>1. ~Locks(R(plan, report))
        BY <2>1, <2>3 DEF Locks
      <3> QED
        BY <1>2, <2>2, <3>1, Ways
    <2>4. CASE ~active
      <3>1. ~Exclusive(R(plan, report))
        BY <2>1 DEF Exclusive
      <3>2. ASSUME NEW o \in Clis \ {c}, Locks(cmd[o]), Exclusive(cmd[o]) PROVE cmd[o].op.plan.root # disk.root
        BY <2>4, <3>2 DEF Locks, Exclusive, HoldsLock, Inspects, Inspections
      <3>3. R(plan, report).op.plan.root = disk.root
        BY <1>2, <2>1
      <3>4. cmd' = [cmd EXCEPT ![c] = R(plan, report)]
        BY <1>2 DEF Read, Do
      <3> HIDE DEF R, active
      <3> QED
        BY <2>2, <3>1, <3>2, <3>3, <3>4 DEF Proceeds, TakesLock, Writes
    <2> QED
      BY <2>3, <2>4
  <1>3. \/ \E status : Stop(c, status)
        \/ \E plan, report : plan.root = disk.root /\ OperationAt(plan).plan = plan /\ Read(c, R(plan, report))
    <2> DEFINE a == Anchor(disk, Context(disk, cmd[c].explicit).manifest, CheckIntent)
               found == IF ~There(disk.files, ReleaseRoot) THEN "missing" ELSE IF OutputsHold(disk, BuildPlan(a)) THEN "claimed" ELSE "unclaimed"
    <2>1. (\E status : Stop(c, status)) \/ (a # None /\ Read(c, R(BuildPlan(a), found)))
      BY DEF PlanMeasurement, StopUnless
    <2>2. a # None => BuildPlan(a).root = disk.root /\ OperationAt(BuildPlan(a)).plan = BuildPlan(a)
      BY AnchorRoot
    <2> HIDE DEF a, found, R
    <2> QED
      BY <2>1, <2>2
  <1> QED
    BY <1>1, <1>2, <1>3

LEMMA InspectProceeds ==
  ASSUME NEW c \in Clis, WellFormed(cmd[c]), InspectStep(c)
  PROVE  Proceeds(c)
  <1>1. CASE Inspect(c)
    BY <1>1, Ways DEF Inspect
  <1>2. CASE ObserveForDoctor(c)
    <2> DEFINE report == ApplicationReport(disk, Context(disk, cmd[c].explicit))
               r == [cmd[c] EXCEPT !.pc = "plan", !.report = report]
    <2>1. CASE (\E status : Stop(c, status)) \/ (\E x : Reports(c, x))
      BY <2>1, Ways, ReportsProceeds
    <2>2. CASE Read(c, r)
      <3>1. DOMAIN r = Fields /\ r.kind = "doctor" /\ r.pc = "plan" /\ r.report = report
        BY <1>2 DEF ObserveForDoctor, WellFormed, ShapeOf, Fields
      <3>2. DOMAIN report = {"failures", "warnings"}
        BY DEF ApplicationReport, Report
      <3> HIDE DEF r, report
      <3>3. ~HasPlan(r)
        BY <3>1 DEF HasPlan, Held
      <3>4. WellFormed(r) /\ ~Locks(r)
        BY <3>1, <3>2, <3>3, NoPlan
      <3> QED
        BY <2>2, <3>4, Ways
    <2>3. (\E status : Stop(c, status)) \/ (\E x : Reports(c, x)) \/ Read(c, r)
      BY <1>2 DEF ObserveForDoctor
    <2> QED
      BY <2>1, <2>2, <2>3
  <1>3. CASE PlanDiagnosis(c)
    <2> DEFINE plan == Planned(disk, Context(disk, cmd[c].explicit), cmd[c].wanted.intent)
               r == [cmd[c] EXCEPT !.pc = "lock", !.op = OperationAt(plan)]
    <2>1. CASE \E report : Reports(c, report)
      BY <2>1, ReportsProceeds
    <2>2. CASE Read(c, r) /\ plan # None
      <3>1. DOMAIN r = Fields /\ r.kind = "doctor" /\ r.pc = "lock" /\ r.op = OperationAt(plan) /\ r.report = cmd[c].report
        BY <1>3 DEF PlanDiagnosis, WellFormed, ShapeOf, Fields
      <3>2. Anchored(plan)
        BY <2>2, PlannedAnchored
      <3> HIDE DEF r, plan
      <3>3. DOMAIN r.op = OperationFields /\ r.op.plan = plan
        BY <3>1 DEF OperationAt, OperationFields
      <3>4. DOMAIN cmd[c].report = {"failures", "warnings"}
        BY <1>3 DEF PlanDiagnosis, WellFormed, Backed
      <3>5. WellFormed(r) /\ ~Locks(r)
        BY <3>1, <3>2, <3>3, <3>4 DEF WellFormed, ShapeOf, Backed, Locks
      <3> QED
        BY <2>2, <3>5, Ways
    <2>3. (\E report : Reports(c, report)) \/ (Read(c, r) /\ plan # None)
      BY <1>3 DEF PlanDiagnosis
    <2> QED
      BY <2>1, <2>2, <2>3
  <1>4. CASE LockDiagnosis(c)
    BY <1>4, DiagnosisLocks
  <1>5. CASE Diagnose(c)
    BY <1>5, ReportsProceeds DEF Diagnose
  <1>6. CASE PlanMeasurement(c)
    BY <1>6, MeasurementLocks
  <1>7. CASE Measure(c)
    BY <1>7, Ways, ReportsProceeds DEF Measure, StopUnless
  <1> QED
    BY <1>1, <1>2, <1>3, <1>4, <1>5, <1>6, <1>7 DEF InspectStep

-----------------------------------------------------------------------------
(* The invariant                                                           *)

LEMMA InitExclusion ==
  ASSUME Init
  PROVE  ExclusionInv
  <1>1. (\A c \in Clis : cmd[c] = Idle) /\ DOMAIN cmd = Clis
    BY DEF Init
  <1>2. ~HasPlan(Idle)
    BY IdleShape DEF HasPlan, Inspections
  <1>3. WellFormed(Idle) /\ ~Locks(Idle)
    BY <1>2, IdleShape, NoPlan
  <1> QED
    BY <1>1, <1>3 DEF ExclusionInv, Shapes, LockExcludes

\* Whatever a command comes to, the lock stays exclusive.
LEMMA ProceedsExcludes ==
  ASSUME ExclusionInv, NEW c \in Clis, Proceeds(c)
  PROVE  ExclusionInv'
  <1>1. PICK r : /\ Writes(c, r)
                 /\ \/ ~Locks(r)
                    \/ r.kind = cmd[c].kind /\ r.op.plan = cmd[c].op.plan /\ (Locks(r) => Locks(cmd[c]))
                    \/ \A o \in Clis \ {c} : Locks(cmd[o]) /\ (Exclusive(r) \/ Exclusive(cmd[o])) => cmd[o].op.plan.root # r.op.plan.root
    BY DEF Proceeds, Unlocked, GoesOn, TakesLock
  <1>2. cmd'[c] = r /\ (\A o \in Clis \ {c} : cmd'[o] = cmd[o]) /\ DOMAIN cmd' = Clis /\ WellFormed(r)
    BY <1>1 DEF Writes, ExclusionInv, Shapes
  <1>3. Shapes'
    <2>1. \A d \in Clis : WellFormed(cmd'[d])
      BY <1>2 DEF ExclusionInv, Shapes
    <2> QED
      BY <1>2, <2>1 DEF Shapes
  <1>4. ASSUME NEW o \in Clis, o # c, Locks(r), Locks(cmd[o]), Exclusive(r) \/ Exclusive(cmd[o])
        PROVE  r.op.plan.root # cmd[o].op.plan.root
    <2>1. CASE r.kind = cmd[c].kind /\ r.op.plan = cmd[c].op.plan /\ (Locks(r) => Locks(cmd[c]))
      <3>1. Locks(cmd[c]) /\ (Exclusive(r) => Exclusive(cmd[c]))
        BY <1>4, <2>1 DEF Exclusive
      <3> QED
        BY <1>4, <2>1, <3>1 DEF ExclusionInv, LockExcludes, SameRoot
    <2> QED
      BY <1>1, <1>4, <2>1
  <1>5. ASSUME NEW a \in Clis, NEW b \in Clis, a # b, Exclusive(cmd'[a]), Locks(cmd'[b])
        PROVE  cmd'[a].op.plan.root # cmd'[b].op.plan.root
    <2>1. Locks(cmd'[a])
      BY <1>5 DEF Exclusive
    <2>2. CASE a = c
      BY <1>2, <1>4, <1>5, <2>1, <2>2
    <2>3. CASE b = c
      BY <1>2, <1>4, <1>5, <2>1, <2>3
    <2>4. CASE a # c /\ b # c
      BY <1>2, <1>5, <2>4 DEF ExclusionInv, LockExcludes, SameRoot
    <2> QED
      BY <2>2, <2>3, <2>4
  <1>6. LockExcludes'
    BY <1>5 DEF LockExcludes, SameRoot
  <1> QED
    BY <1>3, <1>6 DEF ExclusionInv

\* A step of a command.
Steps(c) ==
    Start(c) \/ NewStep(c) \/ UpgradeStep(c) \/ AddStep(c) \/ GenerateStep(c) \/ OperateStep(c) \/ InspectStep(c) \/ Publish(c)

LEMMA StepProceeds ==
  ASSUME ExclusionInv, NEW c \in Clis, Steps(c), ~UNCHANGED cmd
  PROVE  Proceeds(c)
  <1>1. WellFormed(cmd[c]) /\ DOMAIN cmd[c] = Fields
    BY DEF ExclusionInv, Shapes, WellFormed, ShapeOf
  <1> QED
    BY <1>1, StartProceeds, NewProceeds, UpgradeProceeds, AddProceeds, GenerateProceeds, OperateProceeds, InspectProceeds, PublishProceeds DEF Steps

\* Only a step of a command changes what commands are at, and it changes its own.
LEMMA WhoSteps ==
  ASSUME ExclusionInv, [Next]_vars, ~UNCHANGED cmd
  PROVE  \E c \in Clis : Steps(c) /\ Proceeds(c) /\ \A o \in Clis \ {c} : cmd'[o] = cmd[o]
  <1>1. OwnerStep => UNCHANGED cmd
    <2>1. \A d : Owner(d) => UNCHANGED cmd
      BY DEF Owner
    <2> QED
      BY <2>1 DEF OwnerStep, OwnerMovesDestination, OwnerTakesPlace, OwnerReplacesParent, OwnerReplacesStaging, OwnerEdits,
                  OwnerReplacesRoot, OwnerMovesRoots, OwnerRecovers, OwnerReplacesTool
  <1>2. HostStep => UNCHANGED cmd
    <2>1. /\ \A d : Owner(d) => UNCHANGED cmd
          /\ \A h, r : Go(h, r) => UNCHANGED cmd
          /\ \A h, r, db : Change(h, r, db) => UNCHANGED cmd
      BY DEF Owner, Go, Change
    <2> QED
      BY <2>1 DEF HostStep, LoadForCommand, ReadStatus, ConnectExisting, LoadForServer, OpenDatabase, ListApplied, ApplyMigration,
                  EndMigrations, SeedIdentity, Serve, LoseHost, StartServer
  <1>3. PICK c \in Clis : Steps(c)
    BY <1>1, <1>2 DEF Next, vars, Steps
  <1>4. Proceeds(c)
    BY <1>3, StepProceeds
  <1>5. \A o \in Clis \ {c} : cmd'[o] = cmd[o]
    BY <1>4 DEF Proceeds, Unlocked, GoesOn, TakesLock, Writes, ExclusionInv, Shapes
  <1> QED
    BY <1>3, <1>4, <1>5

LEMMA NextExclusion ==
  ASSUME ExclusionInv, [Next]_vars
  PROVE  ExclusionInv'
  <1>1. CASE UNCHANGED cmd
    BY <1>1 DEF ExclusionInv, Shapes, LockExcludes, SameRoot
  <1>2. CASE ~UNCHANGED cmd
    BY <1>2, WhoSteps, ProceedsExcludes
  <1> QED
    BY <1>1, <1>2

LEMMA AlwaysExclusion == Spec => []ExclusionInv
  BY InitExclusion, NextExclusion, PTL DEF Spec

\* The application lock: whoever has it has it alone, but that reports of artifacts share it.  Whatever
\* the commands, the owner and the application's own processes do, and whatever the path names by now
\* (execution.rs, readiness.rs, artifacts.rs).
THEOREM LockIsExclusive == Spec => []LockExcludes
  <1>1. ExclusionInv => LockExcludes
    BY DEF ExclusionInv
  <1> QED
    BY <1>1, AlwaysExclusion, PTL

\* Two operations never run their children in one directory, and no child runs while a doctor probes there.
THEOREM ChildrenExclude == Spec => []OperationsExclude
  <1>1. LockExcludes => OperationsExclude
    <2> SUFFICES ASSUME LockExcludes, NEW c \in Clis, NEW o \in Clis, Running(c), c # o
                 PROVE  /\ ~(Running(o) /\ cmd[o].op.plan.root = cmd[c].op.plan.root)
                        /\ ~(cmd[o].kind = "doctor" /\ Inspects(o, cmd[c].op.plan.root))
      BY DEF OperationsExclude
    <2>1. Exclusive(cmd[c])
      BY DEF Running, Operates, Exclusive, Locks, Held
    <2>2. Running(o) => Locks(cmd[o])
      BY DEF Running, Operates, Locks, Held
    <2>3. \A root : Inspects(o, root) => Locks(cmd[o]) /\ cmd[o].op.plan.root = root
      BY DEF Inspects, Locks, Inspections
    <2> QED
      BY <2>1, <2>2, <2>3 DEF LockExcludes, SameRoot
  <1> QED
    BY <1>1, LockIsExclusive, PTL

-----------------------------------------------------------------------------
(* What a step rests on                                                    *)

\* An operation under the lock moves by its own steps, but where it is begun or published.
LEMMA OperationMoves ==
  ASSUME ExclusionInv, [Next]_vars, NEW c \in Clis, cmd[c].kind = "operate", cmd[c].pc \in Held, cmd'[c] # cmd[c],
         cmd'[c].pc # "observe"
  PROVE  OperateStep(c)
  <1>1. Steps(c)
    BY WhoSteps
  <1>2. ~Start(c)
    BY IdleShape DEF Start, Read, Do, ExclusionInv, Shapes, Fields
  <1>3. ~Publish(c)
    BY DEF Publish, Held
  <1>4. ~InspectStep(c)
    BY DEF InspectStep, Inspect, ObserveForDoctor, PlanDiagnosis, LockDiagnosis, Diagnose, PlanMeasurement, Measure
  <1> QED
    BY <1>1, <1>2, <1>3, <1>4, KindOf DEF Steps, OtherKinds

\* Of those, one only comes to a child.
LEMMA ChildStarts ==
  ASSUME ExclusionInv, [Next]_vars, NEW c \in Clis, Operates(c, "check"), cmd'[c].pc = "run"
  PROVE  StepRefusal(disk, cmd[c].op) = None
  <1>1. cmd[c].kind = "operate" /\ cmd[c].pc = "check" /\ cmd[c].pc \in Held
    BY DEF Operates, Held
  <1>2. OperateStep(c)
    BY <1>1, OperationMoves
  <1>3. DOMAIN cmd = Clis /\ DOMAIN cmd[c] = Fields
    BY DEF ExclusionInv, Shapes, WellFormed, ShapeOf
  <1>4. ~Interrupt(c)
    BY <1>1, <1>3 DEF Interrupt, Fields
  <1>5. CheckStep(c)
    BY <1>1, <1>2, <1>4 DEF OperateStep, ObserveForOperation, AnchorOperation, Consent, LockApplication, Reauthenticate, PrepareSession,
                           PrepareOutputs, RunTool, RunDatabase, EndDatabase, CompleteOutputs, EndOperation, Operates
  <1>6. /\ \A outcome : Finishing(c, outcome) => cmd'[c].pc = "finish"
        /\ Goto(c, "complete") => cmd'[c].pc = "complete"
    BY <1>3 DEF Finishing, Goto, Read, Do, Fields
  <1> QED
    BY <1>5, <1>6 DEF CheckStep, FinishUnless

\* A child is started only in the directory and for the manifest that were planned, with the approval
\* that its intent asks for, and never behind a publication that another command left half done
\* (execution.rs).
THEOREM ChildrenRunAsPlanned == Spec => StepsRunAsPlanned
  <1>1. ASSUME ExclusionInv, [Next]_vars, NEW c \in Clis, Operates(c, "check"), cmd'[c].pc = "run"
        PROVE  LET plan == cmd[c].op.plan
               IN  /\ ~disk.marker /\ disk.root = plan.root
                   /\ FromToml(disk.files[Manifest]).composition = plan.composition
                   /\ plan.provider \in FromToml(disk.files[Manifest]).databases
                   /\ plan.intent = [kind |-> "database-migrate", profile |-> "production"] => cmd[c].wanted.approval = "production"
    <2> DEFINE plan == cmd[c].op.plan
    <2>1. StepRefusal(disk, cmd[c].op) = None
      BY <1>1, ChildStarts
    <2>2. AnchorRefusal(disk, plan) = None /\ RecoveryRefusal(disk) = None
      BY <2>1 DEF StepRefusal, Else
    <2>3. ~disk.marker /\ disk.root = plan.root /\ disk.files[Manifest] = plan.raw
      BY <2>2, AnErrorIsNoSuccess DEF AnchorRefusal, RecoveryRefusal, Else, RefusedIf, Errors
    <2>4. WellFormed(cmd[c]) /\ HasPlan(cmd[c]) /\ cmd[c].kind = "operate" /\ cmd[c].pc # "consent"
      BY <1>1 DEF ExclusionInv, Shapes, Operates, HasPlan, Held
    <2>5. Anchored(plan) /\ (plan.intent = Production => cmd[c].wanted.approval = "production")
      BY <2>4 DEF WellFormed, Backed
    <2> QED
      BY <2>3, <2>5 DEF Anchored, Production
  <1>2. ExclusionInv /\ [Next]_vars =>
          [\A c \in Clis : Operates(c, "check") /\ cmd'[c].pc = "run" =>
              LET plan == cmd[c].op.plan
              IN  /\ ~disk.marker /\ disk.root = plan.root
                  /\ FromToml(disk.files[Manifest]).composition = plan.composition /\ plan.provider \in FromToml(disk.files[Manifest]).databases
                  /\ plan.intent = [kind |-> "database-migrate", profile |-> "production"] => cmd[c].wanted.approval = "production"]_vars
    BY <1>1
  <1> QED
    BY <1>2, AlwaysExclusion, PTL DEF Spec, StepsRunAsPlanned

\* A build is verified in one step.
LEMMA BuildVerified ==
  ASSUME ExclusionInv, [Next]_vars, NEW c \in Clis, Operates(c, "complete"), cmd'[c].pc = "finish", cmd'[c].op.outcome = "succeeded"
  PROVE  OutputsRefusal(disk, cmd[c].op) = None
  <1>1. cmd[c].kind = "operate" /\ cmd[c].pc = "complete" /\ cmd[c].pc \in Held
    BY DEF Operates, Held
  <1>2. OperateStep(c)
    BY <1>1, OperationMoves
  <1>3. DOMAIN cmd = Clis /\ WellFormed(cmd[c])
    BY DEF ExclusionInv, Shapes
  <1>4. DOMAIN cmd[c] = Fields /\ DOMAIN cmd[c].op = OperationFields
    BY <1>1, <1>3, HeldShape
  <1>5. ~Interrupt(c)
    BY <1>1, <1>3, <1>4 DEF Interrupt, Fields
  <1>6. CompleteOutputs(c)
    BY <1>1, <1>2, <1>5 DEF OperateStep, ObserveForOperation, AnchorOperation, Consent, LockApplication, Reauthenticate, PrepareSession,
                           PrepareOutputs, CheckStep, RunTool, RunDatabase, EndDatabase, EndOperation, Operates
  <1>7. \A outcome : Finishing(c, outcome) => cmd'[c].op.outcome = outcome
    BY <1>3, <1>4 DEF Finishing, Read, Do, Fields, OperationFields
  <1>8. OutputsRefusal(disk, cmd[c].op) \in {None, "conflict", "validation"}
    <2> DEFINE S == {None, "conflict", "validation"}
    <2>1. /\ \A refusal, next \in S : Else(refusal, next) \in S
          /\ \A condition : RefusedIf(condition, "conflict") \in S /\ RefusedIf(condition, "validation") \in S
      BY DEF Else, RefusedIf
    <2>2. None \in S
      OBVIOUS
    <2> HIDE DEF S
    <2>3. \A plan : AnchorRefusal(disk, plan) \in S
      BY <2>1 DEF AnchorRefusal
    <2>4. \A tools : ToolchainRefusal(disk, tools) \in S
      BY <2>1 DEF ToolchainRefusal
    <2>5. SessionRefusal(disk, cmd[c].op) \in S
      <3> DEFINE op == cmd[c].op
                 missing == RefusedIf(\E p \in FrontendPaths : ~There(disk.files, p), "validation")
                 changed == RefusedIf(Restrict(disk.files, FrontendPaths) # op.sources.files, "conflict")
                 foreign == RefusedIf(\E n \in DOMAIN op.tools : ~Native(disk.tools[n]), "validation")
                 replaced == RefusedIf(\E n \in DOMAIN op.tools : disk.tools[n] # op.tools[n], "conflict")
      <3>1. missing \in S /\ changed \in S /\ foreign \in S /\ replaced \in S
        BY <2>1
      <3>2. SessionRefusal(disk, op) = Else(AnchorRefusal(disk, op.plan), Else(ToolchainRefusal(disk, op.toolchain),
                IF op.sources = None THEN None ELSE Else(missing, Else(changed, Else(foreign, replaced)))))
        BY DEF SessionRefusal
      <3> HIDE DEF missing, changed, foreign, replaced
      <3>3. Else(missing, Else(changed, Else(foreign, replaced))) \in S
        BY <2>1, <3>1
      <3> QED
        BY <2>1, <2>2, <2>3, <2>4, <3>2, <3>3
    <2>6. /\ RefusedIf(~OutputsHold(disk, cmd[c].op.plan), "conflict") \in S
          /\ RefusedIf(~OutputsComplete(disk, cmd[c].op.plan), "validation") \in S
      BY <2>1
    <2>7. OutputsRefusal(disk, cmd[c].op) \in S
      BY <2>1, <2>5, <2>6 DEF OutputsRefusal
    <2> QED
      BY <2>7 DEF S
  <1> QED
    BY <1>6, <1>7, <1>8 DEF CompleteOutputs, FinishUnless

\* A release build that succeeds was made by the tools that the application's sources ask for, at the
\* end as well as at the beginning (platform/leptos.rs, platform/artifacts.rs).
THEOREM BuildsAreAsLocked == Spec => BuiltAsLocked
  <1>1. ASSUME ExclusionInv, [Next]_vars, NEW c \in Clis, Operates(c, "complete"), cmd'[c].pc = "finish", cmd'[c].op.outcome = "succeeded"
        PROVE  /\ WasmBindgen[disk.files[Lockfile]] = {disk.tools["wasm-bindgen"].version}
               /\ disk.tools["rustc"].version = disk.files[Toolchain]
               /\ OutputsHold(disk, cmd[c].op.plan) /\ OutputsComplete(disk, cmd[c].op.plan)
    <2> DEFINE op == cmd[c].op
    <2>1. OutputsRefusal(disk, op) = None
      BY <1>1, BuildVerified
    <2>2. SessionRefusal(disk, op) = None /\ OutputsHold(disk, op.plan) /\ OutputsComplete(disk, op.plan)
      BY <2>1, AnErrorIsNoSuccess DEF OutputsRefusal, Else, RefusedIf, Errors
    <2>3. WellFormed(cmd[c]) /\ HasPlan(cmd[c]) /\ cmd[c].kind = "operate" /\ cmd[c].pc = "complete"
      BY <1>1 DEF ExclusionInv, Shapes, Operates, HasPlan, Held
    <2>4. op.plan.intent.kind = "release-build"
      BY <2>3 DEF WellFormed, Backed, Anchored
    <2>5. Pinned(op)
      BY <2>3, <2>4 DEF WellFormed, Backed, Prepared, FrontendIntents
    <2>6. {"rustc", "wasm-bindgen"} \subseteq DOMAIN op.tools
      BY <2>4, <2>5 DEF Pinned, FrontendTools, SelectionNeeded, FrontendIntents
    <2>7. Restrict(disk.files, FrontendPaths) = op.sources.files /\ \A n \in DOMAIN op.tools : disk.tools[n] = op.tools[n]
      BY <2>2, <2>5, AnErrorIsNoSuccess DEF SessionRefusal, Pinned, Else, RefusedIf, Errors
    <2>8. disk.files[Lockfile] = op.sources.files[Lockfile] /\ disk.files[Toolchain] = op.sources.files[Toolchain]
      BY <2>7 DEF Restrict, FrontendPaths
    <2>9. disk.tools["rustc"] = op.tools["rustc"] /\ disk.tools["wasm-bindgen"] = op.tools["wasm-bindgen"]
      BY <2>6, <2>7
    <2> QED
      BY <2>2, <2>5, <2>8, <2>9 DEF Pinned
  <1>2. ExclusionInv /\ [Next]_vars =>
          [\A c \in Clis : Operates(c, "complete") /\ cmd'[c].pc = "finish" /\ cmd'[c].op.outcome = "succeeded" =>
              /\ WasmBindgen[disk.files[Lockfile]] = {disk.tools["wasm-bindgen"].version}
              /\ disk.tools["rustc"].version = disk.files[Toolchain]
              /\ OutputsHold(disk, cmd[c].op.plan) /\ OutputsComplete(disk, cmd[c].op.plan)]_vars
    BY <1>1
  <1> QED
    BY <1>2, AlwaysExclusion, PTL DEF Spec, BuiltAsLocked

-----------------------------------------------------------------------------
(* Readiness                                                               *)

\* A diagnosis that finds nothing: no failure, and no warning but those that are always given.
Clean(d, plan, options, broken) ==
    /\ Diagnosis(d, plan, options, broken).failures = {}
    /\ Diagnosis(d, plan, options, broken).warnings \subseteq ExpectedWarnings

LEMMA CleanChecks ==
  ASSUME NEW d, NEW plan, NEW options, NEW broken, Clean(d, plan, options, broken)
  PROVE  /\ AnchorRefusal(d, plan) = None /\ RecoveryRefusal(d) = None
         /\ There(d.files, Cargo) /\ ~CargoMissing(d, options)
         /\ plan.intent.kind = "release-build" => OutputsUsable(d, plan)
         /\ "entry-point" \in plan.prerequisites => PrerequisiteHolds(d, plan, options, "entry-point")
         /\ \A p \in plan.prerequisites : p \notin ExpectedWarnings => PrerequisiteHolds(d, plan, options, p)
  <1> DEFINE r == Diagnosis(d, plan, options, broken)
  <1>1. ~CargoRefused(d, options)
    BY DEF Clean, Diagnosis, Report
  <1>2. r.failures = If("entry-point" \in plan.prerequisites /\ ~PrerequisiteHolds(d, plan, options, "entry-point"), "entry-point")
                     \cup If(plan.intent.kind = "release-build" /\ ~OutputsUsable(d, plan), "release-output")
                     \cup If(AnchorRefusal(d, plan) # None \/ RecoveryRefusal(d) # None, "operation-state")
                     \cup If(broken, "probe-interrupted")
    BY <1>1 DEF Diagnosis, Report
  <1>3. r.warnings = If(CargoMissing(d, options), "tool-selection") \cup If(~There(d.files, Cargo), "workspace-manifest")
                     \cup {p \in plan.prerequisites \ {"entry-point"} : broken \/ ~PrerequisiteHolds(d, plan, options, p)}
                     \cup If(plan.intent.kind \in FrontendIntents /\ ~There(d.files, PublicAssets), "public-assets")
                     \cup If(plan.intent.kind \in FrontendIntents, "frontend-execution")
                     \cup If(plan.approval, "production-approval")
    BY <1>1 DEF Diagnosis, Report
  <1>4. r.failures = {} /\ r.warnings \subseteq ExpectedWarnings
    BY DEF Clean
  <1> HIDE DEF r
  <1>5. \A condition, code : condition => code \in If(condition, code)
    BY DEF If
  <1>6. /\ ("entry-point" \in plan.prerequisites => PrerequisiteHolds(d, plan, options, "entry-point"))
        /\ (plan.intent.kind = "release-build" => OutputsUsable(d, plan))
        /\ AnchorRefusal(d, plan) = None /\ RecoveryRefusal(d) = None
    BY <1>2, <1>4, <1>5
  <1>7. "tool-selection" \notin ExpectedWarnings /\ "workspace-manifest" \notin ExpectedWarnings /\ "entry-point" \notin ExpectedWarnings
    BY DEF ExpectedWarnings
  <1>8. ~CargoMissing(d, options) /\ There(d.files, Cargo)
    BY <1>3, <1>4, <1>5, <1>7
  <1>9. ASSUME NEW p \in plan.prerequisites, p \notin ExpectedWarnings PROVE PrerequisiteHolds(d, plan, options, p)
    BY <1>3, <1>4, <1>6, <1>9
  <1> QED
    BY <1>6, <1>8, <1>9

\* What a tool that was probed shows.
LEMMA ToolShown ==
  ASSUME NEW d, NEW options, NEW name, ProbeTool(d, options, name)
  PROVE  LET tool == d.tools[IF name = "wasm-target" THEN "rustc" ELSE name]
         IN  /\ ProbesTools(options) /\ Native(tool) /\ ToolAnswers(d, name, tool)
             /\ name # "wasm-bindgen" => ~Inside(tool)
  BY DEF ProbeTool, Inside

\* What is asked of the tools of a frontend holds of each tool that its build uses.
LEMMA FrontendShown ==
  ASSUME NEW d, NEW plan, NEW options, NEW broken, Clean(d, plan, options, broken), Anchored(plan), plan.intent.kind \in FrontendIntents
  PROVE  LET sources == FrontendSources(d, plan, "inherited" \in options)
         IN  sources # None /\ \A n \in FrontendTools(plan.intent) : Probed(d, n, sources)
  <1> DEFINE sources == FrontendSources(d, plan, "inherited" \in options)
  <1>1. \A p \in plan.prerequisites : p \notin ExpectedWarnings => PrerequisiteHolds(d, plan, options, p)
    BY CleanChecks
  <1>2. /\ {"toolchain", "cargo", "lockfile", "wasm-target", "cargo-leptos", "frontend", "wasm-bindgen", "tailwind"} \subseteq plan.prerequisites
        /\ plan.intent.kind = "release-build" => "wasm-opt" \in plan.prerequisites
    BY DEF Anchored, Prerequisites, FrontendIntents, DatabaseIntents
  <1>3. {"toolchain", "cargo", "lockfile", "wasm-target", "cargo-leptos", "frontend", "wasm-bindgen", "tailwind", "wasm-opt"} \cap ExpectedWarnings = {}
    BY DEF ExpectedWarnings
  <1>4. /\ PrerequisiteHolds(d, plan, options, "toolchain") /\ PrerequisiteHolds(d, plan, options, "wasm-target")
        /\ PrerequisiteHolds(d, plan, options, "cargo-leptos") /\ PrerequisiteHolds(d, plan, options, "wasm-bindgen")
        /\ PrerequisiteHolds(d, plan, options, "tailwind")
        /\ (plan.intent.kind = "release-build" => PrerequisiteHolds(d, plan, options, "wasm-opt"))
    BY <1>1, <1>2, <1>3
  <1>5. /\ ProbeTool(d, options, "rustc") /\ ProbeTool(d, options, "wasm-target") /\ ProbeTool(d, options, "node")
        /\ ProbeTool(d, options, "cargo-leptos") /\ ProbeTool(d, options, "wasm-bindgen") /\ LockedVersion(d) # None
        /\ sources # None /\ (plan.intent.kind = "release-build" => ProbeTool(d, options, "wasm-opt"))
    <2> HIDE DEF sources
    <2>1. PrerequisiteHolds(d, plan, options, "tailwind") <=> sources # None
      BY DEF PrerequisiteHolds, sources
    <2> QED
      BY <1>4, <2>1 DEF PrerequisiteHolds
  <1>6. /\ Single(WasmBindgen[d.files[Lockfile]]) /\ sources.channel = d.files[Toolchain]
        /\ sources.wasm = CHOOSE v \in WasmBindgen[d.files[Lockfile]] : TRUE
    BY <1>5 DEF FrontendSources
  <1>7. LockedVersion(d) = sources.wasm
    BY <1>5, <1>6 DEF LockedVersion
  <1> HIDE DEF sources
  <1>8. Probed(d, "rustc", sources)
    <2>1. Native(d.tools["rustc"]) /\ ~Inside(d.tools["rustc"]) /\ ToolAnswers(d, "rustc", d.tools["rustc"])
      BY <1>5, ToolShown
    <2>2. ToolAnswers(d, "wasm-target", d.tools["rustc"])
      BY <1>5, ToolShown
    <2> QED
      BY <1>6, <2>1, <2>2 DEF ToolAnswers, Probed, VersionHolds
  <1>9. Probed(d, "wasm-bindgen", sources)
    <2>1. Native(d.tools["wasm-bindgen"]) /\ ToolAnswers(d, "wasm-bindgen", d.tools["wasm-bindgen"])
      BY <1>5, ToolShown
    <2> QED
      BY <1>7, <2>1 DEF ToolAnswers, Probed, VersionHolds
  <1>10. ASSUME NEW n \in {"cargo-leptos", "node", "wasm-opt"}, ProbeTool(d, options, n) PROVE Probed(d, n, sources)
    <2>1. Native(d.tools[n]) /\ ~Inside(d.tools[n]) /\ ToolAnswers(d, n, d.tools[n])
      BY <1>10, ToolShown
    <2> QED
      BY <2>1 DEF ToolAnswers, Probed, VersionHolds
  <1>11. \A n \in FrontendTools(plan.intent) : Probed(d, n, sources)
    BY <1>5, <1>8, <1>9, <1>10 DEF FrontendTools, SelectionNeeded
  <1> QED
    BY <1>5, <1>11 DEF sources

\* What is asked of every operation holds before its first child.
LEMMA OperationShown ==
  ASSUME NEW d, NEW plan, NEW options, NEW broken, Clean(d, plan, options, broken), Anchored(plan)
  PROVE  /\ PrerequisiteRefusal(d, plan) = None
         /\ ToolchainFound(d, options) /\ ToolchainRefusal(d, ResolveToolchain(d)) = None
         /\ plan.artifacts # None => OutputsUsable(d, plan)
  <1>1. /\ There(d.files, Cargo) /\ (plan.intent.kind = "release-build" => OutputsUsable(d, plan))
        /\ ("entry-point" \in plan.prerequisites => PrerequisiteHolds(d, plan, options, "entry-point"))
        /\ \A p \in plan.prerequisites : p \notin ExpectedWarnings => PrerequisiteHolds(d, plan, options, p)
    BY CleanChecks
  <1>2. /\ {"toolchain", "cargo", "lockfile"} \subseteq plan.prerequisites
        /\ plan.intent.kind \in DatabaseIntents => "entry-point" \in plan.prerequisites
        /\ plan.artifacts # None => plan.intent.kind = "release-build"
    BY DEF Anchored, Prerequisites
  <1>3. {"toolchain", "cargo", "lockfile"} \cap ExpectedWarnings = {}
    BY DEF ExpectedWarnings
  <1>4. /\ PrerequisiteHolds(d, plan, options, "toolchain") /\ PrerequisiteHolds(d, plan, options, "cargo")
        /\ PrerequisiteHolds(d, plan, options, "lockfile")
    BY <1>1, <1>2, <1>3
  <1>5. There(d.files, Toolchain) /\ There(d.files, Lockfile) /\ ProbeTool(d, options, "cargo")
    BY <1>4 DEF PrerequisiteHolds
  <1>6. ProbesTools(options) /\ Native(d.tools["cargo"]) /\ ~Inside(d.tools["cargo"])
    BY <1>5, ToolShown
  <1>7. plan.intent.kind \in DatabaseIntents => EntryPointHolds(d, plan.intent)
    BY <1>1, <1>2 DEF PrerequisiteHolds
  <1>8. PrerequisiteRefusal(d, plan) = None
    BY <1>1, <1>5, <1>7 DEF PrerequisiteRefusal, Else, RefusedIf
  <1>9. ToolchainFound(d, options) /\ ToolchainRefusal(d, ResolveToolchain(d)) = None
    BY <1>6 DEF ToolchainFound, CargoSelected, ProbesTools, ToolchainRefusal, ResolveToolchain, Else, RefusedIf
  <1> QED
    BY <1>1, <1>2, <1>8, <1>9

\* A doctor that ends has looked at its operation.
LEMMA DoctorEnds ==
  ASSUME ExclusionInv, [Next]_vars, NEW c \in Clis, cmd[c].kind = "doctor", cmd[c].pc = "probe", cmd'[c].pc = "done",
         cmd'[c].report.failures = {}, cmd'[c].report.warnings \subseteq ExpectedWarnings
  PROVE  Anchored(cmd[c].op.plan) /\ \E broken : Clean(disk, cmd[c].op.plan, cmd[c].wanted.options, broken)
  <1>1. PICK o \in Clis : Steps(o) /\ \A e \in Clis \ {o} : cmd'[e] = cmd[e]
    BY WhoSteps
  <1>2. Steps(c)
    BY <1>1
  <1>3. DOMAIN cmd = Clis /\ WellFormed(cmd[c])
    BY DEF ExclusionInv, Shapes
  <1>4. ~Start(c)
    BY <1>3, IdleShape DEF Start, Read, Do, Fields
  <1>5. ~Publish(c)
    BY DEF Publish
  <1>6. ~OperateStep(c)
    BY DEF OperateStep, ObserveForOperation, AnchorOperation, Consent, Interrupt, LockApplication, Reauthenticate, PrepareSession,
           PrepareOutputs, CheckStep, RunTool, RunDatabase, EndDatabase, CompleteOutputs, EndOperation, Operates
  <1>7. InspectStep(c)
    BY <1>2, <1>4, <1>5, <1>6, KindOf DEF Steps, OtherKinds
  <1>8. Diagnose(c)
    BY <1>7 DEF InspectStep, Inspect, ObserveForDoctor, PlanDiagnosis, LockDiagnosis, PlanMeasurement, Measure
  <1>9. PICK broken : Reports(c, Warn(Fail(cmd[c].report, Diagnosis(disk, cmd[c].op.plan, cmd[c].wanted.options, broken).failures),
                                      Diagnosis(disk, cmd[c].op.plan, cmd[c].wanted.options, broken).warnings))
    BY <1>8 DEF Diagnose
  <1> DEFINE found == Diagnosis(disk, cmd[c].op.plan, cmd[c].wanted.options, broken)
             report == Warn(Fail(cmd[c].report, found.failures), found.warnings)
  <1>10. cmd'[c].report = report
    BY <1>3, <1>9, IdleShape DEF Reports, Read, Do, Fields
  <1>11. HasPlan(cmd[c]) /\ DOMAIN cmd[c].report = {"failures", "warnings"} /\ Anchored(cmd[c].op.plan)
    BY <1>3 DEF HasPlan, Inspections, WellFormed, Backed
  <1>12. report.failures = cmd[c].report.failures \cup found.failures /\ report.warnings = cmd[c].report.warnings \cup found.warnings
    BY <1>11 DEF Warn, Fail
  <1>13. found.failures = {} /\ found.warnings \subseteq ExpectedWarnings
    BY <1>10, <1>12
  <1> QED
    BY <1>11, <1>13 DEF Clean

\* What a doctor finds nothing wrong with, the operation accepts: on the same disk none of its checks
\* before the first child refuses, but that Tailwind runs (readiness.rs, execution.rs, leptos.rs, artifacts.rs).
THEOREM ReadyOperationsRun == Spec => ReadyMeansRunnable
  <1>1. ASSUME ExclusionInv, [Next]_vars, NEW c \in Clis, cmd[c].kind = "doctor", cmd[c].pc = "probe", cmd'[c].pc = "done",
               cmd'[c].report.failures = {}, cmd'[c].report.warnings \subseteq ExpectedWarnings
        PROVE  LET plan == cmd[c].op.plan
                   sources == FrontendSources(disk, plan, "inherited" \in cmd[c].wanted.options)
               IN  /\ AnchorRefusal(disk, plan) = None /\ RecoveryRefusal(disk) = None /\ PrerequisiteRefusal(disk, plan) = None
                   /\ ToolchainFound(disk, cmd[c].wanted.options) /\ ToolchainRefusal(disk, ResolveToolchain(disk)) = None
                   /\ plan.intent.kind \in FrontendIntents =>
                         sources # None /\ \A n \in FrontendTools(plan.intent) : Probed(disk, n, sources)
                   /\ plan.artifacts # None => OutputsUsable(disk, plan)
    <2>1. Anchored(cmd[c].op.plan)
      BY <1>1, DoctorEnds
    <2>2. PICK broken : Clean(disk, cmd[c].op.plan, cmd[c].wanted.options, broken)
      BY <1>1, DoctorEnds
    <2> QED
      BY <2>1, <2>2, CleanChecks, OperationShown, FrontendShown
  <1>2. ExclusionInv /\ [Next]_vars =>
          [\A c \in Clis :
              cmd[c].kind = "doctor" /\ cmd[c].pc = "probe" /\ cmd'[c].pc = "done" /\ cmd'[c].report.failures = {} /\ cmd'[c].report.warnings \subseteq ExpectedWarnings =>
                 LET plan == cmd[c].op.plan
                     sources == FrontendSources(disk, plan, "inherited" \in cmd[c].wanted.options)
                 IN  /\ AnchorRefusal(disk, plan) = None /\ RecoveryRefusal(disk) = None /\ PrerequisiteRefusal(disk, plan) = None
                     /\ ToolchainFound(disk, cmd[c].wanted.options) /\ ToolchainRefusal(disk, ResolveToolchain(disk)) = None
                     /\ plan.intent.kind \in FrontendIntents =>
                           sources # None /\ \A n \in FrontendTools(plan.intent) : Probed(disk, n, sources)
                     /\ plan.artifacts # None => OutputsUsable(disk, plan)]_vars
    BY <1>1
  <1> QED
    BY <1>2, AlwaysExclusion, PTL DEF Spec, ReadyMeansRunnable

-----------------------------------------------------------------------------
(* The database                                                            *)

HostFields == {"kind", "pc", "root", "profile", "sources", "features", "config", "plan", "left", "report", "workers"}
DatabaseFields == {"exists", "table", "rows", "seeded"}

\* What a process rests on, by how far it is: one that applies migrations has them all recorded but
\* those that are left, one that goes on after that has them all.
Migrated(host, rows) == \A v \in DOMAIN host.plan : Recorded(host.plan, rows, v)
HostHolds(host, rows) ==
    /\ DOMAIN host = HostFields
    /\ host.pc \in {"open", "seed", "serve", "serving"} => host.kind = "server"
    /\ host.pc \in {"connect", "list", "apply", "verify"} => host.kind # "database-status"
    /\ host.pc = "apply" => host.left \subseteq DOMAIN host.plan /\ \A v \in DOMAIN host.plan \ host.left : Recorded(host.plan, rows, v)
    /\ host.pc = "verify" \/ (host.pc \in {"seed", "serve", "serving"} /\ host.config["auto_migrate"]) => Migrated(host, rows)
    /\ host.kind = "database-migrate" /\ host.pc # "done" => host.report = None

HostsHold ==
    /\ {"db", "hosts"} \subseteq DOMAIN disk /\ DOMAIN disk.db = DatabaseFields /\ DOMAIN disk.hosts = Hosts
    /\ \A h \in Hosts : HostHolds(disk.hosts[h], disk.db.rows)

\* What a step may do to a database.
Grows(old, new) == \A v \in DOMAIN old : v \in DOMAIN new /\ new[v] = old[v]
Migrates(host, next, db, new) ==
    /\ Grows(db.rows, new.rows)
    /\ \A v \in DOMAIN new.rows \ DOMAIN db.rows :
          host.kind # "database-status" /\ Recorded(host.plan, new.rows, v) /\ \A u \in DOMAIN host.plan : u < v => Recorded(host.plan, db.rows, u)
    /\ new.exists # db.exists => host.kind = "server"
    /\ host.kind = "database-migrate" /\ next.report # None =>
          DOMAIN db.rows = DOMAIN host.plan /\ \A v \in DOMAIN db.rows : Recorded(host.plan, db.rows, v)
    /\ next.pc = "serving" /\ host.config["auto_migrate"] => Migrated(host, db.rows)

Untouched == disk'.db = disk.db /\ disk'.hosts = disk.hosts /\ {"db", "hosts"} \subseteq DOMAIN disk'
Moves(h) ==
    \E r, db : /\ disk'.db = db /\ disk'.hosts = [disk.hosts EXCEPT ![h] = r] /\ {"db", "hosts"} \subseteq DOMAIN disk'
               /\ DOMAIN db = DatabaseFields /\ HostHolds(r, db.rows)
               /\ disk.hosts[h].pc # "off" => Migrates(disk.hosts[h], r, disk.db, db)
               /\ Grows(disk.db.rows, db.rows)

\* A row that is recorded stays recorded.
LEMMA StaysRecorded ==
  ASSUME NEW old, NEW new, Grows(old, new), NEW plan, NEW v, Recorded(plan, old, v)
  PROVE  Recorded(plan, new, v)
  BY DEF Grows, Recorded

LEMMA StaysHeld ==
  ASSUME NEW old, NEW new, Grows(old, new), NEW host, HostHolds(host, old)
  PROVE  HostHolds(host, new)
  BY StaysRecorded DEF HostHolds, Migrated

\* What a step of a process comes to, for all of them.
LEMMA MovesHold ==
  ASSUME HostsHold, NEW h \in Hosts, Moves(h)
  PROVE  HostsHold'
  <1>1. PICK r, db : /\ disk'.db = db /\ disk'.hosts = [disk.hosts EXCEPT ![h] = r] /\ {"db", "hosts"} \subseteq DOMAIN disk'
                     /\ DOMAIN db = DatabaseFields /\ HostHolds(r, db.rows) /\ Grows(disk.db.rows, db.rows)
    BY DEF Moves
  <1>2. ASSUME NEW o \in Hosts PROVE HostHolds(disk'.hosts[o], disk'.db.rows)
    <2>1. CASE o = h
      BY <1>1, <2>1 DEF HostsHold
    <2>2. CASE o # h
      <3>1. disk'.hosts[o] = disk.hosts[o] /\ HostHolds(disk.hosts[o], disk.db.rows)
        BY <1>1, <2>2 DEF HostsHold
      <3> QED
        BY <1>1, <3>1, StaysHeld
    <2> QED
      BY <2>1, <2>2
  <1>3. DOMAIN disk'.hosts = Hosts
    BY <1>1 DEF HostsHold
  <1> QED
    BY <1>1, <1>2, <1>3 DEF HostsHold

\* A process that ends, or whose command is done with it.
LEMMA EndedMoves ==
  ASSUME HostsHold, NEW h \in Hosts, disk' = [disk EXCEPT !.hosts[h] = Ended(h)] \/ disk' = [disk EXCEPT !.hosts[h] = Off]
  PROVE  Moves(h)
  <1>1. PICK r : disk' = [disk EXCEPT !.hosts[h] = r] /\ (r = Ended(h) \/ r = Off)
    OBVIOUS
  <1>2. DOMAIN disk.hosts[h] = HostFields /\ {"db", "hosts"} \subseteq DOMAIN disk /\ DOMAIN disk.db = DatabaseFields
    BY DEF HostsHold, HostHolds
  <1>3. DOMAIN r = HostFields /\ r.pc \in {"done", "off"} /\ r.report = None
    <2>1. CASE r = Ended(h)
      BY <1>2, <2>1 DEF Ended, HostFields
    <2>2. CASE r = Off
      BY <2>2 DEF Off, HostFields
    <2> QED
      BY <1>1, <2>1, <2>2
  <1>4. HostHolds(r, disk.db.rows)
    BY <1>3 DEF HostHolds
  <1>5. Migrates(disk.hosts[h], r, disk.db, disk.db)
    BY <1>3 DEF Migrates, Grows
  <1>6. disk'.db = disk.db /\ disk'.hosts = [disk.hosts EXCEPT ![h] = r] /\ DOMAIN disk' = DOMAIN disk
    BY <1>1, <1>2
  <1> QED
    BY <1>2, <1>4, <1>5, <1>6 DEF Moves, Grows

\* A process that goes on and leaves the database alone.
LEMMA GoesMoves ==
  ASSUME HostsHold, NEW h \in Hosts, NEW r, Go(h, r), HostHolds(r, disk.db.rows), disk.hosts[h].kind = "database-migrate" => r.report = None,
         r.pc = "serving" /\ disk.hosts[h].config["auto_migrate"] => Migrated(disk.hosts[h], disk.db.rows)
  PROVE  Moves(h)
  <1>1. {"db", "hosts"} \subseteq DOMAIN disk /\ DOMAIN disk.db = DatabaseFields
    BY DEF HostsHold
  <1>2. disk'.db = disk.db /\ disk'.hosts = [disk.hosts EXCEPT ![h] = r] /\ DOMAIN disk' = DOMAIN disk
    BY <1>1 DEF Go
  <1>3. Migrates(disk.hosts[h], r, disk.db, disk.db)
    BY DEF Migrates, Grows
  <1> QED
    BY <1>1, <1>2, <1>3 DEF Moves, Grows

\* One that changes it.
LEMMA ChangesMoves ==
  ASSUME HostsHold, NEW h \in Hosts, NEW r, NEW db, Change(h, r, db), DOMAIN db = DatabaseFields, HostHolds(r, db.rows),
         Migrates(disk.hosts[h], r, disk.db, db)
  PROVE  Moves(h)
  <1>1. {"db", "hosts"} \subseteq DOMAIN disk
    BY DEF HostsHold
  <1>2. disk'.db = db /\ disk'.hosts = [disk.hosts EXCEPT ![h] = r] /\ DOMAIN disk' = DOMAIN disk
    BY <1>1 DEF Change
  <1> QED
    BY <1>1, <1>2 DEF Moves, Migrates

\* What a process is, and what it is with another place in the program.
LEMMA HostAt ==
  ASSUME HostsHold, NEW h \in Hosts
  PROVE  /\ DOMAIN disk.hosts[h] = HostFields /\ HostHolds(disk.hosts[h], disk.db.rows)
         /\ DOMAIN disk.db = DatabaseFields
         /\ \A pc : /\ DOMAIN To(h, pc) = HostFields /\ To(h, pc).pc = pc
                    /\ \A f \in HostFields : f # "pc" => To(h, pc)[f] = disk.hosts[h][f]
  BY DEF HostsHold, HostHolds, To, HostFields

LEMMA LoadForCommandMoves ==
  ASSUME HostsHold, NEW h \in Hosts, LoadForCommand(h)
  PROVE  Moves(h)
  <1> DEFINE host == disk.hosts[h]
             config == Load(TreeOf(host.root), host.profile)
             r == [host EXCEPT !.pc = "status", !.config = config, !.plan = HostPlan(host.sources)]
  <1>1. CASE Go(h, Ended(h))
    BY <1>1, EndedMoves DEF Go
  <1>2. CASE Go(h, r)
    <2>1. HostHolds(host, disk.db.rows) /\ host.pc = "load" /\ host.kind \in DatabaseIntents
      BY HostAt DEF LoadForCommand, At
    <2>2. DOMAIN r = HostFields /\ r.pc = "status" /\ r.kind = host.kind /\ r.report = host.report
      BY <2>1 DEF HostHolds, HostFields
    <2>3. host.kind = "database-migrate" => host.report = None
      BY <2>1 DEF HostHolds
    <2> HIDE DEF r
    <2>4. HostHolds(r, disk.db.rows)
      BY <2>1, <2>2, <2>3 DEF HostHolds
    <2> QED
      BY <1>2, <2>2, <2>3, <2>4, GoesMoves
  <1> QED
    BY <1>1, <1>2 DEF LoadForCommand

LEMMA LoadForServerMoves ==
  ASSUME HostsHold, NEW h \in Hosts, LoadForServer(h)
  PROVE  Moves(h)
  <1> DEFINE host == disk.hosts[h]
             config == Load(TreeOf(host.root), host.profile)
             r == [host EXCEPT !.pc = "open", !.config = config, !.plan = IF config["auto_migrate"] THEN HostPlan(host.sources) ELSE None]
  <1>1. CASE Go(h, Ended(h))
    BY <1>1, EndedMoves DEF Go
  <1>2. CASE Go(h, r)
    <2>1. HostHolds(host, disk.db.rows) /\ host.pc = "load" /\ host.kind = "server"
      BY HostAt DEF LoadForServer, At
    <2>2. DOMAIN r = HostFields /\ r.pc = "open" /\ r.kind = "server"
      BY <2>1 DEF HostHolds, HostFields
    <2> HIDE DEF r
    <2>3. HostHolds(r, disk.db.rows)
      BY <2>2 DEF HostHolds
    <2> QED
      BY <1>2, <2>1, <2>2, <2>3, GoesMoves
  <1> QED
    BY <1>1, <1>2 DEF LoadForServer

\* The history that a migration reports is the plan's: all of it is recorded, and nothing else.
LEMMA ReadStatusMoves ==
  ASSUME HostsHold, NEW h \in Hosts, ReadStatus(h)
  PROVE  Moves(h)
  <1> DEFINE host == disk.hosts[h]
             entries == CompareHistory(host.plan, disk.db.rows)
             r == [To(h, "done") EXCEPT !.report = StatusReport(h, entries)]
  <1>1. CASE Go(h, Ended(h))
    BY <1>1, EndedMoves DEF Go
  <1>2. CASE Go(h, r) /\ entries # None /\ (host.kind = "database-status" \/ host.pc = "verify")
    <2>1. HostHolds(host, disk.db.rows) /\ {"db", "hosts"} \subseteq DOMAIN disk /\ DOMAIN disk.db = DatabaseFields
      BY HostAt DEF HostsHold
    <2>2. DOMAIN r = HostFields /\ r.pc = "done"
      BY HostAt DEF HostFields
    <2>3. \A v \in DOMAIN disk.db.rows : v \in DOMAIN host.plan /\ disk.db.rows[v].success /\ disk.db.rows[v].checksum = host.plan[v].checksum
      BY <1>2 DEF CompareHistory
    <2> HIDE DEF r, entries
    <2>4. HostHolds(r, disk.db.rows)
      BY <2>2 DEF HostHolds
    <2>5. ASSUME host.kind = "database-migrate"
          PROVE  DOMAIN disk.db.rows = DOMAIN host.plan /\ \A v \in DOMAIN disk.db.rows : Recorded(host.plan, disk.db.rows, v)
      <3>1. Migrated(host, disk.db.rows)
        BY <1>2, <2>1, <2>5 DEF HostHolds
      <3> QED
        BY <2>3, <3>1 DEF Migrated, Recorded
    <2>6. Migrates(host, r, disk.db, disk.db)
      BY <2>2, <2>5 DEF Migrates, Grows
    <2>7. disk'.db = disk.db /\ disk'.hosts = [disk.hosts EXCEPT ![h] = r] /\ DOMAIN disk' = DOMAIN disk
      BY <1>2, <2>1 DEF Go
    <2> QED
      BY <2>1, <2>4, <2>6, <2>7 DEF Moves, Grows
  <1>3. CASE Go(h, To(h, "connect")) /\ host.pc = "status" /\ host.kind # "database-status"
    <2>1. HostHolds(host, disk.db.rows) /\ DOMAIN To(h, "connect") = HostFields /\ To(h, "connect").pc = "connect"
          /\ To(h, "connect").kind = host.kind /\ To(h, "connect").report = host.report
      BY HostAt DEF HostFields
    <2>2. host.kind = "database-migrate" => host.report = None
      BY <1>3, <2>1 DEF HostHolds
    <2>3. HostHolds(To(h, "connect"), disk.db.rows)
      BY <1>3, <2>1, <2>2 DEF HostHolds
    <2> QED
      BY <1>3, <2>1, <2>2, <2>3, GoesMoves
  <1>4. \/ Go(h, Ended(h))
        \/ Go(h, r) /\ entries # None /\ (host.kind = "database-status" \/ host.pc = "verify")
        \/ Go(h, To(h, "connect")) /\ host.pc = "status" /\ host.kind # "database-status"
    BY DEF ReadStatus, At
  <1> QED
    BY <1>1, <1>2, <1>3, <1>4

LEMMA ConnectMoves ==
  ASSUME HostsHold, NEW h \in Hosts, ConnectExisting(h)
  PROVE  Moves(h)
  <1> DEFINE host == disk.hosts[h]
  <1>1. CASE Go(h, Ended(h))
    BY <1>1, EndedMoves DEF Go
  <1>2. CASE Go(h, To(h, "list"))
    <2>1. HostHolds(host, disk.db.rows) /\ DOMAIN To(h, "list") = HostFields /\ To(h, "list").pc = "list"
          /\ To(h, "list").kind = host.kind /\ To(h, "list").report = host.report /\ host.pc = "connect"
      BY HostAt DEF HostFields, ConnectExisting, At
    <2>2. host.kind # "database-status" /\ (host.kind = "database-migrate" => host.report = None)
      BY <2>1 DEF HostHolds
    <2>3. HostHolds(To(h, "list"), disk.db.rows)
      BY <2>1, <2>2 DEF HostHolds
    <2> QED
      BY <1>2, <2>1, <2>2, <2>3, GoesMoves
  <1> QED
    BY <1>1, <1>2 DEF ConnectExisting

\* Only a server makes a database.
LEMMA OpenMoves ==
  ASSUME HostsHold, NEW h \in Hosts, OpenDatabase(h)
  PROVE  Moves(h)
  <1> DEFINE host == disk.hosts[h]
             c == host.config
             db == Connected(disk.db, c)
             pc == IF c["auto_migrate"] THEN "list" ELSE "seed"
  <1>1. CASE Go(h, Ended(h))
    BY <1>1, EndedMoves DEF Go
  <1>2. CASE Change(h, To(h, pc), db) /\ db # None
    <2>1. /\ HostHolds(host, disk.db.rows) /\ DOMAIN To(h, pc) = HostFields /\ To(h, pc).pc = pc /\ To(h, pc).kind = host.kind
          /\ To(h, pc).config = c /\ host.pc = "open" /\ DOMAIN disk.db = DatabaseFields
      BY HostAt DEF HostFields, OpenDatabase, At
    <2>2. host.kind = "server"
      BY <2>1 DEF HostHolds
    <2>3. db = [disk.db EXCEPT !.exists = TRUE]
      BY <1>2 DEF Connected
    <2>4. DOMAIN db = DatabaseFields /\ db.rows = disk.db.rows
      BY <2>1, <2>3 DEF DatabaseFields
    <2> HIDE DEF db
    <2>5. HostHolds(To(h, pc), db.rows)
      BY <2>1, <2>2 DEF HostHolds
    <2>6. Migrates(host, To(h, pc), disk.db, db)
      BY <2>1, <2>2, <2>4 DEF Migrates, Grows
    <2> QED
      BY <1>2, <2>4, <2>5, <2>6, ChangesMoves
  <1> QED
    BY <1>1, <1>2 DEF OpenDatabase

\* What is not left to be applied is recorded.
LEMMA ListMoves ==
  ASSUME HostsHold, NEW h \in Hosts, ListApplied(h)
  PROVE  Moves(h)
  <1> DEFINE host == disk.hosts[h]
             rows == disk.db.rows
             open == {v \in DOMAIN host.plan : v \notin DOMAIN rows \/ rows[v].checksum # host.plan[v].checksum}
             db == [disk.db EXCEPT !.table = TRUE]
             next == [host EXCEPT !.pc = "apply", !.left = open]
  <1>1. HostHolds(host, rows) /\ DOMAIN host = HostFields /\ host.pc = "list" /\ DOMAIN disk.db = DatabaseFields
    BY HostAt DEF ListApplied, At
  <1>2. DOMAIN db = DatabaseFields /\ db.rows = rows /\ db.exists = disk.db.exists
    BY <1>1 DEF DatabaseFields
  <1>3. host.kind # "database-status" /\ (host.kind = "database-migrate" => host.report = None)
    BY <1>1 DEF HostHolds
  <1>4. CASE Change(h, Ended(h), db)
    <2>1. DOMAIN Ended(h) = HostFields /\ Ended(h).pc = "done" /\ Ended(h).report = None
      BY <1>1 DEF Ended, HostFields
    <2>2. HostHolds(Ended(h), rows)
      BY <2>1 DEF HostHolds
    <2> HIDE DEF db
    <2>3. Migrates(host, Ended(h), disk.db, db)
      BY <1>2, <2>1 DEF Migrates, Grows
    <2> QED
      BY <1>2, <1>4, <2>2, <2>3, ChangesMoves
  <1>5. CASE Change(h, next, db) /\ \A v \in DOMAIN rows : rows[v].success /\ v \in DOMAIN host.plan
    <2>1. DOMAIN next = HostFields /\ next.pc = "apply" /\ next.kind = host.kind /\ next.report = host.report /\ next.plan = host.plan /\ next.left = open
      BY <1>1 DEF HostFields
    <2>2. \A v \in DOMAIN host.plan \ open : Recorded(host.plan, rows, v)
      BY <1>5 DEF Recorded
    <2> HIDE DEF db, next
    <2>3. HostHolds(next, rows)
      BY <1>3, <2>1, <2>2 DEF HostHolds
    <2>4. Migrates(host, next, disk.db, db)
      BY <1>2, <1>3, <2>1 DEF Migrates, Grows
    <2> QED
      BY <1>2, <1>5, <2>3, <2>4, ChangesMoves
  <1> QED
    BY <1>4, <1>5 DEF ListApplied

\* A migration is applied over those before it: they are not left any more, and so they are recorded.
LEMMA ApplyMoves ==
  ASSUME HostsHold, NEW h \in Hosts, ApplyMigration(h)
  PROVE  Moves(h)
  <1> DEFINE host == disk.hosts[h]
             rows == disk.db.rows
  <1>1. HostHolds(host, rows) /\ DOMAIN host = HostFields /\ host.pc = "apply" /\ DOMAIN disk.db = DatabaseFields
    BY HostAt DEF ApplyMigration, At
  <1>2. /\ host.kind # "database-status" /\ (host.kind = "database-migrate" => host.report = None)
        /\ host.left \subseteq DOMAIN host.plan /\ \A v \in DOMAIN host.plan \ host.left : Recorded(host.plan, rows, v)
    BY <1>1 DEF HostHolds
  <1>3. CASE Go(h, Ended(h))
    BY <1>3, EndedMoves DEF Go
  <1>4. ASSUME NEW v \in host.left, \A u \in host.left : ~(u < v), v \notin DOMAIN rows,
               Change(h, [host EXCEPT !.left = @ \ {v}],
                      [disk.db EXCEPT !.rows = WithRow(@, v, [success |-> TRUE, checksum |-> host.plan[v].checksum])])
        PROVE  Moves(h)
    <2> DEFINE new == WithRow(rows, v, [success |-> TRUE, checksum |-> host.plan[v].checksum])
               next == [host EXCEPT !.left = @ \ {v}]
               db == [disk.db EXCEPT !.rows = new]
    <2>1. DOMAIN next = HostFields /\ next.pc = "apply" /\ next.kind = host.kind /\ next.report = host.report /\ next.plan = host.plan /\ next.left = host.left \ {v}
      BY <1>1 DEF HostFields
    <2>2. DOMAIN db = DatabaseFields /\ db.rows = new /\ db.exists = disk.db.exists
      BY <1>1 DEF DatabaseFields
    <2>3. DOMAIN new = DOMAIN rows \cup {v} /\ new[v].success /\ new[v].checksum = host.plan[v].checksum
          /\ \A u \in DOMAIN rows : new[u] = rows[u]
      BY <1>4 DEF WithRow
    <2>4. Recorded(host.plan, new, v)
      BY <2>3 DEF Recorded
    <2>5. Change(h, next, db)
      BY <1>4, <1>1
    <2> HIDE DEF new, next, db
    <2>6. Grows(rows, new)
      BY <2>3 DEF Grows
    <2>7. \A u \in DOMAIN host.plan \ next.left : Recorded(host.plan, new, u)
      BY <1>2, <2>1, <2>4, <2>6, StaysRecorded
    <2>8. HostHolds(next, new)
      BY <1>2, <2>1, <2>7 DEF HostHolds
    <2>9. \A u \in DOMAIN host.plan : u < v => Recorded(host.plan, rows, u)
      BY <1>2, <1>4
    <2>10. Migrates(host, next, disk.db, db)
      BY <1>2, <2>1, <2>2, <2>3, <2>4, <2>6, <2>9 DEF Migrates
    <2> QED
      BY <2>2, <2>5, <2>8, <2>10, ChangesMoves
  <1> QED
    BY <1>3, <1>4 DEF ApplyMigration

\* With none left the whole plan is recorded.
LEMMA EndMigrationsMoves ==
  ASSUME HostsHold, NEW h \in Hosts, EndMigrations(h)
  PROVE  Moves(h)
  <1> DEFINE host == disk.hosts[h]
             pc == IF host.kind = "server" THEN "seed" ELSE "verify"
  <1>1. /\ HostHolds(host, disk.db.rows) /\ host.pc = "apply" /\ host.left = {} /\ Go(h, To(h, pc))
        /\ DOMAIN To(h, pc) = HostFields /\ To(h, pc).pc = pc /\ To(h, pc).kind = host.kind /\ To(h, pc).report = host.report
        /\ To(h, pc).plan = host.plan
    BY HostAt DEF HostFields, EndMigrations, At
  <1>2. host.kind # "database-status" /\ (host.kind = "database-migrate" => host.report = None) /\ Migrated(host, disk.db.rows)
    BY <1>1 DEF HostHolds, Migrated
  <1>3. HostHolds(To(h, pc), disk.db.rows)
    BY <1>1, <1>2 DEF HostHolds, Migrated
  <1> QED
    BY <1>1, <1>2, <1>3, GoesMoves

\* A server goes on over what it has migrated.
LEMMA OnwardHolds ==
  ASSUME HostsHold, NEW h \in Hosts, NEW r, DOMAIN r = HostFields, disk.hosts[h].pc \in {"seed", "serve"}, r.pc \in {"serve", "serving"},
         r.kind = disk.hosts[h].kind, r.config = disk.hosts[h].config, r.plan = disk.hosts[h].plan
  PROVE  /\ HostHolds(r, disk.db.rows) /\ disk.hosts[h].kind = "server"
         /\ disk.hosts[h].config["auto_migrate"] => Migrated(disk.hosts[h], disk.db.rows)
  <1>1. HostHolds(disk.hosts[h], disk.db.rows)
    BY HostAt
  <1> QED
    BY <1>1 DEF HostHolds, Migrated

LEMMA SeedMoves ==
  ASSUME HostsHold, NEW h \in Hosts, SeedIdentity(h)
  PROVE  Moves(h)
  <1> DEFINE host == disk.hosts[h]
             r == To(h, "serve")
             seeds == [disk.db EXCEPT !.seeded = @ \cup {IF host.config["seed_admin"] THEN "admin" ELSE "roles"}]
  <1>1. host.pc = "seed" /\ DOMAIN r = HostFields /\ r.pc = "serve" /\ r.kind = host.kind /\ r.config = host.config /\ r.plan = host.plan
        /\ DOMAIN disk.db = DatabaseFields
    BY HostAt DEF HostFields, SeedIdentity, At
  <1>2. HostHolds(r, disk.db.rows) /\ host.kind = "server"
    BY <1>1, OnwardHolds
  <1>3. CASE Go(h, Ended(h))
    BY <1>3, EndedMoves DEF Go
  <1>4. CASE Go(h, r)
    BY <1>1, <1>2, <1>4, GoesMoves
  <1>5. CASE Change(h, r, seeds)
    <2>1. DOMAIN seeds = DatabaseFields /\ seeds.rows = disk.db.rows /\ seeds.exists = disk.db.exists
      BY <1>1 DEF DatabaseFields
    <2> HIDE DEF seeds
    <2>2. Migrates(host, r, disk.db, seeds)
      BY <1>1, <1>2, <2>1 DEF Migrates, Grows
    <2> QED
      BY <1>2, <1>5, <2>1, <2>2, ChangesMoves
  <1> QED
    BY <1>3, <1>4, <1>5 DEF SeedIdentity

LEMMA ServeMoves ==
  ASSUME HostsHold, NEW h \in Hosts, Serve(h)
  PROVE  Moves(h)
  <1> DEFINE host == disk.hosts[h]
             r == [To(h, "serving") EXCEPT !.workers = ActiveWorkers(host.config)]
  <1>1. host.pc = "serve" /\ DOMAIN r = HostFields /\ r.pc = "serving" /\ r.kind = host.kind /\ r.config = host.config /\ r.plan = host.plan
    BY HostAt DEF HostFields, Serve, At
  <1>2. CASE Go(h, Ended(h))
    BY <1>2, EndedMoves DEF Go
  <1>3. CASE Go(h, r)
    <2> HIDE DEF r
    <2>1. HostHolds(r, disk.db.rows) /\ host.kind = "server" /\ (host.config["auto_migrate"] => Migrated(host, disk.db.rows))
      BY <1>1, OnwardHolds
    <2> QED
      BY <1>3, <2>1, GoesMoves
  <1> QED
    BY <1>2, <1>3 DEF Serve

LEMMA LoseMoves ==
  ASSUME HostsHold, NEW h \in Hosts, LoseHost(h)
  PROVE  Moves(h)
  BY EndedMoves DEF LoseHost, Go

\* What reads, or writes elsewhere.
LEMMA ReadsUntouched ==
  ASSUME HostsHold, NEW c
  PROVE  /\ UNCHANGED disk => Untouched
         /\ \A status : Stop(c, status) => Untouched
         /\ \A r : Read(c, r) => Untouched
         /\ \A report : Reports(c, report) => Untouched
         /\ \A outcome : Finishing(c, outcome) => Untouched
  BY DEF HostsHold, Untouched, Stop, Read, Reports, Finishing

LEMMA ChangesUntouched ==
  ASSUME HostsHold
  PROVE  /\ \A x : disk' = [disk EXCEPT !.files = x] => Untouched
         /\ \A p, x : disk' = [disk EXCEPT !.files[p] = x] => Untouched
         /\ \A p, x, q, y : disk' = [disk EXCEPT !.files[p] = x, !.files[q] = y] => Untouched
         /\ \A x : disk' = [disk EXCEPT !.marker = TRUE, !.files = x] => Untouched
         /\ \A n, x : disk' = [disk EXCEPT !.tools[n] = x] => Untouched
         /\ \A c, x : disk' = [disk EXCEPT !.staged[c] = x] => Untouched
         /\ disk' = [disk EXCEPT !.outer = ~@] => Untouched
         /\ disk' = [disk EXCEPT !.owned = ~@] => Untouched
         /\ disk' = [disk EXCEPT !.marker = FALSE] => Untouched
  BY DEF HostsHold, Untouched

LEMMA PublishUntouched ==
  ASSUME HostsHold, NEW c \in Clis, Publish(c)
  PROVE  Untouched
  BY ReadsUntouched, ChangesUntouched DEF Publish

\* The commands that change an application, and those that look at it.
LEMMA ChangersUntouched ==
  ASSUME HostsHold, NEW c \in Clis, Start(c) \/ UpgradeStep(c) \/ AddStep(c) \/ GenerateStep(c) \/ InspectStep(c)
  PROVE  Untouched
  <1>1. CASE Start(c)
    BY <1>1, ReadsUntouched DEF Start
  <1>2. CASE UpgradeStep(c)
    <2>1. CASE Observe(c) \/ CheckRecovery(c) \/ OpenSource(c) \/ Reobserve(c) \/ Recheck(c)
      BY <2>1, ReadsUntouched DEF Observe, ObserveAs, CheckRecovery, OpenSource, Refuse, Reobserve, Recheck
    <2>2. CASE ReadManaged(c)
      BY <2>2, ReadsUntouched DEF ReadManaged, Refuse
    <2>3. CASE Seal(c)
      BY <2>3, ReadsUntouched DEF Seal, SealAssessment, SealPlan, Refuse
    <2> QED
      BY <1>2, <2>1, <2>2, <2>3 DEF UpgradeStep
  <1>3. CASE AddStep(c)
    BY <1>3, ReadsUntouched DEF AddStep, ObserveForAdd, AdmitAdd, PlanAdd, Propose
  <1>4. CASE GenerateStep(c)
    <2>1. CASE ObserveForGeneration(c)
      BY <2>1, ReadsUntouched DEF ObserveForGeneration, AdmitGeneration
    <2>2. CASE ReadSources(c)
      BY <2>2, ReadsUntouched DEF ReadSources, AdmitResource
    <2>3. CASE PlanGeneration(c)
      BY <2>3, ReadsUntouched DEF PlanGeneration, Propose
    <2> QED
      BY <1>4, <2>1, <2>2, <2>3 DEF GenerateStep
  <1>5. CASE InspectStep(c)
    <2>1. CASE Inspect(c) \/ ObserveForDoctor(c) \/ PlanDiagnosis(c)
      BY <2>1, ReadsUntouched DEF Inspect, ObserveForDoctor, PlanDiagnosis
    <2>2. CASE LockDiagnosis(c)
      BY <2>2, ReadsUntouched DEF LockDiagnosis
    <2>3. CASE Diagnose(c)
      BY <2>3, ReadsUntouched DEF Diagnose
    <2>4. CASE PlanMeasurement(c) \/ Measure(c)
      BY <2>4, ReadsUntouched DEF PlanMeasurement, Measure, StopUnless
    <2> QED
      BY <1>5, <2>1, <2>2, <2>3, <2>4 DEF InspectStep
  <1> QED
    BY <1>1, <1>2, <1>3, <1>4, <1>5

\* A command that creates an application works in directories of its own.
LEMMA NewUntouched ==
  ASSUME HostsHold, NEW c \in Clis, NewStep(c)
  PROVE  Untouched
  <1>1. CASE ResolveNewCommand(c) \/ Cancel(c) \/ ResolveName(c) \/ ResolveDestination(c) \/ ResolveChoices(c) \/ Confirm(c)
    BY <1>1, ReadsUntouched DEF ResolveNewCommand, Cancel, ResolveName, Asked, ResolveDestination, ResolveChoices, Confirm
  <1>2. CASE CreateApplication(c) \/ Render(c)
    BY <1>2, ReadsUntouched DEF CreateApplication, Render, PlanRendering
  <1>3. /\ \A kind : Abandon(c, kind) => Untouched
        /\ \A paths : disk' = Staged(c, paths) => Untouched
        /\ disk' = Renamed(c) => Untouched
    <2>1. \A kind : Abandon(c, kind) => Untouched
      BY DEF Abandon, Dropped, HostsHold, Untouched
    <2>2. \A paths : disk' = Staged(c, paths) => Untouched
      BY DEF Staged, HostsHold, Untouched
    <2>3. disk' = Renamed(c) => Untouched
      BY DEF Renamed, HostsHold, Untouched
    <2> QED
      BY <2>1, <2>2, <2>3
  <1>4. CASE OpenStaging(c)
    <2>1. (\E status : Stop(c, status)) \/ disk' = [disk EXCEPT !.staged[c] = [files |-> << >>, mine |-> TRUE]]
      BY <1>4 DEF OpenStaging
    <2>2. disk' = [disk EXCEPT !.staged[c] = [files |-> << >>, mine |-> TRUE]] => Untouched
      BY ChangesUntouched
    <2> QED
      BY <2>1, <2>2, ReadsUntouched
  <1>5. CASE WriteFiles(c) \/ KillRendering(c)
    BY <1>3, <1>5, ReadsUntouched DEF WriteFiles, KillRendering
  <1>6. CASE VerifyStaging(c) \/ RenameStaging(c)
    BY <1>3, <1>6, ReadsUntouched DEF VerifyStaging, RenameStaging
  <1> QED
    BY <1>1, <1>2, <1>4, <1>5, <1>6 DEF NewStep

LEMMA OwnerUntouched ==
  ASSUME HostsHold, OwnerStep
  PROVE  Untouched
  <1>1. CASE OwnerMovesDestination
    <2>1. CASE OwnerTakesPlace
      BY <2>1 DEF OwnerTakesPlace, Owner, HostsHold, Untouched
    <2>2. CASE OwnerReplacesParent
      BY <2>2 DEF OwnerReplacesParent, Owner, HostsHold, Untouched
    <2>3. CASE OwnerReplacesStaging
      <3>1. PICK c \in Clis : disk' = [disk EXCEPT !.staged[c] = [files |-> << >>, mine |-> FALSE]]
        BY <2>3 DEF OwnerReplacesStaging, Owner
      <3> QED
        BY <3>1, ChangesUntouched
    <2> QED
      BY <1>1, <2>1, <2>2, <2>3 DEF OwnerMovesDestination
  <1>2. CASE OwnerEdits \/ OwnerReplacesRoot \/ OwnerReplacesTool
    <2>1. CASE OwnerEdits
      BY <2>1, ChangesUntouched DEF OwnerEdits, Owner
    <2>2. CASE OwnerReplacesRoot
      BY <2>2 DEF OwnerReplacesRoot, Owner, HostsHold, Untouched
    <2>3. CASE OwnerReplacesTool
      BY <2>3, ChangesUntouched DEF OwnerReplacesTool, Owner
    <2> QED
      BY <1>2, <2>1, <2>2, <2>3
  <1>3. CASE OwnerMovesRoots \/ OwnerRecovers
    BY <1>3, ChangesUntouched DEF OwnerMovesRoots, OwnerRecovers, Owner
  <1> QED
    BY <1>1, <1>2, <1>3 DEF OwnerStep

\* An operation starts its database command, and ends it.
LEMMA OperationTouches ==
  ASSUME HostsHold, NEW c \in Clis, OperateStep(c)
  PROVE  Untouched \/ Moves(c)
  <1>1. CASE ObserveForOperation(c) \/ AnchorOperation(c) \/ Consent(c) \/ LockApplication(c) \/ Reauthenticate(c)
    BY <1>1, ReadsUntouched DEF ObserveForOperation, AnchorOperation, Consent, LockApplication, Reauthenticate, StopUnless, Goto
  <1>2. CASE Interrupt(c)
    BY <1>2, ReadsUntouched DEF Interrupt
  <1>3. CASE PrepareSession(c)
    BY <1>3, ReadsUntouched DEF PrepareSession
  <1>4. CASE PrepareOutputs(c)
    BY <1>4, ReadsUntouched, ChangesUntouched DEF PrepareOutputs, Goto
  <1>5. CASE CheckStep(c) \/ CompleteOutputs(c) \/ EndOperation(c)
    BY <1>5, ReadsUntouched DEF CheckStep, FinishUnless, Goto, CompleteOutputs, EndOperation
  <1>6. CASE RunTool(c)
    <2>1. disk' = disk \/ disk' \in Builds(disk, cmd[c].op.plan)
      BY <1>6 DEF RunTool
    <2>2. disk' \in Builds(disk, cmd[c].op.plan) => Untouched
      BY ChangesUntouched DEF Builds
    <2> QED
      BY <2>1, <2>2, ReadsUntouched
  <1>7. CASE RunDatabase(c)
    <2> DEFINE plan == cmd[c].op.plan
               started == Process(plan.intent.kind, plan.root, plan.intent.profile, Sources(TreeOf(plan.root)), {"db-" \o plan.provider})
    <2>1. (\E outcome : Finishing(c, outcome)) \/ Go(c, started)
      BY <1>7 DEF RunDatabase
    <2>2. CASE Go(c, started)
      <3>1. DOMAIN started = HostFields /\ started.pc = "load" /\ started.report = None
        BY DEF Process, Off, HostFields
      <3> HIDE DEF started
      <3>2. HostHolds(started, disk.db.rows)
        BY <3>1 DEF HostHolds
      <3> QED
        BY <2>2, <3>1, <3>2, GoesMoves DEF Hosts
    <2> QED
      BY <2>1, <2>2, ReadsUntouched
  <1>8. CASE EndDatabase(c)
    BY <1>8, EndedMoves DEF EndDatabase, Hosts
  <1> QED
    BY <1>1, <1>2, <1>3, <1>4, <1>5, <1>6, <1>7, <1>8 DEF OperateStep

\* A process of the application: it goes on, or a server is started.
LEMMA HostTouches ==
  ASSUME HostsHold, HostStep
  PROVE  \E h \in Hosts : Moves(h)
  <1>1. CASE \E s \in Servers : StartServer(s)
    <2>1. PICK s \in Servers : StartServer(s)
      BY <1>1
    <2>2. PICK x \in Starts[pkg] : Owner([disk EXCEPT !.hosts[s] = Process("server", disk.root, x.profile, x.sources, x.features)])
      BY <2>1 DEF StartServer
    <2> DEFINE started == Process("server", disk.root, x.profile, x.sources, x.features)
    <2>3. DOMAIN started = HostFields /\ started.pc = "load" /\ started.report = None
      BY DEF Process, Off, HostFields
    <2>4. disk' = [disk EXCEPT !.hosts[s] = started]
      BY <2>2 DEF Owner
    <2> HIDE DEF started
    <2>5. HostHolds(started, disk.db.rows)
      BY <2>3 DEF HostHolds
    <2>6. {"db", "hosts"} \subseteq DOMAIN disk /\ DOMAIN disk.db = DatabaseFields
      BY DEF HostsHold
    <2>7. disk'.db = disk.db /\ disk'.hosts = [disk.hosts EXCEPT ![s] = started] /\ DOMAIN disk' = DOMAIN disk
      BY <2>4, <2>6
    <2>8. Migrates(disk.hosts[s], started, disk.db, disk.db)
      BY <2>3 DEF Migrates, Grows
    <2>9. Moves(s)
      BY <2>5, <2>6, <2>7, <2>8 DEF Moves, Grows
    <2> QED
      BY <2>9 DEF Hosts
  <1>2. ASSUME NEW h \in Hosts,
               \/ LoadForCommand(h) \/ ReadStatus(h) \/ ConnectExisting(h) \/ LoadForServer(h) \/ OpenDatabase(h) \/ ListApplied(h)
               \/ ApplyMigration(h) \/ EndMigrations(h) \/ SeedIdentity(h) \/ Serve(h) \/ LoseHost(h)
        PROVE  Moves(h)
    BY <1>2, LoadForCommandMoves, ReadStatusMoves, ConnectMoves, LoadForServerMoves, OpenMoves, ListMoves, ApplyMoves, EndMigrationsMoves,
       SeedMoves, ServeMoves, LoseMoves
  <1> QED
    BY <1>1, <1>2 DEF HostStep

LEMMA InitHosts == Init => HostsHold
  <1> SUFFICES ASSUME Init PROVE HostsHold
    OBVIOUS
  <1>1. PICK s \in Setups : \E db \in Stores[s[1]] : disk.db = db /\ {"db", "hosts"} \subseteq DOMAIN disk /\ disk.hosts = [h \in Hosts |-> Off]
    BY DEF Init
  <1>2. {"db", "hosts"} \subseteq DOMAIN disk /\ disk.db \in Stores[s[1]] /\ disk.hosts = [h \in Hosts |-> Off]
    BY <1>1
  <1>3. DOMAIN disk.db = DatabaseFields
    BY <1>2, StoresHoldDatabases DEF DatabaseFields
  <1>4. DOMAIN Off = HostFields /\ Off.pc = "off" /\ Off.report = None
    BY DEF Off, HostFields
  <1>5. HostHolds(Off, disk.db.rows)
    BY <1>4 DEF HostHolds
  <1> QED
    BY <1>2, <1>3, <1>5 DEF HostsHold

\* Every step leaves the database alone, or is a step of one process.
LEMMA NextTouches ==
  ASSUME HostsHold, [Next]_vars
  PROVE  Untouched \/ \E h \in Hosts : Moves(h)
  <1>1. CASE UNCHANGED vars
    BY <1>1, ReadsUntouched DEF vars
  <1>2. CASE OwnerStep \/ HostStep
    BY <1>2, OwnerUntouched, HostTouches
  <1>3. ASSUME NEW c \in Clis,
               Start(c) \/ NewStep(c) \/ UpgradeStep(c) \/ AddStep(c) \/ GenerateStep(c) \/ OperateStep(c) \/ InspectStep(c) \/ Publish(c)
        PROVE  Untouched \/ Moves(c)
    BY <1>3, ChangersUntouched, NewUntouched, OperationTouches, PublishUntouched
  <1> QED
    BY <1>1, <1>2, <1>3 DEF Next, Hosts

LEMMA NextHosts ==
  ASSUME HostsHold, [Next]_vars
  PROVE  HostsHold'
  <1>1. Untouched => HostsHold'
    BY DEF Untouched, HostsHold
  <1> QED
    BY <1>1, NextTouches, MovesHold

LEMMA AlwaysHosts == Spec => []HostsHold
  BY InitHosts, NextHosts, PTL DEF Spec

\* One history, whoever migrates: rows stay as they are, a migration is applied over all that come before
\* it in the plan of the process that applies it, a command that reports its migrations applied has the
\* whole of its plan in the database and nothing else, a server that migrates serves only over the whole
\* of its plan, and a database command makes no database.  For any number of processes of any releases,
\* with PostgreSQL's lock or, on SQLite, without one (database_operations.rs, operations.rs, persistence:
\* migrations).
THEOREM HistoryIsOne == Spec => MigrationsHold
  <1>1. ASSUME HostsHold, [Next]_vars, NEW h \in Hosts, ~At(h, "off"), disk'.hosts[h] # disk.hosts[h]
        PROVE  Migrates(disk.hosts[h], disk'.hosts[h], disk.db, disk'.db)
    <2>1. ~Untouched
      BY <1>1 DEF Untouched
    <2>2. PICK o \in Hosts : Moves(o)
      BY <1>1, <2>1, NextTouches
    <2>3. PICK r, db : /\ disk'.db = db /\ disk'.hosts = [disk.hosts EXCEPT ![o] = r]
                       /\ disk.hosts[o].pc # "off" => Migrates(disk.hosts[o], r, disk.db, db)
      BY <2>2 DEF Moves
    <2>4. o = h /\ disk'.hosts[h] = r
      BY <1>1, <2>3 DEF HostsHold
    <2> QED
      BY <1>1, <2>3, <2>4 DEF At
  <1>2. HostsHold /\ [Next]_vars =>
          [\A h \in Hosts : ~At(h, "off") /\ disk'.hosts[h] # disk.hosts[h] =>
              LET host == disk.hosts[h]
                  old == disk.db.rows
                  new == disk'.db.rows
              IN  /\ \A v \in DOMAIN old : v \in DOMAIN new /\ new[v] = old[v]
                  /\ \A v \in DOMAIN new \ DOMAIN old :
                        host.kind # "database-status" /\ Recorded(host.plan, new, v) /\ \A u \in DOMAIN host.plan : u < v => Recorded(host.plan, old, u)
                  /\ disk'.db.exists # disk.db.exists => host.kind = "server"
                  /\ host.kind = "database-migrate" /\ disk'.hosts[h].report # None => DOMAIN old = DOMAIN host.plan /\ \A v \in DOMAIN old : Recorded(host.plan, old, v)
                  /\ disk'.hosts[h].pc = "serving" /\ host.config["auto_migrate"] => \A v \in DOMAIN host.plan : Recorded(host.plan, old, v)]_vars
    BY <1>1 DEF Migrates, Grows, Migrated
  <1> QED
    BY <1>2, AlwaysHosts, PTL DEF Spec, MigrationsHold
=============================================================================
