------------------------------ MODULE Workspace ------------------------------
(***************************************************************************)
(* An application on disk and the commands that run against it             *)
(* (hegira_cli: application_context.rs, upgrade.rs, upgrade/execution.rs;  *)
(* template_renderer: upgrade_authentication.rs).                          *)
(*                                                                         *)
(* Several commands run at a time, and the owner edits files while they    *)
(* do.  A command reads the application in steps; what it publishes in the *)
(* end goes through the publisher, whose contract (Publisher) is the       *)
(* action Publish: one step that applies the whole plan, refuses it,       *)
(* leaves the files as they are, or is cut short behind its marker.        *)
(***************************************************************************)
EXTENDS Upgrade

CONSTANTS Clis,           \* commands that run at the same time, numbered as they start
          Packages,       \* name -> package source, one of them bundled with the command line
          Catalogs,       \* name -> what loading that package gives, None where it fails
          Applications,   \* name -> files of an application, as some release left it
          Setups,         \* the packages and the applications that meet
          Requests,       \* the command lines that are run where a package is bundled: [kind, mode, wanted, explicit]
          Edits,          \* and path -> contents that the owner may put there, None to delete the file
          MaxEvents       \* commands started and changes that the owner makes, together

ASSUME CatalogsAreLoaded == Catalogs = [p \in DOMAIN Packages |-> LoadCatalog(Packages[p])]

VARIABLES pkg,     \* the bundled package
          disk,    \* the application's directory: files; the tools of the machine it is on; whether the publisher's marker is there;
                   \* which directory the path names (root) and what the one before holds (other);
                   \* whether a directory above has a manifest too; whether its parts are directories
          cmd,     \* the commands
          edits    \* how often the owner has changed something

vars == <<pkg, disk, cmd, edits>>

Policy == PolicyFor(BundledRelease)
Bundled == Catalogs[pkg]

Idle == [kind |-> "idle", explicit |-> FALSE, mode |-> None, wanted |-> None, pc |-> "idle", stage |-> None, context |-> None, report |-> None,
         root |-> None, raw |-> None, manifest |-> None, edge |-> None, left |-> << >>, sources |-> << >>, plan |-> None, op |-> None, status |-> None]

(***************************************************************************)
(* Finding the application: None where there is none to find, Conflicting  *)
(* where an outer directory has a manifest too.  A command that names its  *)
(* root does not look further.                                             *)
(***************************************************************************)
Ambiguous(d) == d.files[Manifest] # None /\ d.outer
HasOwnedRoots(d) == d.owned
Loaded(raw, compatibility) ==
    IF compatibility = None THEN None ELSE [manifest |-> FromToml(raw), compatibility |-> compatibility]

Context(d, explicit) ==
    IF ~explicit /\ Ambiguous(d) THEN Conflicting
    ELSE IF HasOwnedRoots(d) /\ d.files[Manifest] # None THEN Loaded(d.files[Manifest], Assess(d.files[Manifest], Policy)) ELSE None

\* A mutation works on an application of this very release.
ForMutation(x) ==
    IF x \in {None, Conflicting} THEN x
    ELSE IF x.compatibility # "compatible" THEN Incompatible
    ELSE IF x.manifest = None THEN Error ELSE x
MutationContext(d, explicit) == ForMutation(Context(d, explicit))

Do(c, r) == cmd' = [cmd EXCEPT ![c] = r] /\ UNCHANGED <<pkg, edits>>
Finish(c, status) == Do(c, [Idle EXCEPT !.kind = cmd[c].kind, !.pc = "done", !.status = status])
Read(c, r) == Do(c, r) /\ UNCHANGED disk
Stop(c, status) == Finish(c, status) /\ UNCHANGED disk

Events == Cardinality({c \in Clis : cmd[c].kind # "idle"}) + edits

\* A command is run, in the application or naming its root.
Start(c) ==
    /\ \A d \in Clis : d < c <=> cmd[d] # Idle
    /\ Events < MaxEvents
    /\ \E q \in Requests[pkg] :
          Read(c, [Idle EXCEPT !.kind = q.kind, !.mode = q.mode, !.wanted = q.wanted, !.explicit = q.explicit,
                               !.pc = "observe", !.stage = "assess"])

(***************************************************************************)
(* hegira upgrade.  "status" assesses, "dry-run" assesses and plans,       *)
(* "apply" publishes the plan as well; both passes read everything anew.   *)
(***************************************************************************)
Assessed(m) == [source |-> ReleaseOf(m), composition |-> m.composition, databases |-> m.databases, clients |-> m.clients]

ObserveAs(c, x, first) ==
    /\ cmd[c].kind = "upgrade" /\ cmd[c].pc = "observe"
    /\ \/ x = None /\ Stop(c, IF first THEN "invalid-input" ELSE "conflict")
       \/ x = Conflicting /\ Stop(c, "conflict")
       \/ /\ x \notin {None, Conflicting}
          /\ first /\ (x.manifest = None \/ x.manifest.composition = None)
          /\ Stop(c, "unsupported")
       \/ /\ x \notin {None, Conflicting}
          /\ first => x.manifest # None /\ x.manifest.composition # None
          /\ Bundled = None /\ Stop(c, "internal-error")
       \/ /\ x \notin {None, Conflicting}
          /\ first => x.manifest # None /\ x.manifest.composition # None
          /\ Bundled # None
          /\ Read(c, [cmd[c] EXCEPT !.pc = "recovery", !.context = x,
                                    !.report = IF first THEN Assessed(x.manifest) ELSE @])
Observe(c) == ObserveAs(c, Context(disk, cmd[c].explicit), cmd[c].stage = "assess")

\* The marker of a publication that has not ended blocks every upgrade.
RecoveryPending == disk.marker

CheckRecovery(c) ==
    LET r == cmd[c]
        m == r.context.manifest
        package == [id |-> Bundled.package.id, version |-> Bundled.package.version]
        current == m.framework = Bundled.package.framework /\ m.composition.package = package
        recorded == [framework |-> m.framework, package |-> m.composition.package, components |-> Sorted(IdsOf(m.composition.components)),
                     modules |-> m.composition.modules, capabilities |-> m.composition.capabilities]
    IN  /\ r.kind = "upgrade" /\ r.pc = "recovery"
        /\ IF RecoveryPending THEN Stop(c, "recovery-blocked")
           ELSE IF r.stage = "prepare" THEN Read(c, [r EXCEPT !.pc = "open"])
           ELSE IF m.framework.repository # Bundled.package.framework.repository THEN Stop(c, "incompatible")
           ELSE IF Cardinality(m.databases) # 1 \/ Cardinality(m.clients) # 1 THEN Stop(c, "incompatible")
           ELSE IF current
                THEN IF r.context.compatibility # "compatible" \/ Resolve(Bundled, recorded) = None THEN Stop(c, "incompatible")
                     ELSE Read(c, [r EXCEPT !.pc = "reobserve", !.status = "no-upgrade"])
           ELSE IF EdgeFrom(Bundled, ReleaseOf(m)) = << >> THEN Stop(c, "unsupported")
           ELSE Read(c, [r EXCEPT !.pc = "open"])

(***************************************************************************)
(* Authenticating the source: the root is opened once, hegira.toml and     *)
(* then every managed file is read through it, and the root is compared    *)
(* with what the path names at the end.                                    *)
(***************************************************************************)
AuthenticationFailure(kind) ==
    CASE kind = "unsupported-release" -> "unsupported"
      [] kind = "unsupported-composition" -> "incompatible"
      [] kind = "invalid-manifest" -> "invalid-input"
      [] kind = "package-contract" -> "internal-error"
      [] OTHER -> "conflict"

HasEdgeRequest(m) == m.composition # None /\ Cardinality(m.databases) = 1 /\ Cardinality(m.clients) = 1

Refuse(c, kind) == Stop(c, AuthenticationFailure(kind))

OpenSource(c) ==
    LET r == cmd[c]
        raw == disk.files[Manifest]
        m == FromToml(raw)
    IN  /\ r.kind = "upgrade" /\ r.pc = "open"
        /\ IF raw = None THEN Refuse(c, "missing-managed-source")
           ELSE IF m = None THEN Refuse(c, "invalid-manifest")
           ELSE IF ~HasEdgeRequest(m) THEN Refuse(c, "invalid-manifest")
           ELSE IF EdgeFrom(Bundled, ReleaseOf(m)) = << >> THEN Refuse(c, "unsupported-release")
           ELSE LET edge == ResolveEdge(Bundled, m)
                IN  IF edge = None THEN Refuse(c, "unsupported-composition")
                    ELSE Read(c, [r EXCEPT !.pc = "read", !.root = disk.root, !.raw = raw, !.manifest = m, !.edge = edge, !.left = edge.managed,
                                           !.sources = << >>])

\* The release and, where the application records one, the application agree on the owner.
OwnershipMatches(edge, m, t) ==
    /\ OwnedTransition(edge.composition, t)
    /\ t.kind = "create" \/ m.upgrade = None \/ OwnershipDeclares(m.upgrade.ownership, t)

\* What the opened root holds, whatever its path names by now.
SourceFile(r, path) == IF disk.root = r.root THEN disk.files[path] ELSE disk.other[path]

\* A plausible bug: it is enough that there is a file to replace.
SourceMatchesAny(t, found) == (found = None) = (t.kind = "create")

\* It is what the release left there.
SourceMatches(t, found) == found = IF t.kind = "create" THEN None ELSE t.source

ReadManaged(c) ==
    LET r == cmd[c]
        t == Head(r.left)
        found == SourceFile(r, t.path)
        target == IF t.kind = "retire" THEN None ELSE TargetOf(Bundled, t)
    IN  /\ r.kind = "upgrade" /\ r.pc = "read" /\ r.left # << >>
        /\ IF ~OwnershipMatches(r.edge, r.manifest, t) THEN Refuse(c, "ownership-mismatch")
           ELSE IF ~SourceMatches(t, found) THEN Refuse(c, "source-digest-mismatch")
           ELSE IF t.kind # "retire" /\ target = None THEN Refuse(c, "package-contract")
           ELSE Read(c, [r EXCEPT !.left = Tail(@), !.sources = Append(@, [t |-> t, before |-> found, after |-> target])])

SameReport(report, m, edge) ==
    report = Assessed(m) /\ Head(EdgeFrom(Bundled, report.source)).target = edge.target

\* The end of authentication, and what each pass makes of it.
SealAssessment(c, target) ==
    IF target \in {Incompatible, Unsupported} THEN Stop(c, "incompatible")
    ELSE Read(c, [cmd[c] EXCEPT !.pc = "reobserve", !.status = "ready"])

SealPlan(c, m, plan) ==
    IF ~SameReport(cmd[c].report, m, cmd[c].edge) \/ plan = Conflicting THEN Stop(c, "conflict")
    ELSE IF plan = Unsupported THEN Stop(c, "unsupported")
    ELSE IF plan = Incompatible THEN Stop(c, "incompatible")
    ELSE Read(c, [cmd[c] EXCEPT !.pc = "reobserve", !.plan = plan])

Seal(c) ==
    LET r == cmd[c]
        m == r.manifest
    IN  /\ r.kind = "upgrade" /\ r.pc = "read" /\ r.left = << >>
        /\ IF disk.root # r.root THEN Refuse(c, "unsafe-application-root")
           ELSE IF r.context.manifest # m THEN Stop(c, "conflict")
           ELSE IF r.stage = "assess" THEN SealAssessment(c, ValidatedTarget(Bundled, m, r.edge))
           ELSE SealPlan(c, m, UpgradePlan(Bundled, m, r.raw, r.edge, r.sources))

\* The application is looked at once more: it must still be the same.
Same(r, x) ==
    /\ x \notin {None, Conflicting}
    /\ IF r.stage = "assess" THEN x.manifest = r.context.manifest ELSE x = r.context
Reobserve(c) ==
    LET r == cmd[c]
    IN  /\ r.kind = "upgrade" /\ r.pc = "reobserve"
        /\ IF Same(r, Context(disk, r.explicit)) THEN Read(c, [r EXCEPT !.pc = "recheck"]) ELSE Stop(c, "conflict")

\* The last look at the marker, and what the mode does with the pass that ends here.
Recheck(c) ==
    LET r == cmd[c]
        target == IF EdgeFrom(Bundled, r.report.source) = << >> THEN None
                  ELSE Head(EdgeFrom(Bundled, r.report.source)).target.framework.version
    IN  /\ r.kind = "upgrade" /\ r.pc = "recheck"
        /\ IF RecoveryPending THEN Stop(c, "recovery-blocked")
           ELSE IF r.stage = "prepare"
                THEN IF r.mode = "dry-run" THEN Stop(c, "planned") ELSE Read(c, [r EXCEPT !.pc = "publish"])
           ELSE IF r.mode = "status" THEN Stop(c, r.status)
           ELSE IF r.wanted # None /\ r.wanted # target THEN Stop(c, "unsupported")
           ELSE IF r.status = "no-upgrade" THEN Stop(c, IF r.mode = "apply" THEN "unsupported" ELSE "no-upgrade")
           ELSE Read(c, [r EXCEPT !.pc = "observe", !.stage = "prepare"])

(***************************************************************************)
(* The other commands that change files: what they refuse, and the plan    *)
(* that they make.  A plan without changes is not published.               *)
(***************************************************************************)
MutationRefusal(x) == CASE x = None -> "validation" [] x = Error -> "internal-error" [] OTHER -> "conflict"

Propose(c, plan) ==
    IF plan = None THEN Stop(c, "conflict")
    ELSE IF plan = << >> THEN Stop(c, "no-op")
    ELSE IF cmd[c].mode = "dry-run" THEN Stop(c, "planned")
    ELSE Read(c, [cmd[c] EXCEPT !.pc = "publish", !.plan = plan])

(***************************************************************************)
(* Publishing a plan.  Where the publisher cannot undo a publication that  *)
(* failed, or is killed, part of the plan stays on disk and so does the    *)
(* marker.                                                                 *)
(***************************************************************************)
PublicationFailure(kind) ==
    CASE kind = "recovery-required" -> "recovery-blocked"
      [] kind = "precondition-failed" -> "conflict"
      [] kind \in {"publication-failed", "rollback-incomplete"} -> "internal-error"

MutationDiagnostic(kind) == IF kind \in {"recovery-required", "precondition-failed"} THEN "conflict" ELSE "internal-error"

Publish(c) ==
    LET r == cmd[c]
        fits == Fits(r.plan, disk.files)
        begun == ~disk.marker /\ fits
        status(kind) == IF r.kind = "upgrade" THEN PublicationFailure(kind) ELSE MutationDiagnostic(kind)
        fail(kind) == Finish(c, status(kind))
    IN  /\ r.pc = "publish"
        /\ \/ disk.marker /\ fail("recovery-required") /\ UNCHANGED disk
           \/ ~disk.marker /\ ~fits /\ fail("precondition-failed") /\ UNCHANGED disk
           \/ begun /\ Finish(c, "applied") /\ disk' = [disk EXCEPT !.files = Apply(r.plan, @)]
           \/ begun /\ fail("publication-failed") /\ UNCHANGED disk
           \/ /\ begun /\ fail("rollback-incomplete")   \* or the command is killed, which leaves the same behind
              /\ \E part \in {{}, DOMAIN r.plan} \cup {{p} : p \in DOMAIN r.plan} :
                    disk' = [disk EXCEPT !.marker = TRUE, !.files = Apply(Restrict(r.plan, part), @)]

\* The owner: edits or deletes a file, puts another directory in the place of the root,
\* repairs the application by hand.
Owner(d) == Events < MaxEvents /\ edits' = edits + 1 /\ disk' = d /\ UNCHANGED <<pkg, cmd>>
OwnerEdits == \E p \in DOMAIN Edits[pkg] : \E x \in Edits[pkg][p] : Owner([disk EXCEPT !.files[p] = x])
OwnerReplacesRoot ==
    /\ disk.root = 0
    /\ \E s \in Setups :
          s[1] = pkg /\ Owner([disk EXCEPT !.root = 1, !.files = Applications[s[2]], !.other = disk.files, !.marker = FALSE])
OwnerMovesRoots == Owner([disk EXCEPT !.outer = ~@]) \/ Owner([disk EXCEPT !.owned = ~@])
OwnerRecovers == disk.marker /\ Owner([disk EXCEPT !.marker = FALSE])
=============================================================================
