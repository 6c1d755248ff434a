----------------------------- MODULE Publisher -----------------------------
(***************************************************************************)
(* The failure-safe publisher of tools/application_mutator: one validated  *)
(* change plan is published over an application tree by processes that may *)
(* run side by side, fail at any system call, crash or lose power, while   *)
(* the application's owner keeps editing the same files.                   *)
(*                                                                         *)
(* A file is its inode, its content and whether its final permissions are  *)
(* set.  Every action is one system call of the code, or a block of reads  *)
(* whose result the code acts on at once.  dest and temp are the names the *)
(* kernel shows, synced what the last fsync of each directory made durable.*)
(***************************************************************************)
EXTENDS Integers

CONSTANTS
    Procs,      \* publishing processes, each running one plan
    N,          \* number of paths in a plan, in path order
    None,       \* an absent file, marker or owner
    Scenarios   \* which processes publish, and bounds on failing system calls, on
                \* edits by the application's owner, on crashes and power losses

ASSUME ConstantsAssumption ==
    /\ N \in Nat \ {0}
    /\ Scenarios \subseteq [procs : SUBSET Procs, faults : Nat, edits : Nat, crashes : Nat]
    /\ {"foreign", "app", "user", None} \intersect Procs = {} /\ None # "foreign"

Files == 1 .. N
Tags == (Procs \union {"app", "user"}) \X Nat
File == [ino : Tags, data : Tags, mode : {"private", "final"}]

ASSUME NoneAssumption == None \notin File /\ None \notin Tags

VARIABLES
    dest,       \* dest[f]: the file at path f of the application
    temp,       \* temp[p][f]: the file at the private name of p's change f
    marker,     \* who holds .hegira-mutation.lock: None, a process, "foreign"
    synced,     \* synced[f]: the names of f that survive a power loss
    syncedMark, \* the marker that survives a power loss
    moved,      \* whether the root or a change parent was replaced
    pc,         \* where each process stands
    k,          \* the change a process works on
    op,         \* op[p][f]: create, edit or retire
    orig,       \* orig[p][f]: the observed original, None for a create
    ready,      \* how many changes a process has prepared
    published,  \* changes a process has renamed into place
    complete,   \* whether the process's rollback is still complete
    error,      \* the error a rollback or cleanup will report
    outcome,    \* what publish returned; None before that
    applied,    \* history: the process that last published its whole plan
    work,       \* history: what the owner last wrote to f since it was planned
    touched,    \* history: touched[p]: paths the owner changed since p planned, for None since the start
    start,      \* history: the application before any of this
    raced,      \* history: paths the owner changed inside a rollback window
    faults, edits, crashes  \* how many of each may still come

fs == <<dest, temp, marker, synced, syncedMark, moved>>
txn == <<op, orig, ready, published, complete, error, outcome>>
owner == <<work, touched, raced, start, edits>>
vars == <<dest, temp, marker, synced, syncedMark, moved, pc, k, op, orig,
          ready, published, complete, error, outcome, applied, work, touched, raced,
          start, faults, edits, crashes>>

Original(f) == [ino |-> <<"app", f>>, data |-> <<"app", f>>, mode |-> "final"]
Staged(p, f) == [ino |-> <<p, f>>, data |-> <<p, f>>, mode |-> "private"]
Names(f) == [dest |-> dest[f], temp |-> [p \in Procs |-> temp[p][f]]]

Init ==
    /\ dest \in [Files -> {None} \union {Original(f) : f \in Files}]
    /\ \A f \in Files : dest[f] \in {None, Original(f)}
    /\ temp = [p \in Procs |-> [f \in Files |-> None]]
    /\ marker = None
    /\ synced = [f \in Files |-> Names(f)]
    /\ syncedMark = None
    /\ moved = FALSE
    /\ \E s \in Scenarios :
         /\ pc = [p \in Procs |-> IF p \in s.procs THEN "idle" ELSE "done"]
         /\ faults = s.faults /\ edits = s.edits /\ crashes = s.crashes
    /\ k = [p \in Procs |-> 1]
    /\ op = [p \in Procs |-> [f \in Files |-> "create"]]
    /\ orig = [p \in Procs |-> [f \in Files |-> None]]
    /\ ready = [p \in Procs |-> 0]
    /\ published = [p \in Procs |-> {}]
    /\ complete = [p \in Procs |-> TRUE]
    /\ error = [p \in Procs |-> None]
    /\ outcome = [p \in Procs |-> None]
    /\ applied = None
    /\ work = [f \in Files |-> None]
    /\ touched = [p \in Procs \union {None} |-> {}]
    /\ raced = {}
    /\ start = dest

-----------------------------------------------------------------------------
(* Control. *)

Goto(p, label) == pc' = [pc EXCEPT ![p] = label]
Step(p, label, n) == Goto(p, label) /\ k' = [k EXCEPT ![p] = n]

\* A system call fails.
Fault == faults > 0 /\ faults' = faults - 1
NoFault == UNCHANGED faults

\* publish returns.
Return(p, result) ==
    /\ Goto(p, "done")
    /\ outcome' = [outcome EXCEPT ![p] = result]
    /\ UNCHANGED <<k, op, orig, ready, published, complete, error>>

\* Mutant: the change in hand is not part of the rollback.
FailSkipsCurrent(p, kind) ==
    /\ Step(p, "rbCheck", k[p] - 1)
    /\ error' = [error EXCEPT ![p] = kind]
    /\ UNCHANGED <<op, orig, ready, published, complete, outcome>>

\* publish_with turns to rollback_or_report, from the last change backwards.
Fail(p, kind) ==
    /\ Step(p, "rbCheck", N)
    /\ error' = [error EXCEPT ![p] = kind]
    /\ UNCHANGED <<op, orig, ready, published, complete, outcome>>

\* cleanup_before_publication over the changes prepared so far.
Abandon(p, kind) ==
    /\ Step(p, "discard", 1)
    /\ error' = [error EXCEPT ![p] = kind]
    /\ UNCHANGED <<op, orig, ready, published, complete, outcome>>

\* sync_directory of f's parent, sync_unique_parents for S = Files.
Sync(S) == synced' = [f \in Files |-> IF f \in S THEN Names(f) ELSE synced[f]]

-----------------------------------------------------------------------------
(* Planning, marker, staging. *)

\* A caller observes the application and plans one change per path: a create
\* where there is no file, an edit or a retirement where there is one.
Plan(p) ==
    /\ pc[p] = "idle"
    /\ \E choice \in [Files -> {"edit", "retire"}] :
         op' = [op EXCEPT ![p] = [f \in Files |-> IF dest[f] = None THEN "create" ELSE choice[f]]]
    /\ orig' = [orig EXCEPT ![p] = dest]
    /\ work' = [f \in Files |-> None]
    /\ touched' = [touched EXCEPT ![p] = {}]
    /\ raced' = {}
    /\ Goto(p, "start")
    /\ UNCHANGED <<start, fs, k, ready, published, complete, error, outcome, applied, faults, edits, crashes>>

\* create_marker: exclusive creation, then the manifest and two fsyncs.
CreateMarker(p) ==
    /\ pc[p] = "start"
    /\ UNCHANGED <<dest, temp, synced, moved, owner, applied, crashes>>
    /\ \/ /\ marker # None
          /\ Return(p, "RecoveryRequired")
          /\ NoFault /\ UNCHANGED <<marker, syncedMark>>
       \/ /\ marker = None
          /\ Fault
          /\ \/ Return(p, "PublicationFailed") /\ UNCHANGED marker
             \/ Return(p, "RecoveryRequired") /\ marker' = p
          /\ UNCHANGED syncedMark
       \/ /\ marker = None
          /\ marker' = p /\ syncedMark' = p
          /\ Step(p, "prepare", 1)
          /\ NoFault /\ UNCHANGED txn

\* verify_initial_precondition: absent, or a file with the planned digest.
StillAsPlanned(p, f) ==
    IF op[p][f] = "create" THEN dest[f] = None
    ELSE dest[f] # None /\ dest[f].data = orig[p][f].data

\* prepare_changes for one change: check, observe, stage_file.  A staging that
\* fails removes its own file or, failing that too, asks for recovery.
Prepare(p) ==
    LET f == k[p]
        stages == op[p][f] # "retire"
    IN  /\ pc[p] = "prepare" /\ f \in Files
        /\ UNCHANGED <<dest, marker, synced, syncedMark, moved, owner, applied, crashes>>
        /\ \/ /\ ~StillAsPlanned(p, f)
              /\ Abandon(p, "PreconditionFailed")
              /\ NoFault /\ UNCHANGED temp
           \/ /\ StillAsPlanned(p, f) /\ stages
              /\ Fault
              /\ \/ Abandon(p, "PublicationFailed") /\ UNCHANGED temp
                 \/ /\ Abandon(p, "RecoveryRequired")
                    /\ temp' = [temp EXCEPT ![p][f] = Staged(p, f)]
           \/ /\ StillAsPlanned(p, f)
              /\ orig' = [orig EXCEPT ![p][f] = dest[f]]
              /\ temp' = IF stages THEN [temp EXCEPT ![p][f] = Staged(p, f)] ELSE temp
              /\ ready' = [ready EXCEPT ![p] = f]
              /\ Step(p, "prepare", f + 1)
              /\ NoFault /\ UNCHANGED <<op, published, complete, error, outcome>>

\* The trailing sync_unique_parents of prepare_changes.
Prepared(p) ==
    /\ pc[p] = "prepare" /\ k[p] = N + 1
    /\ UNCHANGED <<dest, temp, marker, syncedMark, moved, owner, applied, crashes>>
    /\ \/ Fault /\ Abandon(p, "PublicationFailed") /\ UNCHANGED synced
       \/ NoFault /\ Sync(Files) /\ Step(p, "preflight", 1) /\ UNCHANGED txn

\* preflight_filesystem_semantics: the probes of every parent.
Preflight(p) ==
    /\ pc[p] = "preflight"
    /\ UNCHANGED <<fs, owner, applied, crashes>>
    /\ \/ Fault /\ \E kind \in {"UnsupportedPlatform", "RecoveryRequired"} : Fail(p, kind)
       \/ NoFault /\ Step(p, "verify", 1) /\ UNCHANGED txn

-----------------------------------------------------------------------------
(* Publication. *)

\* The first check that fails: root.verify_namespace and verify_parent_namespace,
\* verify_marker, verify_precondition of the changes in S.
Refusal(p, S) ==
    IF moved THEN "UnsafeRoot"
    ELSE IF marker # p THEN "RecoveryRequired"
    ELSE IF \E f \in S : dest[f] # orig[p][f] THEN "PreconditionFailed"
    ELSE None

\* verify_all_preconditions, before anything is published.
VerifyAll(p) ==
    /\ pc[p] = "verify"
    /\ IF Refusal(p, Files) # None THEN Fail(p, Refusal(p, Files))
       ELSE Step(p, "check", 1) /\ UNCHANGED txn
    /\ NoFault /\ UNCHANGED <<fs, owner, applied, crashes>>

\* The checks immediately before one change.
Check(p) ==
    /\ pc[p] = "check" /\ k[p] \in Files
    /\ \/ Fault /\ Fail(p, "PreconditionFailed")
       \/ /\ NoFault
          /\ IF Refusal(p, {k[p]}) # None THEN Fail(p, Refusal(p, {k[p]}))
             ELSE Goto(p, "rename") /\ UNCHANGED <<k, txn>>
    /\ UNCHANGED <<fs, owner, applied, crashes>>

\* publish_one: rename without replacement for a create and a retirement,
\* exchange for an edit.  The kernel decides on what is there now.
Rename(p) ==
    LET f == k[p]
        blocked == IF op[p][f] = "create" THEN dest[f] # None ELSE dest[f] = None
    IN  /\ pc[p] = "rename"
        /\ UNCHANGED <<marker, synced, syncedMark, moved, owner, applied, crashes>>
        /\ \/ /\ blocked
              /\ Fail(p, IF op[p][f] = "create" THEN "PreconditionFailed" ELSE "PublicationFailed")
              /\ NoFault /\ UNCHANGED <<dest, temp>>
           \/ /\ ~blocked
              /\ Fault /\ Fail(p, "PublicationFailed") /\ UNCHANGED <<dest, temp>>
           \/ /\ ~blocked
              /\ dest' = [dest EXCEPT ![f] = temp[p][f]]
              /\ temp' = [temp EXCEPT ![p][f] = dest[f]]
              /\ published' = [published EXCEPT ![p] = @ \union {f}]
              /\ Goto(p, "mode")
              /\ NoFault /\ UNCHANGED <<k, op, orig, ready, complete, error, outcome>>

\* set_published_mode: open the published path again, make sure it is still the
\* staged file, give it its final permissions.
SetMode(p) ==
    LET f == k[p]
        ours == dest[f] # None /\ dest[f].ino = Staged(p, f).ino
    IN  /\ pc[p] = "mode"
        /\ UNCHANGED <<temp, marker, synced, syncedMark, moved, owner, applied, crashes>>
        /\ \/ /\ op[p][f] = "retire"
              /\ Goto(p, "confirm") /\ NoFault /\ UNCHANGED <<dest, k, txn>>
           \/ /\ op[p][f] # "retire" /\ ~ours
              /\ Fail(p, "PublicationFailed") /\ NoFault /\ UNCHANGED dest
           \/ /\ op[p][f] # "retire" /\ ours
              /\ Fault /\ Fail(p, "PublicationFailed") /\ UNCHANGED dest
           \/ /\ op[p][f] # "retire" /\ ours
              /\ dest' = [dest EXCEPT ![f].mode = "final"]
              /\ Goto(p, "confirm") /\ NoFault /\ UNCHANGED <<k, txn>>

\* What change f of p leaves at the path, and whether it is there.
Result(p, f) == IF op[p][f] = "retire" THEN None ELSE [Staged(p, f) EXCEPT !.mode = "final"]

\* verify_published: the result and the rollback source are what they should be.
Confirm(p) ==
    LET f == k[p]
        sound == dest[f] = Result(p, f) /\ temp[p][f] = orig[p][f]
    IN  /\ pc[p] = "confirm"
        /\ UNCHANGED <<fs, owner, applied, crashes>>
        /\ \/ sound /\ Goto(p, "settle") /\ NoFault /\ UNCHANGED <<k, txn>>
           \/ ~sound /\ Fail(p, "PublicationFailed") /\ NoFault
           \/ Fault /\ Fail(p, "PreconditionFailed")

\* sync_directory, then the namespace and marker checks after the change.
Settle(p) ==
    /\ pc[p] = "settle"
    /\ UNCHANGED <<dest, temp, marker, syncedMark, moved, owner, applied, crashes>>
    /\ \/ Fault /\ Fail(p, "PublicationFailed") /\ UNCHANGED synced
       \/ /\ NoFault /\ Sync({k[p]})
          /\ IF Refusal(p, {}) # None THEN Fail(p, Refusal(p, {}))
             ELSE /\ IF k[p] < N THEN Step(p, "check", k[p] + 1) ELSE Step(p, "backups", 1)
                  /\ UNCHANGED txn

\* remove_named_if_identity of p's private name f.
Unlinked(p, f) == [temp EXCEPT ![p][f] = None]

\* remove_backup of every edit and retirement; an error is returned as it is,
\* with the changes in place and the marker kept.
RemoveBackup(p) ==
    LET f == k[p]
        removable == temp[p][f] # None /\ temp[p][f].ino = orig[p][f].ino
    IN  /\ pc[p] = "backups" /\ f \in Files
        /\ UNCHANGED <<dest, marker, synced, syncedMark, moved, owner, applied, crashes>>
        /\ \/ /\ op[p][f] = "create"
              /\ Step(p, "backups", f + 1) /\ NoFault /\ UNCHANGED <<temp, txn>>
           \/ /\ op[p][f] # "create" /\ removable
              /\ temp' = Unlinked(p, f)
              /\ Step(p, "backups", f + 1) /\ NoFault /\ UNCHANGED txn
           \/ /\ op[p][f] # "create"
              /\ IF removable THEN Fault ELSE NoFault
              /\ Return(p, "RecoveryRequired") /\ UNCHANGED temp

\* Mutant: the parents are not synced before the marker is removed.
SyncParentsSkipped(p) ==
    /\ pc[p] = "backups" /\ k[p] = N + 1
    /\ Step(p, "unmark", 1)
    /\ NoFault /\ UNCHANGED <<fs, owner, applied, crashes, txn>>

\* sync_unique_parents after the backups are gone.
SyncParents(p) ==
    /\ pc[p] = "backups" /\ k[p] = N + 1
    /\ UNCHANGED <<dest, temp, marker, syncedMark, moved, owner, applied, crashes>>
    /\ \/ Fault /\ Return(p, "PublicationFailed") /\ UNCHANGED synced
       \/ NoFault /\ Sync(Files) /\ Step(p, "unmark", 1) /\ UNCHANGED txn

\* remove_marker of a successful publication.
RemoveMarker(p) ==
    /\ pc[p] = "unmark"
    /\ UNCHANGED <<dest, temp, synced, syncedMark, moved, owner, crashes>>
    /\ \/ /\ marker # p
          /\ Return(p, "RecoveryRequired") /\ NoFault /\ UNCHANGED <<marker, applied>>
       \/ /\ marker = p
          /\ Fault /\ Return(p, "RecoveryRequired") /\ UNCHANGED <<marker, applied>>
       \/ /\ marker = p /\ marker' = None /\ applied' = p
          /\ Goto(p, "syncRoot") /\ NoFault /\ UNCHANGED <<k, txn>>

\* The last fsync decides between Ok and an error about the marker's removal.
SyncRoot(p) ==
    /\ pc[p] = "syncRoot"
    /\ UNCHANGED <<dest, temp, marker, synced, moved, owner, applied, crashes>>
    /\ \/ Fault /\ Return(p, "RecoveryRequired") /\ UNCHANGED syncedMark
       \/ NoFault /\ syncedMark' = marker /\ Return(p, "Ok")

-----------------------------------------------------------------------------
(* rollback_or_report: the published changes in reverse order. *)

\* rollback_one gives up on change f and the rollback goes on without it.
GiveUp(p) ==
    /\ complete' = [complete EXCEPT ![p] = FALSE]
    /\ Step(p, "rbCheck", k[p] - 1)
    /\ UNCHANGED <<op, orig, ready, published, error, outcome>>

\* Mutant: the published file is recognised by its inode alone.
RevertibleByInode(p, f) ==
    /\ IF op[p][f] = "retire" THEN dest[f] = None
       ELSE dest[f] # None /\ dest[f].ino = Staged(p, f).ino
    /\ op[p][f] # "create" => temp[p][f] = orig[p][f]

\* The reads of rollback_one: is the published file (or the absence of a retired
\* one) still ours, is the rollback source still the original.
Revertible(p, f) ==
    /\ IF op[p][f] = "retire" THEN dest[f] = None
       ELSE dest[f] # None /\ dest[f].ino = Staged(p, f).ino /\ dest[f].data = Staged(p, f).data
    /\ op[p][f] # "create" => temp[p][f] = orig[p][f]

RollbackCheck(p) ==
    LET f == k[p]
    IN  /\ pc[p] = "rbCheck" /\ f \in Files
        /\ UNCHANGED <<fs, owner, applied, crashes>>
        /\ \/ f \notin published[p] /\ Step(p, "rbCheck", f - 1) /\ NoFault /\ UNCHANGED txn
           \/ /\ f \in published[p] /\ Revertible(p, f)
              /\ Goto(p, "rbAct") /\ NoFault /\ UNCHANGED <<k, txn>>
           \/ /\ f \in published[p]
              /\ IF Revertible(p, f) THEN Fault ELSE NoFault
              /\ GiveUp(p)

\* The system call of rollback_one: unlink a created file, exchange an edited
\* one, rename a retired one back without replacement.
RollbackAct(p) ==
    LET f == k[p]
        blocked == IF op[p][f] = "retire" THEN dest[f] # None ELSE dest[f] = None
    IN  /\ pc[p] = "rbAct"
        /\ UNCHANGED <<marker, synced, syncedMark, moved, owner, applied, crashes>>
        /\ \/ blocked /\ GiveUp(p) /\ NoFault /\ UNCHANGED <<dest, temp>>
           \/ ~blocked /\ Fault /\ GiveUp(p) /\ UNCHANGED <<dest, temp>>
           \/ /\ ~blocked
              /\ dest' = [dest EXCEPT ![f] = temp[p][f]]
              /\ temp' = IF op[p][f] = "create" THEN temp ELSE [temp EXCEPT ![p][f] = dest[f]]
              /\ Goto(p, "rbVerify") /\ NoFault /\ UNCHANGED <<k, txn>>

\* The rest of rollback_one: verify what was restored, remove the exchanged
\* result by its inode, forget the change, sync its parent.
RollbackVerify(p) ==
    LET f == k[p]
        restored == op[p][f] # "create" => dest[f] = orig[p][f]
        removable == op[p][f] = "edit" => temp[p][f].ino = Staged(p, f).ino
    IN  /\ pc[p] = "rbVerify"
        /\ UNCHANGED <<dest, marker, syncedMark, moved, owner, applied, crashes>>
        /\ \/ /\ ~(restored /\ removable)
              /\ GiveUp(p) /\ NoFault /\ UNCHANGED <<temp, synced>>
           \/ /\ restored /\ removable
              /\ Fault
              /\ \/ GiveUp(p) /\ UNCHANGED temp
                 \/ /\ temp' = IF op[p][f] = "edit" THEN Unlinked(p, f) ELSE temp
                    /\ published' = [published EXCEPT ![p] = @ \ {f}]
                    /\ complete' = [complete EXCEPT ![p] = FALSE]
                    /\ Step(p, "rbCheck", f - 1)
                    /\ UNCHANGED <<op, orig, ready, error, outcome>>
              /\ UNCHANGED synced
           \/ /\ restored /\ removable
              /\ temp' = IF op[p][f] = "edit" THEN Unlinked(p, f) ELSE temp
              /\ published' = [published EXCEPT ![p] = @ \ {f}]
              /\ synced' = [synced EXCEPT ![f] = [dest |-> dest[f],
                                                 temp |-> [q \in Procs |-> temp'[q][f]]]]
              /\ Step(p, "rbCheck", f - 1)
              /\ NoFault /\ UNCHANGED <<op, orig, ready, complete, error, outcome>>

\* The rollback loop is over: staged files are only removed if it was complete.
RollbackDone(p) ==
    /\ pc[p] = "rbCheck" /\ k[p] = 0
    /\ IF complete[p] THEN Step(p, "rbClean", 1) /\ UNCHANGED txn
       ELSE Return(p, "RollbackIncomplete")
    /\ NoFault /\ UNCHANGED <<fs, owner, applied, crashes>>

-----------------------------------------------------------------------------
(* The common end of rollback_or_report ("rb...") and                      *)
(* cleanup_before_publication ("discard...").                              *)

Incomplete(p) ==
    IF pc[p] \in {"rbClean", "rbRelease"} THEN "RollbackIncomplete" ELSE "RecoveryRequired"

\* remove_temp_if_present of one prepared change, by its staged inode.
CleanTemp(p) ==
    LET f == k[p]
        there == temp[p][f] # None
    IN  /\ pc[p] \in {"rbClean", "discard"} /\ f <= ready[p]
        /\ UNCHANGED <<dest, marker, synced, syncedMark, moved, owner, applied, crashes>>
        /\ k' = [k EXCEPT ![p] = f + 1]
        /\ UNCHANGED <<pc, op, orig, ready, published, error, outcome>>
        /\ \/ ~there /\ NoFault /\ UNCHANGED <<temp, complete>>
           \/ there /\ temp' = Unlinked(p, f) /\ NoFault /\ UNCHANGED complete
           \/ there /\ Fault /\ complete' = [complete EXCEPT ![p] = FALSE] /\ UNCHANGED temp

\* sync_unique_parents, if everything could be removed.
CleanSync(p) ==
    /\ pc[p] \in {"rbClean", "discard"} /\ k[p] = ready[p] + 1
    /\ UNCHANGED <<dest, temp, marker, syncedMark, moved, owner, applied, crashes>>
    /\ \/ ~complete[p] /\ Return(p, Incomplete(p)) /\ NoFault /\ UNCHANGED synced
       \/ complete[p] /\ Fault /\ Return(p, Incomplete(p)) /\ UNCHANGED synced
       \/ /\ complete[p]
          /\ NoFault /\ Sync(1 .. ready[p])
          /\ Goto(p, IF pc[p] = "rbClean" THEN "rbRelease" ELSE "discardRelease")
          /\ UNCHANGED <<k, txn>>

\* remove_marker unless the error itself asks for recovery, then return the
\* error.  A rollback also syncs the root and ignores whether that worked.
Release(p) ==
    /\ pc[p] \in {"rbRelease", "discardRelease"}
    /\ UNCHANGED <<dest, temp, synced, moved, owner, applied, crashes>>
    /\ \/ /\ error[p] = "RecoveryRequired"
          /\ Return(p, error[p]) /\ NoFault /\ UNCHANGED <<marker, syncedMark>>
       \/ /\ error[p] # "RecoveryRequired" /\ marker # p
          /\ Return(p, Incomplete(p)) /\ NoFault /\ UNCHANGED <<marker, syncedMark>>
       \/ /\ error[p] # "RecoveryRequired" /\ marker = p
          /\ Fault /\ Return(p, Incomplete(p)) /\ UNCHANGED <<marker, syncedMark>>
       \/ /\ error[p] # "RecoveryRequired" /\ marker = p
          /\ marker' = None
          /\ syncedMark' \in IF pc[p] = "rbRelease" THEN {None, syncedMark} ELSE {syncedMark}
          /\ Return(p, error[p]) /\ NoFault

-----------------------------------------------------------------------------
(* The environment. *)

Live(p) == pc[p] \notin {"idle", "start", "done", "crashed"}

\* A process dies between two system calls.
Crash(p) ==
    /\ Live(p) /\ crashes > 0
    /\ crashes' = crashes - 1
    /\ Goto(p, "crashed")
    /\ UNCHANGED <<fs, k, txn, applied, owner, faults>>

\* Power is lost: of every directory either the last synced names or the names
\* in use survive, and so for the marker.
PowerLoss ==
    /\ crashes > 0
    /\ crashes' = crashes - 1
    /\ pc' = [p \in Procs |-> IF Live(p) THEN "crashed" ELSE pc[p]]
    /\ \E S \in SUBSET Files :
         /\ dest' = [f \in Files |-> IF f \in S THEN synced[f].dest ELSE dest[f]]
         /\ temp' = [p \in Procs |-> [f \in Files |->
                       IF f \in S THEN synced[f].temp[p] ELSE temp[p][f]]]
         /\ synced' = [f \in Files |-> IF f \in S THEN synced[f] ELSE Names(f)]
    /\ marker' \in {marker, syncedMark}
    /\ syncedMark' = marker'
    /\ UNCHANGED <<moved, k, txn, applied, owner, faults>>

\* The owner writes to path f: what is there is now theirs to keep.  A write
\* between the reads of rollback_one and its system call is recorded as raced.
OwnerChange(f, file) ==
    /\ edits > 0
    /\ edits' = edits - 1
    /\ dest' = [dest EXCEPT ![f] = file]
    /\ synced' = [synced EXCEPT ![f].dest = file]
    /\ work' = [work EXCEPT ![f] = IF file = None THEN None ELSE file.data]
    /\ touched' = [p \in DOMAIN touched |-> touched[p] \union {f}]
    /\ raced' = IF \E p \in Procs : pc[p] = "rbAct" /\ k[p] = f THEN raced \union {f} ELSE raced
    /\ UNCHANGED <<temp, marker, syncedMark, moved, pc, k, txn, applied, start, faults, crashes>>

Written == <<"user", edits>>
OwnerWrites(f) == dest[f] # None /\ OwnerChange(f, [dest[f] EXCEPT !.data = Written])
OwnerReplaces(f) == OwnerChange(f, [ino |-> Written, data |-> Written, mode |-> "final"])
OwnerDeletes(f) == dest[f] # None /\ OwnerChange(f, None)

\* The marker file is replaced, or the root or a parent directory is renamed
\* away under a running publication.
OwnerDisturbs ==
    /\ edits > 0
    /\ edits' = edits - 1
    /\ \/ marker \in Procs /\ marker' = "foreign" /\ syncedMark' = "foreign" /\ UNCHANGED moved
       \/ ~moved /\ moved' = TRUE /\ UNCHANGED <<marker, syncedMark>>
    /\ UNCHANGED <<dest, temp, synced, pc, k, txn, applied, work, touched, raced, start, faults, crashes>>

Publish(p) ==
    \/ CreateMarker(p) \/ Prepare(p) \/ Prepared(p) \/ Preflight(p) \/ VerifyAll(p)
    \/ Check(p) \/ Rename(p) \/ SetMode(p) \/ Confirm(p) \/ Settle(p)
    \/ RemoveBackup(p) \/ SyncParents(p) \/ RemoveMarker(p) \/ SyncRoot(p)
    \/ RollbackCheck(p) \/ RollbackAct(p) \/ RollbackVerify(p) \/ RollbackDone(p)
    \/ CleanTemp(p) \/ CleanSync(p) \/ Release(p)

Next ==
    \/ \E p \in Procs : Plan(p) \/ Publish(p) \/ Crash(p)
    \/ PowerLoss
    \/ \E f \in Files : OwnerWrites(f) \/ OwnerReplaces(f) \/ OwnerDeletes(f)
    \/ OwnerDisturbs

Spec == Init /\ [][Next]_vars

-----------------------------------------------------------------------------
(* Properties. *)

\* Every name holds a whole file or nothing, and every process works on a
\* change of its plan: no step leaves a file half renamed.
TypeOK ==
    /\ dest \in [Files -> File \union {None}]
    /\ temp \in [Procs -> [Files -> File \union {None}]]
    /\ marker \in Procs \union {None, "foreign"}
    /\ synced \in [Files -> [dest : File \union {None}, temp : [Procs -> File \union {None}]]]
    /\ syncedMark \in Procs \union {None, "foreign"}
    /\ moved \in BOOLEAN
    /\ k \in [Procs -> 0 .. N + 1]
    /\ op \in [Procs -> [Files -> {"create", "edit", "retire"}]]
    /\ orig \in [Procs -> [Files -> File \union {None}]]
    /\ ready \in [Procs -> 0 .. N]
    /\ published \in [Procs -> SUBSET Files]
    /\ complete \in [Procs -> BOOLEAN]
    /\ applied \in Procs \union {None} /\ touched \in [Procs \union {None} -> SUBSET Files] /\ raced \subseteq Files

\* What the last plan that was published whole left at f, or what was there at the start.
Settled(f) == IF applied = None THEN start[f] ELSE Result(applied, f)
Quiet == marker = None /\ \A p \in Procs : ~Live(p)

\* Without a marker and without a running publisher the tree is whole, also
\* after crashes and power losses: it is what the last plan that was published
\* and unmarked made of it, complete and with its final permissions, no other
\* plan is applied to any path, no private transaction file is left behind.
UnmarkedMeansWhole ==
    Quiet =>
        /\ \A p \in Procs, f \in Files : temp[p][f] = None
        /\ \A f \in Files \ touched[applied] : dest[f] = Settled(f)

\* Every error other than RecoveryRequired and RollbackIncomplete that comes
\* with the marker gone means that every path the publication had prepared is
\* exactly as it was found, except where the owner has changed it since.
FailureRestores ==
    [][\A p \in Procs :
         outcome[p] = None /\ outcome'[p] \notin {None, "Ok", "RecoveryRequired", "RollbackIncomplete"}
           /\ marker' = None
         => \A f \in (1 .. ready[p]) \ touched[p] : dest'[f] = orig[p][f]]_vars

\* Nothing the owner wrote while a plan was being published or rolled back is
\* lost: it is at its path or under the transaction's private name, unless it
\* was written between the last check of rollback_one and its system call.
OwnerWorkSurvives ==
    \A f \in Files : work[f] # None =>
        \/ f \in raced
        \/ \E file \in {dest[f]} \union {temp[p][f] : p \in Procs} :
              file # None /\ file.data = work[f]

\* "uncertain cleanup leaves the marker in place and blocks subsequent
\* mutations" (docs/architecture.md): an outcome that asks for recovery comes
\* with a marker.
RecoveryIsBlocked ==
    \A p \in Procs : outcome[p] \in {"RecoveryRequired", "RollbackIncomplete"} => marker # None

=============================================================================
