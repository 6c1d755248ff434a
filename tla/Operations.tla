------------------------------ MODULE Operations ------------------------------
(***************************************************************************)
(* Application operations of the command line (check, test, build and the  *)
(* like) and the bounded validation caches under target/hegira/validation. *)
(* Processes of the CLI run side by side.  The advisory lock of the        *)
(* application directory admits one operation or prune at a time, but a    *)
(* status report goes on without it.  A cache is protected by a lease, a   *)
(* lock of its directory that the children of an operation inherit and     *)
(* that therefore outlives a CLI that is killed.  A child may start a      *)
(* descendant, which may leave the process group.                          *)
(***************************************************************************)
EXTENDS Integers, FiniteSets, FiniteSetsExt

CONSTANTS
    Clis,       \* processes of the CLI, each of which runs one command
    Kinds,      \* the caches in use, of KINDS
    NoKind,     \* the command has no validation cache
    Steps,      \* the steps of a plan
    Starts,     \* bound: the commands each process may be given, <<process, command, cache>>
    Budget,     \* the budget all commands name, in units of storage
    MaxSize,    \* bound: what a cache may grow to
    MaxClock    \* bound: the seconds of the clock that touch reads

Root == "root"
Dirs == Kinds \cup {Root}
KINDS == [build |-> 1, check |-> 2, test |-> 3]  \* in the order of their names

ASSUME OperationsAssumption ==
    /\ Kinds \subseteq DOMAIN KINDS /\ NoKind \notin Dirs
    /\ Steps \in Nat \ {0} /\ Budget \in Nat /\ MaxSize \in Nat \ {0} /\ MaxClock \in Nat \ {0}

VARIABLES
    cli,    \* the processes of the CLI
    group,  \* the process group of the child each has started last
    dirs,   \* the directories of the storage
    now     \* the clock

vars == <<cli, group, dirs, now>>

\* "report" is cache-status or a preview of prune, which also selects but removes nothing.
Commands == {"run", "prune", "report"}

\* Where a process is: idle before it starts; lock and plan at the head of execute and maintain;
\* inspect to access in Session::prepare, lease and verify to trimmed in it and in finish; step to
\* reap in the loop over the steps; maintain and pruned in maintain.  "dead" is a CLI that was killed.
Inspecting == {"inspect", "verify", "trim", "trimmed", "check", "maintain", "pruned"}
Pcs == {"idle", "lock", "plan", "removing", "create", "claim", "mkdir", "mark", "access", "lease",
        "touch", "rename", "step", "run", "grace", "reap", "return", "done", "dead"}
       \cup Inspecting

\* insp are the leases that the Storage of the process holds, visited the caches it has measured
\* and seen their sizes, victims those that reclaim selected.  sess: its Session locked a lease.
Processes ==
    [op : Commands, kind : Kinds \cup {NoKind}, pc : Pcs, phase : {"prepare", "work", "finish"},
     sig : BOOLEAN, result : {"none", "succeeded", "failed", "stopped", "error"}, step : 0..Steps,
     lock : {"none", "shared", "exclusive"}, sess : BOOLEAN, insp : SUBSET Kinds,
     visited : SUBSET Kinds, seen : [Kinds -> 0..MaxSize], victims : SUBSET Kinds]

\* The child and a descendant of it.  doomed: SIGKILL is pending; zombie: ended and not reaped.
\* The descendant is detached once it has left the process group and departed when it has ended
\* then.  What survives a CLI that was killed is taken for one detached process.
Groups ==
    [leader : {"none", "running", "doomed", "zombie"}, zero : BOOLEAN,
     worker : {"none", "running", "doomed", "detached", "departed"}]

\* bare: there, without the claim; marked: with the claim only; ready: with .last-used as well.
\* next: .hegira-access.next was left behind.
Directories ==
    [state : {"absent", "bare", "marked", "ready"}, next : BOOLEAN, size : 0..MaxSize,
     used : 0..MaxClock]

TypeOK ==
    /\ cli \in [Clis -> Processes]
    /\ group \in [Clis -> Groups]
    /\ dirs \in [Dirs -> Directories]
    /\ now \in 1..MaxClock

Nothing == [k \in Kinds |-> 0]
Idle == [op |-> "report", kind |-> NoKind, pc |-> "idle", phase |-> "prepare", sig |-> FALSE,
         result |-> "none", step |-> 0, lock |-> "none", sess |-> FALSE, insp |-> {},
         visited |-> {}, seen |-> Nothing, victims |-> {}]

Directory(state, size, used) == [state |-> state, next |-> FALSE, size |-> size, used |-> used]
Absent == Directory("absent", 0, 0)

\* No storage yet, storage of somebody else, or what earlier operations and its owner left in it.
Init ==
    /\ cli = [c \in Clis |-> Idle]
    /\ group = [c \in Clis |-> [leader |-> "none", zero |-> FALSE, worker |-> "none"]]
    /\ \/ dirs = [d \in Dirs |-> Absent]
       \/ dirs = [[d \in Dirs |-> Absent] EXCEPT ![Root] = Directory("bare", 0, 0)]
       \/ \E kept \in [Kinds -> {Absent, Directory("bare", 1, 0), Directory("ready", 1, 0)}] :
            dirs = [d \in Dirs |-> IF d = Root THEN Directory("ready", 0, 0) ELSE kept[d]]
    /\ now = 1

-----------------------------------------------------------------------------
(* Processes and leases.                                                     *)

\* Members that still run code of theirs, and members that still have their descriptors open.
Writing(c) == group[c].leader = "running" \/ group[c].worker \in {"running", "detached"}
Living(c) == \/ group[c].leader \in {"running", "doomed"}
             \/ group[c].worker \in {"running", "doomed", "detached"}

\* The description that Session::prepare locked is open in the CLI or in a child that inherited it.
Inherits(c) == cli[c].kind # NoKind /\ Living(c)
Uses(c, k) == cli[c].kind = k /\ (cli[c].sess \/ Inherits(c))

\* flock of a new description of the directory of cache k would succeed.
LeaseFree(k) == \A c \in Clis : ~Uses(c, k) /\ k \notin cli[c].insp

Active(c) == cli[c].pc \notin {"idle", "done", "dead"}
At(c, pc) == cli[c].pc = pc
Goto(c, pc) == cli' = [cli EXCEPT ![c].pc = pc]

\* The process is over: its descriptors and, with them, its locks are gone.
Ended(p, pc, result) == [Idle EXCEPT !.op = p.op, !.kind = p.kind, !.pc = pc, !.result = result]
End(c, result) == cli' = [cli EXCEPT ![c] = Ended(cli[c], "done", result)]

\* Storage is dropped: the leases it took are released.
Dropped(p, pc) ==
    [p EXCEPT !.pc = pc, !.insp = {}, !.visited = {}, !.seen = Nothing, !.victims = {}]
Drop(c, pc) == cli' = [cli EXCEPT ![c] = Dropped(cli[c], pc)]

\* The closure of execute returned: the cache of the operation is finished, then the lock is let go.
Finish(p, result) ==
    [Dropped(p, IF p.kind = NoKind THEN "return" ELSE "verify")
        EXCEPT !.phase = "finish", !.result = result]

-----------------------------------------------------------------------------
(* The head of execute and of maintain.                                      *)

Start(c) ==
    /\ At(c, "idle")
    /\ \E o \in Commands, k \in Kinds \cup {NoKind} :
        /\ o # "run" => k = NoKind
        /\ <<c, o, k>> \in Starts
        /\ cli' = [cli EXCEPT ![c] = [@ EXCEPT !.op = o, !.kind = k, !.pc = "lock"]]
    /\ UNCHANGED <<group, dirs, now>>

\* SIGINT or SIGTERM reaches the CLI: only an operation has registered handlers.
Interrupt(c) ==
    /\ Active(c) /\ cli[c].op = "run" /\ ~cli[c].sig
    /\ cli' = [cli EXCEPT ![c].sig = TRUE]
    /\ UNCHANGED <<group, dirs, now>>

Others(c, locks) == \E d \in Clis \ {c} : cli[d].lock \in locks

\* execute locks exclusively and without waiting.
LockOperation(c) ==
    /\ At(c, "lock") /\ cli[c].op = "run"
    /\ IF cli[c].sig THEN End(c, "stopped")
       ELSE IF Others(c, {"shared", "exclusive"}) THEN End(c, "error")
       ELSE cli' = [cli EXCEPT ![c] = [@ EXCEPT !.lock = "exclusive", !.pc = "plan"]]
    /\ UNCHANGED <<group, dirs, now>>

\* prune does so too; the reports take a shared lock, and go on when an operation is active.
LockMaintenance(c) ==
    /\ At(c, "lock") /\ cli[c].op # "run"
    /\ IF cli[c].op = "prune"
       THEN IF Others(c, {"shared", "exclusive"}) THEN End(c, "error")
            ELSE cli' = [cli EXCEPT ![c] = [@ EXCEPT !.lock = "exclusive", !.pc = "maintain"]]
       ELSE \E l \in {"none", "shared"} :
                /\ l = "none" <=> Others(c, {"exclusive"})
                /\ cli' = [cli EXCEPT ![c] = [@ EXCEPT !.lock = l, !.pc = "maintain"]]
    /\ UNCHANGED <<group, dirs, now>>

\* No recovery is pending, the plan is still what was approved, the tools are the selected ones.
Reauthenticate(c) ==
    /\ At(c, "plan")
    /\ cli' = [cli EXCEPT ![c] = IF @.kind = NoKind THEN [@ EXCEPT !.pc = "step", !.phase = "work"]
                                 ELSE [@ EXCEPT !.pc = "inspect"]]
    /\ UNCHANGED <<group, dirs, now>>

\* SIGKILL to the group: what is in it ends without running on.
Killed(g) == [g EXCEPT !.leader = IF @ = "running" THEN "doomed" ELSE @,
                       !.worker = IF @ = "running" THEN "doomed" ELSE @]

\* Any of the checks and system calls may fail.  What fails before the loop over the steps, or in
\* finish, ends the command; what fails in the loop still goes through finish; a child that was
\* started is killed and reaped first.
Fail(c) ==
    /\ Active(c) /\ cli[c].pc \notin {"lock", "reap", "return"}
    /\ IF cli[c].phase # "work" THEN End(c, "error") /\ UNCHANGED group
       ELSE IF cli[c].pc \in {"run", "grace"}
            THEN /\ cli' = [cli EXCEPT ![c] = [@ EXCEPT !.pc = "reap", !.result = "error"]]
                 /\ group' = [group EXCEPT ![c] = Killed(@)]
            ELSE cli' = [cli EXCEPT ![c] = Finish(@, "error")] /\ UNCHANGED group
    /\ UNCHANGED <<dirs, now>>

-----------------------------------------------------------------------------
(* Storage: inspect, reclaim, create, claim and touch.                       *)

Put(d, state) == dirs' = [dirs EXCEPT ![d].state = state]

Present == {k \in Kinds : dirs[k].state # "absent"}

\* Mutant of Scan: a directory of that name needs no claim.
ScanUnclaimed(c) ==
    /\ cli[c].pc \in Inspecting /\ dirs[Root].state = "ready"
    /\ \E k \in Present \ cli[c].visited :
        /\ \A j \in Present \ cli[c].visited : KINDS[k] <= KINDS[j]
        /\ cli' = [cli EXCEPT ![c] = [@ EXCEPT !.visited = cli[c].visited \cup {k}, !.seen[k] = dirs[k].size,
                                              !.insp = cli[c].insp \cup {j \in {k} : LeaseFree(j)}]]
    /\ UNCHANGED <<group, dirs, now>>

\* inspect measures the caches by name.  A cache without its claim or .last-used is refused; one
\* whose lease is taken counts as active.
Scan(c) ==
    /\ cli[c].pc \in Inspecting /\ dirs[Root].state = "ready"
    /\ \E k \in Present \ cli[c].visited :
        /\ \A j \in Present \ cli[c].visited : KINDS[k] <= KINDS[j]
        /\ dirs[k].state = "ready"
        /\ cli' = [cli EXCEPT ![c] = [@ EXCEPT !.visited = cli[c].visited \cup {k}, !.seen[k] = dirs[k].size,
                                              !.insp = cli[c].insp \cup {j \in {k} : LeaseFree(j)}]]
    /\ UNCHANGED <<group, dirs, now>>

\* inspect has returned, with or without storage.
Inspected(c) == \/ dirs[Root].state = "absent"
                \/ dirs[Root].state = "ready" /\ Present \subseteq cli[c].visited
SumOf(sizes, K) == MapThenSumSet(LAMBDA k : sizes[k], K)
Measured(c, K) == SumOf(cli[c].seen, K)

\* All caches together; one that is not there, or was not measured, takes nothing.
Total(sizes) == SumOf(sizes, Kinds)

\* The inactive caches but for the operation's own, the least recently used first, until what is
\* left is within the budget.
Older(j, k) == \/ dirs[j].used < dirs[k].used
               \/ dirs[j].used = dirs[k].used /\ KINDS[j] < KINDS[k]
\* Mutant of Candidates: active caches are eligible.
CandidatesActive(c) == {k \in cli[c].visited : k # cli[c].kind}

Candidates(c) == {k \in cli[c].visited \cap cli[c].insp : k # cli[c].kind}
Selected(c) ==
    {k \in Candidates(c) :
        Measured(c, cli[c].visited) - Measured(c, {j \in Candidates(c) : Older(j, k)}) > Budget}

\* The storage stays open, and its leases taken, while it is reclaimed.
Reclaim(c) ==
    /\ \/ cli[c].pc = "inspect" \/ (cli[c].pc = "maintain" /\ cli[c].op = "prune")
       \/ cli[c].pc = "trim" /\ dirs[Root].state = "ready"
    /\ Inspected(c)
    /\ cli' = [cli EXCEPT ![c] = [@ EXCEPT !.victims = Selected(c), !.pc = "removing"]]
    /\ UNCHANGED <<group, dirs, now>>

\* A report removes nothing.
Report(c) ==
    /\ At(c, "maintain") /\ cli[c].op # "prune" /\ Inspected(c)
    /\ End(c, "succeeded")
    /\ UNCHANGED <<group, dirs, now>>

\* Tree::remove: the files, then the claim, then the directory.
Unlink(c) ==
    /\ At(c, "removing")
    /\ \E v \in cli[c].victims \cap Present :
        /\ \A j \in cli[c].victims \cap Present : j = v \/ Older(v, j)
        /\ dirs' = [dirs EXCEPT ![v] =
                        CASE @.state = "ready"  -> Directory("marked", 0, @.used)
                          [] @.state = "marked" -> Directory("bare", 0, @.used)
                          [] OTHER              -> Absent]
    /\ UNCHANGED <<cli, group, now>>

\* Everything selected is gone.  prepare drops the storage and goes by the total it computed;
\* enforce and maintain measure once more while it is open.
Reclaimed(c) ==
    /\ At(c, "removing") /\ cli[c].victims \cap Present = {}
    /\ IF cli[c].op = "prune" \/ cli[c].sess
       THEN cli' = [cli EXCEPT ![c] = [@ EXCEPT !.pc = IF cli[c].sess THEN "trimmed" ELSE "pruned",
                                              !.visited = {}, !.seen = Nothing, !.victims = {}]]
       ELSE IF Measured(c, cli[c].visited \ cli[c].victims) > Budget THEN End(c, "error")
            ELSE Drop(c, "create")
    /\ UNCHANGED <<group, dirs, now>>

Pruned(c) ==
    /\ At(c, "pruned") /\ Inspected(c)
    /\ End(c, "succeeded")
    /\ UNCHANGED <<group, dirs, now>>

\* The end of enforce, of prepare or of finish.
Enforced(c) ==
    /\ At(c, "trimmed") /\ Inspected(c)
    /\ IF Total(cli[c].seen) <= Budget
       THEN cli' = [cli EXCEPT ![c] = IF @.phase = "finish" THEN Dropped(@, "return")
                                      ELSE [Dropped(@, "step") EXCEPT !.phase = "work"]]
       ELSE End(c, "error")
    /\ UNCHANGED <<group, dirs, now>>

\* mkdir tells a directory of our own from one that was there, which must have its claim.
CreateRoot(c) ==
    /\ At(c, "create")
    /\ \/ dirs[Root].state = "absent" /\ Put(Root, "bare") /\ Goto(c, "claim")
       \/ dirs[Root].state = "ready" /\ UNCHANGED dirs /\ Goto(c, "mkdir")
    /\ UNCHANGED <<group, now>>

ClaimRoot(c) ==
    /\ At(c, "claim")
    /\ Put(Root, "ready") /\ Goto(c, "mkdir")
    /\ UNCHANGED <<group, now>>

CreateCache(c) ==
    /\ At(c, "mkdir")
    /\ \/ dirs[cli[c].kind].state = "absent" /\ Put(cli[c].kind, "bare") /\ Goto(c, "mark")
       \/ dirs[cli[c].kind].state \in {"marked", "ready"} /\ UNCHANGED dirs /\ Goto(c, "lease")
    /\ UNCHANGED <<group, now>>

ClaimCache(c) ==
    /\ At(c, "mark")
    /\ Put(cli[c].kind, "marked") /\ Goto(c, "access")
    /\ UNCHANGED <<group, now>>

WriteAccess(c) ==
    /\ At(c, "access")
    /\ dirs' = [dirs EXCEPT ![cli[c].kind] = Directory("ready", 1, 0)]
    /\ Goto(c, "lease")
    /\ UNCHANGED <<group, now>>

\* Mutant of LockLease: the lease is shared.
LockLeaseShared(c) ==
    /\ At(c, "lease")
    /\ cli' = [cli EXCEPT ![c] = [@ EXCEPT !.sess = TRUE, !.pc = "touch"]]
    /\ UNCHANGED <<group, dirs, now>>

\* The lease that children will inherit; it is not waited for.
LockLease(c) ==
    /\ At(c, "lease")
    /\ IF LeaseFree(cli[c].kind) THEN cli' = [cli EXCEPT ![c] = [@ EXCEPT !.sess = TRUE, !.pc = "touch"]]
       ELSE End(c, "error")
    /\ UNCHANGED <<group, dirs, now>>

\* touch writes a new file, which must not be there, ...
Touch(c) ==
    /\ At(c, "touch")
    /\ dirs[cli[c].kind].state = "ready" /\ ~dirs[cli[c].kind].next
    /\ dirs' = [dirs EXCEPT ![cli[c].kind].next = TRUE]
    /\ Goto(c, "rename")
    /\ UNCHANGED <<group, now>>

\* ... and renames it to .last-used.
Rename(c) ==
    /\ At(c, "rename")
    /\ \E t \in now..MaxClock :
        /\ now' = t
        /\ dirs' = [dirs EXCEPT ![cli[c].kind] = [@ EXCEPT !.next = FALSE, !.used = t]]
    /\ Goto(c, IF cli[c].phase = "prepare" THEN "verify" ELSE "trim")
    /\ UNCHANGED group

\* Session::verify: the storage is in order and the operation's cache is in it.
Verified(c) == dirs[Root].state = "ready" /\ Inspected(c) /\ cli[c].kind \in cli[c].visited

Verify(c) ==
    /\ At(c, "verify") /\ Verified(c)
    /\ Drop(c, IF cli[c].phase = "prepare" THEN "trim" ELSE "touch")
    /\ UNCHANGED <<group, dirs, now>>

-----------------------------------------------------------------------------
(* The steps of an operation and the child that runs one.                    *)

NextStep(c) ==
    /\ At(c, "step")
    /\ IF cli[c].sig THEN cli' = [cli EXCEPT ![c] = Finish(@, "stopped")]
       ELSE IF cli[c].step = Steps THEN cli' = [cli EXCEPT ![c] = Finish(@, "succeeded")]
       ELSE Goto(c, "check")
    /\ UNCHANGED <<group, dirs, now>>

\* Everything is verified again, then the child is started in a group of its own.
Spawn(c) ==
    /\ At(c, "check") /\ (cli[c].kind = NoKind \/ Verified(c))
    /\ Drop(c, "run")
    /\ group' = [group EXCEPT ![c] = [@ EXCEPT !.leader = "running", !.zero = FALSE]]
    /\ UNCHANGED <<dirs, now>>

\* A signal is noticed: SIGTERM to the group, then up to 250 ms of grace.
Terminate(c) ==
    /\ At(c, "run") /\ cli[c].sig
    /\ Goto(c, "grace")
    /\ UNCHANGED <<group, dirs, now>>

\* Mutant of GraceOver: SIGTERM was enough.
GraceOverPolite(c) ==
    /\ At(c, "grace")
    /\ Goto(c, "reap")
    /\ UNCHANGED <<group, dirs, now>>

GraceOver(c) ==
    /\ At(c, "grace")
    /\ Goto(c, "reap")
    /\ group' = [group EXCEPT ![c] = Killed(@)]
    /\ UNCHANGED <<dirs, now>>

\* Mutant of ChildEnded: the leader is reaped and what it left in its group runs on.
ChildEndedAlone(c) ==
    /\ At(c, "run") /\ group[c].leader = "zombie"
    /\ Goto(c, "reap")
    /\ UNCHANGED <<group, dirs, now>>

\* The leader has ended; it is not reaped before its group is killed.
ChildEnded(c) ==
    /\ At(c, "run") /\ group[c].leader = "zombie"
    /\ Goto(c, "reap")
    /\ group' = [group EXCEPT ![c] = Killed(@)]
    /\ UNCHANGED <<dirs, now>>

\* The leader is waited for and the control read again.
Reap(c) ==
    /\ At(c, "reap") /\ group[c].leader = "zombie"
    /\ group' = [group EXCEPT ![c].leader = "none"]
    /\ cli' = [cli EXCEPT ![c] =
                  IF @.result = "error" THEN Finish(@, "error")
                  ELSE IF @.sig THEN Finish(@, "stopped")
                  ELSE IF ~group[c].zero THEN Finish(@, "failed")
                  ELSE [@ EXCEPT !.pc = "step", !.step = cli[c].step + 1]]
    /\ UNCHANGED <<dirs, now>>

\* A signal that came while the cache was finished still takes the success away.
Return(c) ==
    /\ At(c, "return")
    /\ End(c, IF cli[c].sig /\ cli[c].result # "error" THEN "stopped" ELSE cli[c].result)
    /\ UNCHANGED <<group, dirs, now>>

-----------------------------------------------------------------------------
(* What children do, and SIGKILL to the CLI.                                 *)

LeaderExits(c) ==
    /\ group[c].leader = "running"
    /\ \E z \in BOOLEAN : group' = [group EXCEPT ![c] = [@ EXCEPT !.leader = "zombie", !.zero = z]]
    /\ UNCHANGED <<cli, dirs, now>>

\* What was killed ends.
Dies(c) ==
    /\ \/ group[c].leader = "doomed" /\ group' = [group EXCEPT ![c].leader = "zombie"]
       \/ group[c].worker = "doomed" /\ group' = [group EXCEPT ![c].worker = "none"]
    /\ UNCHANGED <<cli, dirs, now>>

Forks(c) ==
    /\ group[c].leader = "running" /\ group[c].worker = "none"
    /\ group' = [group EXCEPT ![c].worker = "running"]
    /\ UNCHANGED <<cli, dirs, now>>

Detaches(c) ==
    /\ group[c].worker = "running"
    /\ group' = [group EXCEPT ![c].worker = "detached"]
    /\ UNCHANGED <<cli, dirs, now>>

WorkerExits(c) ==
    /\ \/ group[c].worker = "running" /\ group' = [group EXCEPT ![c].worker = "none"]
       \/ group[c].worker = "detached" /\ group' = [group EXCEPT ![c].worker = "departed"]
    /\ UNCHANGED <<cli, dirs, now>>

Writes(c) ==
    /\ Writing(c) /\ cli[c].kind # NoKind
    /\ dirs[cli[c].kind].state # "absent" /\ dirs[cli[c].kind].size < MaxSize
    /\ dirs' = [dirs EXCEPT ![cli[c].kind].size = @ + 1]
    /\ UNCHANGED <<cli, group, now>>

KillCli(c) ==
    /\ Active(c)
    /\ cli' = [cli EXCEPT ![c] = Ended(@, "dead", "none")]
    /\ group' = [group EXCEPT ![c] = [leader |-> "none", zero |-> FALSE,
                                     worker |-> CASE Writing(c) -> "detached"
                                                  [] Living(c) /\ ~Writing(c) -> "doomed"
                                                  [] OTHER -> "none"]]
    /\ UNCHANGED <<dirs, now>>

Maintain(c) == LockMaintenance(c) \/ Report(c) \/ Pruned(c)
Storage(c) == Scan(c) \/ Reclaim(c) \/ Unlink(c) \/ Reclaimed(c) \/ Enforced(c)
Prepare(c) == \/ CreateRoot(c) \/ ClaimRoot(c) \/ CreateCache(c) \/ ClaimCache(c) \/ WriteAccess(c)
              \/ LockLease(c) \/ Touch(c) \/ Rename(c) \/ Verify(c)
Execute(c) == \/ LockOperation(c) \/ Reauthenticate(c) \/ NextStep(c) \/ Spawn(c) \/ Terminate(c)
              \/ GraceOver(c) \/ ChildEnded(c) \/ Reap(c) \/ Return(c)
Advance(c) == Maintain(c) \/ Storage(c) \/ Prepare(c) \/ Execute(c) \/ Fail(c)
Children(c) == LeaderExits(c) \/ Forks(c) \/ Detaches(c) \/ WorkerExits(c) \/ Writes(c)

Next == \E c \in Clis : Start(c) \/ Interrupt(c) \/ Advance(c) \/ Children(c) \/ Dies(c) \/ KillCli(c)

\* A process of the CLI is scheduled, and what is killed ends; nothing makes a child end by itself.
Fairness == \A c \in Clis : WF_vars(Advance(c)) /\ WF_vars(Dies(c))

Spec == Init /\ [][Next]_vars /\ Fairness

-----------------------------------------------------------------------------
(* Properties.                                                               *)

\* docs/getting-started.md: "SIGKILL of the CLI cannot make a surviving child eligible for
\* cleanup".  Nobody removes anything of a cache that an operation has leased or that a process
\* with an inherited lease may still write to.
ActiveCachesKept ==
    [][\A k \in Kinds : (\E c \in Clis : Uses(c, k)) => (dirs[k].state = "ready" => dirs'[k].state = "ready")]_vars

\* Two operations, or an operation and what another has left running, never build in one cache.
CacheUsedByOne ==
    \A k \in Kinds, c, d \in Clis : Uses(c, k) /\ Uses(d, k) => c = d

\* docs/getting-started.md: "Existing unclaimed directories are never adopted, even if empty".  A
\* directory without a claim stays as it is, and nobody sets about claiming or removing it, unless
\* it is the process that made it or is emptying it that goes on.
Working(d) == \E c \in Clis : \/ cli[c].pc = "claim" /\ d = Root
                              \/ cli[c].pc = "mark" /\ d = cli[c].kind
                              \/ cli[c].pc = "removing" /\ d \in cli[c].victims
UnclaimedNotAdopted ==
    [][\A d \in Dirs : dirs[d].state = "bare" /\ ~Working(d) => dirs'[d] = dirs[d] /\ ~Working(d)']_vars

\* A success reports what is so: every step exited with zero and no signal came before it
\* returned, its child is reaped and nothing of the child's group runs on, and, as
\* docs/getting-started.md has it, "a successful operation satisfies the measured boundary": the
\* caches are within the budget, unless a process nobody supervises any more wrote.
Stray(c) == cli[c].pc = "dead" \/ group[c].worker \in {"detached", "departed"}
SuccessIsTrue ==
    [][\A c \in Clis : cli[c].pc = "return" /\ cli'[c].result = "succeeded" /\ cli'[c].pc = "done" =>
        /\ cli[c].step = Steps /\ group[c].zero /\ ~cli[c].sig
        /\ group[c].leader = "none" /\ group[c].worker # "running"
        /\ cli[c].kind # NoKind /\ (\A d \in Clis : ~Stray(d)) =>
              Total([k \in Kinds |-> dirs'[k].size]) <= Budget]_vars

\* An operation that was asked to stop ends, even when its child ignores SIGTERM: none is for ever
\* under way with a signal pending, which stays pending as long as the operation lasts.
InterruptEnds == \A c \in Clis : []<>~(cli[c].sig /\ Active(c))
=============================================================================
