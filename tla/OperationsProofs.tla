--------------------------- MODULE OperationsProofs ---------------------------
(***************************************************************************)
(* Proofs about Operations, for any number of processes of the CLI, any    *)
(* caches, budget and number of steps.                                     *)
(***************************************************************************)
EXTENDS Operations, TLAPS

\* The step of one process or of its children.
Moves(c) == Start(c) \/ Interrupt(c) \/ Advance(c) \/ Children(c) \/ Dies(c) \/ KillCli(c)

\* What a process has, wherever it is: a step that runs is one of the plan; the lease of its cache
\* once its session is prepared; the application lock to change anything with; a lease of all that
\* it removes.
Caching == {"inspect", "create", "claim", "mkdir", "mark", "access", "lease", "touch", "rename",
            "verify", "trim", "trimmed"}
Leased == {"touch", "rename", "verify", "trim", "trimmed", "step", "check", "run", "grace", "reap"}
InLoop == {"step", "check", "run", "grace", "reap"}
Good(p) ==
    /\ p.pc \in {"check", "run", "grace", "reap"} => p.step < Steps
    /\ p.pc = "idle" => ~p.sess /\ p.phase = "prepare"
    /\ p.phase = "work" => p.pc \in InLoop
    /\ p.pc \in Caching \/ (p.pc = "removing" /\ p.op # "prune") \/ p.sess => p.kind # NoKind
    /\ p.kind # NoKind /\ (p.pc \in Leased \/ p.phase # "prepare") => p.sess
    /\ p.pc \notin {"idle", "lock", "maintain", "done", "dead"} => p.lock = "exclusive"
    /\ p.pc = "maintain" /\ p.op = "prune" => p.lock = "exclusive"
    /\ p.pc = "removing" => p.victims \subseteq p.insp

GoodInv == \A c \in Clis : Good(cli[c]) /\ (cli[c].pc = "idle" => ~Living(c))

\* The application lock is exclusive.
LockInv == \A c, d \in Clis : c # d /\ cli[c].lock = "exclusive" => cli[d].lock = "none"

\* It keeps a new cache as its maker left it.
MarkInv == \A c \in Clis : cli[c].pc = "mark" => dirs[cli[c].kind].state = "bare"

\* A lease is held once: by a storage or by an operation with its children.
LeaseInv == \A c, d \in Clis : \A k \in Kinds :
    /\ c # d => ~(Uses(c, k) /\ Uses(d, k)) /\ ~(k \in cli[c].insp /\ k \in cli[d].insp)
    /\ ~(Uses(c, k) /\ k \in cli[d].insp)

Inv == TypeOK /\ GoodInv /\ LockInv /\ MarkInv /\ LeaseInv

USE OperationsAssumption DEF Root, Dirs

Results == {"none", "succeeded", "failed", "stopped", "error"}

LEMMA NothingType == Nothing \in [Kinds -> 0..MaxSize]
BY DEF Nothing

LEMMA IdleType == Idle \in Processes
BY NothingType DEF Idle, Processes, Pcs, Commands

LEMMA EndedType ==
    \A p \in Processes, pc \in {"done", "dead"}, r \in Results : Ended(p, pc, r) \in Processes
<1>1. \A p \in Processes : p.op \in Commands /\ p.kind \in Kinds \cup {NoKind}
  BY DEF Processes
<1>2. "done" \in Pcs /\ "dead" \in Pcs
  BY DEF Pcs
<1>3. ASSUME NEW p \in Processes, NEW o \in Commands, NEW k \in Kinds \cup {NoKind}, NEW pc \in Pcs, NEW r \in Results
      PROVE  [p EXCEPT !.op = o, !.kind = k, !.pc = pc, !.result = r] \in Processes
  BY DEF Processes, Results
<1> QED BY <1>1, <1>2, <1>3, IdleType DEF Ended

\* What each of the updates of a process leaves is a process.
LEMMA UpdateType ==
    ASSUME NEW p \in Processes
    PROVE  /\ \A o \in Commands, k \in Kinds \cup {NoKind} : [p EXCEPT !.op = o, !.kind = k, !.pc = "lock"] \in Processes
           /\ [p EXCEPT !.sig = TRUE] \in Processes
           /\ \A l \in {"none", "shared", "exclusive"}, pc \in Pcs : [p EXCEPT !.lock = l, !.pc = pc] \in Processes
           /\ [p EXCEPT !.pc = "step", !.phase = "work"] \in Processes
           /\ \A pc \in Pcs : [p EXCEPT !.pc = pc] \in Processes
           /\ [p EXCEPT !.pc = "reap", !.result = "error"] \in Processes
           /\ \A v \in SUBSET Kinds : [p EXCEPT !.victims = v, !.pc = "removing"] \in Processes
           /\ [p EXCEPT !.sess = TRUE, !.pc = "touch"] \in Processes
           /\ \A s \in 0..Steps : [p EXCEPT !.pc = "step", !.step = s] \in Processes
<1>1. "lock" \in Pcs /\ "step" \in Pcs /\ "reap" \in Pcs /\ "removing" \in Pcs /\ "touch" \in Pcs
  BY DEF Pcs
<1>2. \A o \in Commands, k \in Kinds \cup {NoKind} : [p EXCEPT !.op = o, !.kind = k, !.pc = "lock"] \in Processes
  BY <1>1 DEF Processes
<1>3. [p EXCEPT !.sig = TRUE] \in Processes
  BY DEF Processes
<1>4. \A l \in {"none", "shared", "exclusive"}, pc \in Pcs : [p EXCEPT !.lock = l, !.pc = pc] \in Processes
  BY DEF Processes
<1>5. [p EXCEPT !.pc = "step", !.phase = "work"] \in Processes
  BY <1>1 DEF Processes
<1>6. \A pc \in Pcs : [p EXCEPT !.pc = pc] \in Processes
  BY DEF Processes
<1>7. [p EXCEPT !.pc = "reap", !.result = "error"] \in Processes
  BY <1>1 DEF Processes
<1>8. \A v \in SUBSET Kinds : [p EXCEPT !.victims = v, !.pc = "removing"] \in Processes
  BY <1>1 DEF Processes
<1>9. [p EXCEPT !.sess = TRUE, !.pc = "touch"] \in Processes
  BY <1>1 DEF Processes
<1>10. \A s \in 0..Steps : [p EXCEPT !.pc = "step", !.step = s] \in Processes
  BY <1>1 DEF Processes
<1> QED BY <1>2, <1>3, <1>4, <1>5, <1>6, <1>7, <1>8, <1>9, <1>10

\* The same for what a storage leaves behind.
LEMMA StorageType ==
    ASSUME NEW p \in Processes
    PROVE  /\ \A pc \in Pcs : Dropped(p, pc) \in Processes
           /\ \A r \in Results : Finish(p, r) \in Processes
           /\ [Dropped(p, "step") EXCEPT !.phase = "work"] \in Processes
           /\ \A pc \in Pcs : [p EXCEPT !.pc = pc, !.visited = {}, !.seen = Nothing, !.victims = {}] \in Processes
           /\ \A v, i \in SUBSET Kinds, k \in Kinds, n \in 0..MaxSize :
                [p EXCEPT !.visited = v, !.seen[k] = n, !.insp = i] \in Processes
<1>1. "step" \in Pcs /\ "return" \in Pcs /\ "verify" \in Pcs
  BY DEF Pcs, Inspecting
<1>2. \A pc \in Pcs : Dropped(p, pc) \in Processes
  BY NothingType DEF Dropped, Processes
<1>3. \A q \in Processes, r \in Results : [q EXCEPT !.phase = "finish", !.result = r] \in Processes
  BY DEF Processes, Results
<1>4. \A r \in Results : Finish(p, r) \in Processes
  BY <1>1, <1>2, <1>3, Zenon DEF Finish
<1>5. \A q \in Processes : [q EXCEPT !.phase = "work"] \in Processes
  BY DEF Processes
<1>6. \A pc \in Pcs : [p EXCEPT !.pc = pc, !.visited = {}, !.seen = Nothing, !.victims = {}] \in Processes
  BY NothingType DEF Processes
<1>7. \A v, i \in SUBSET Kinds, k \in Kinds, n \in 0..MaxSize :
                [p EXCEPT !.visited = v, !.seen[k] = n, !.insp = i] \in Processes
  BY DEF Processes
<1> QED BY <1>1, <1>2, <1>4, <1>5, <1>6, <1>7

\* The pieces that most actions are made of.
LEMMA ProcessType ==
    ASSUME cli \in [Clis -> Processes], NEW c \in Clis
    PROVE  /\ \A pc \in Pcs : Goto(c, pc) => cli' \in [Clis -> Processes]
           /\ \A pc \in Pcs : Drop(c, pc) => cli' \in [Clis -> Processes]
           /\ \A r \in Results : End(c, r) => cli' \in [Clis -> Processes]
           /\ \A r \in Results : cli' = [cli EXCEPT ![c] = Finish(@, r)] => cli' \in [Clis -> Processes]
<1>1. cli[c] \in Processes /\ \A p \in Processes : [cli EXCEPT ![c] = p] \in [Clis -> Processes]
  OBVIOUS
<1>2. ASSUME NEW pc \in Pcs, Goto(c, pc) PROVE cli' \in [Clis -> Processes]
  BY <1>1, <1>2, UpdateType DEF Goto
<1>3. ASSUME NEW pc \in Pcs, Drop(c, pc) PROVE cli' \in [Clis -> Processes]
  BY <1>1, <1>3, StorageType DEF Drop
<1>4. ASSUME NEW r \in Results, End(c, r) PROVE cli' \in [Clis -> Processes]
  BY <1>1, <1>4, EndedType DEF End
<1>5. ASSUME NEW r \in Results, cli' = [cli EXCEPT ![c] = Finish(@, r)] PROVE cli' \in [Clis -> Processes]
  BY <1>1, <1>5, StorageType
<1> QED BY <1>2, <1>3, <1>4, <1>5

LEMMA KilledType == \A g \in Groups : Killed(g) \in Groups
BY DEF Killed, Groups

\* A step of a process keeps the types.
LEMMA AdvanceType ==
    ASSUME TypeOK, GoodInv, NEW c \in Clis, Advance(c)
    PROVE  TypeOK'
<1>1. /\ cli \in [Clis -> Processes] /\ group \in [Clis -> Groups]
      /\ dirs \in [Dirs -> Directories] /\ now \in 1..MaxClock
  BY DEF TypeOK
<1>2. cli[c] \in Processes /\ \A p \in Processes : [cli EXCEPT ![c] = p] \in [Clis -> Processes]
  BY <1>1
<1>3. group[c] \in Groups /\ \A g \in Groups : [group EXCEPT ![c] = g] \in [Clis -> Groups]
  BY <1>1
<1>p. Pcs = {"idle", "lock", "plan", "removing", "create", "claim", "mkdir", "mark", "access", "lease",
             "touch", "rename", "step", "run", "grace", "reap", "return", "done", "dead", "inspect",
             "verify", "trim", "trimmed", "check", "maintain", "pruned"}
  BY DEF Pcs, Inspecting
<1>4. ASSUME LockOperation(c) PROVE TypeOK'
  <2>1. [cli[c] EXCEPT !.lock = "exclusive", !.pc = "plan"] \in Processes
    BY <1>2, <1>p, UpdateType
  <2>2. cli' \in [Clis -> Processes]
    BY <1>1, <1>2, <1>4, <2>1, ProcessType DEF LockOperation, Results
  <2> QED BY <1>1, <1>4, <2>2 DEF LockOperation, TypeOK
<1>5. ASSUME LockMaintenance(c) PROVE TypeOK'
  <2>1. \A l \in {"none", "shared", "exclusive"} : [cli[c] EXCEPT !.lock = l, !.pc = "maintain"] \in Processes
    BY <1>2, <1>p, UpdateType
  <2>2. cli' \in [Clis -> Processes]
    BY <1>1, <1>2, <1>5, <2>1, ProcessType DEF LockMaintenance, Results
  <2> QED BY <1>1, <1>5, <2>2 DEF LockMaintenance, TypeOK
<1>6. ASSUME Reauthenticate(c) PROVE TypeOK'
  BY <1>1, <1>2, <1>p, <1>6, UpdateType DEF Reauthenticate, TypeOK
<1>7. ASSUME Fail(c) PROVE TypeOK'
  <2>1. cli' \in [Clis -> Processes]
    <3>1. CASE cli[c].phase # "work"
      BY <1>1, <1>2, <1>7, <3>1, ProcessType DEF Fail, Results
    <3>2. CASE cli[c].phase = "work" /\ cli[c].pc \in {"run", "grace"}
      BY <1>1, <1>2, <1>7, <3>2, UpdateType DEF Fail
    <3>3. CASE cli[c].phase = "work" /\ cli[c].pc \notin {"run", "grace"}
      BY <1>1, <1>2, <1>7, <3>3, ProcessType DEF Fail, Results
    <3> QED BY <3>1, <3>2, <3>3
  <2>2. group' \in [Clis -> Groups]
    BY <1>1, <1>3, <1>7, KilledType DEF Fail
  <2> QED BY <1>1, <1>7, <2>1, <2>2 DEF Fail, TypeOK
<1>8. ASSUME Scan(c) PROVE TypeOK'
  <2>1. PICK k \in Kinds : cli' = [cli EXCEPT ![c] = [@ EXCEPT !.visited = cli[c].visited \cup {k}, !.seen[k] = dirs[k].size,
                                              !.insp = cli[c].insp \cup {j \in {k} : LeaseFree(j)}]]
    BY <1>8 DEF Scan, Present
  <2>2. dirs[k].size \in 0..MaxSize
    BY <1>1 DEF Directories
  <2>3. cli[c].visited \cup {k} \in SUBSET Kinds /\ cli[c].insp \cup {j \in {k} : LeaseFree(j)} \in SUBSET Kinds
    BY <1>2 DEF Processes
  <2>4. \A v, i \in SUBSET Kinds : [cli[c] EXCEPT !.visited = v, !.seen[k] = dirs[k].size, !.insp = i] \in Processes
    BY <1>2, <2>2, StorageType
  <2>5. cli' \in [Clis -> Processes]
    BY <1>2, <2>1, <2>3, <2>4
  <2> QED BY <1>1, <1>8, <2>5 DEF Scan, TypeOK
<1>9. ASSUME Reclaim(c) PROVE TypeOK'
  <2>1. Selected(c) \in SUBSET Kinds
    BY <1>2 DEF Selected, Candidates, Processes
  <2> QED BY <1>1, <1>2, <1>9, <2>1, UpdateType DEF Reclaim, TypeOK
<1>10. ASSUME Report(c) \/ Pruned(c) PROVE TypeOK'
  BY <1>1, <1>10, ProcessType DEF Report, Pruned, Results, TypeOK
<1>11. ASSUME Unlink(c) PROVE TypeOK'
  <2>1. dirs' \in [Dirs -> Directories]
    BY <1>1, <1>11 DEF Unlink, Directories, Directory, Absent, Present
  <2> QED BY <1>1, <1>11, <2>1 DEF Unlink, TypeOK
<1>12. ASSUME Reclaimed(c) PROVE TypeOK'
  <2>1. \A pc \in Pcs : [cli[c] EXCEPT !.pc = pc, !.visited = {}, !.seen = Nothing, !.victims = {}] \in Processes
    BY <1>2, StorageType
  <2>2. CASE cli[c].op = "prune" \/ cli[c].sess
    <3>1. PICK pc \in Pcs : cli' = [cli EXCEPT ![c] = [@ EXCEPT !.pc = pc, !.visited = {}, !.seen = Nothing, !.victims = {}]]
      BY <1>p, <1>12, <2>2 DEF Reclaimed
    <3> QED BY <1>1, <1>2, <1>12, <2>1, <3>1 DEF Reclaimed, TypeOK
  <2>3. CASE ~(cli[c].op = "prune" \/ cli[c].sess)
    BY <1>1, <1>p, <1>12, <2>3, ProcessType DEF Reclaimed, TypeOK, Results
  <2> QED BY <2>2, <2>3
<1>13. ASSUME Enforced(c) PROVE TypeOK'
  <2>1. Dropped(cli[c], "return") \in Processes /\ [Dropped(cli[c], "step") EXCEPT !.phase = "work"] \in Processes
    BY <1>2, <1>p, StorageType
  <2>2. cli' \in [Clis -> Processes]
    BY <1>1, <1>2, <1>13, <2>1, ProcessType DEF Enforced, Results
  <2> QED BY <1>1, <1>13, <2>2 DEF Enforced, TypeOK
<1>14. ASSUME CreateRoot(c) \/ ClaimRoot(c) \/ CreateCache(c) \/ ClaimCache(c) PROVE TypeOK'
  <2>1. cli' \in [Clis -> Processes]
    BY <1>1, <1>p, <1>14, ProcessType DEF CreateRoot, ClaimRoot, CreateCache, ClaimCache
  <2>2. dirs' \in [Dirs -> Directories]
    BY <1>1, <1>14 DEF CreateRoot, ClaimRoot, CreateCache, ClaimCache, Put, Directories
  <2> QED BY <1>1, <1>14, <2>1, <2>2 DEF CreateRoot, ClaimRoot, CreateCache, ClaimCache, TypeOK
<1>15. ASSUME WriteAccess(c) PROVE TypeOK'
  <2>1. dirs' \in [Dirs -> Directories]
    <3>1. Directory("ready", 1, 0) \in Directories
      BY DEF Directory, Directories
    <3> QED BY <1>1, <1>15, <3>1 DEF WriteAccess
  <2> QED BY <1>1, <1>p, <1>15, <2>1, ProcessType DEF WriteAccess, TypeOK
<1>16. ASSUME LockLease(c) PROVE TypeOK'
  BY <1>1, <1>2, <1>16, UpdateType, ProcessType DEF LockLease, TypeOK, Results
<1>17. ASSUME Touch(c) PROVE TypeOK'
  <2>1. dirs' \in [Dirs -> Directories]
    BY <1>1, <1>17 DEF Touch, Directories
  <2> QED BY <1>1, <1>p, <1>17, <2>1, ProcessType DEF Touch, TypeOK
<1>18. ASSUME Rename(c) PROVE TypeOK'
  <2>1. PICK t \in now..MaxClock : now' = t /\ dirs' = [dirs EXCEPT ![cli[c].kind] = [@ EXCEPT !.next = FALSE, !.used = t]]
    BY <1>18 DEF Rename
  <2>2. t \in 1..MaxClock /\ t \in 0..MaxClock
    BY <1>1, <2>1
  <2>3. dirs' \in [Dirs -> Directories]
    <3>1. ASSUME NEW e \in Directories PROVE [e EXCEPT !.next = FALSE, !.used = t] \in Directories
      BY <2>2 DEF Directories
    <3> QED BY <1>1, <2>1, <3>1
  <2> QED BY <1>1, <1>p, <1>18, <2>1, <2>2, <2>3, ProcessType DEF Rename, TypeOK
<1>19. ASSUME Verify(c) PROVE TypeOK'
  BY <1>1, <1>p, <1>19, ProcessType DEF Verify, TypeOK
<1>20. ASSUME NextStep(c) PROVE TypeOK'
  BY <1>1, <1>p, <1>20, ProcessType DEF NextStep, TypeOK, Results
<1>21. ASSUME Spawn(c) PROVE TypeOK'
  <2>1. group' \in [Clis -> Groups]
    BY <1>1, <1>21 DEF Spawn, Groups
  <2> QED BY <1>1, <1>p, <1>21, <2>1, ProcessType DEF Spawn, TypeOK
<1>22. ASSUME Terminate(c) \/ GraceOver(c) \/ ChildEnded(c) PROVE TypeOK'
  BY <1>1, <1>3, <1>p, <1>22, ProcessType, KilledType DEF Terminate, GraceOver, ChildEnded, TypeOK
<1>23. ASSUME Reap(c) PROVE TypeOK'
  <2>1. group' \in [Clis -> Groups]
    BY <1>1, <1>23 DEF Reap, Groups
  <2>2. cli[c].step + 1 \in 0..Steps
    BY <1>2, <1>23 DEF Reap, At, GoodInv, Good, Processes
  <2>3. [cli[c] EXCEPT !.pc = "step", !.step = cli[c].step + 1] \in Processes
    BY <1>2, <2>2, UpdateType
  <2>4. \A r \in Results : Finish(cli[c], r) \in Processes
    BY <1>2, StorageType
  <2>5. cli' \in [Clis -> Processes]
    BY <1>2, <1>23, <2>3, <2>4 DEF Reap, Results
  <2> QED BY <1>1, <1>23, <2>1, <2>5 DEF Reap, TypeOK
<1>24. ASSUME Return(c) PROVE TypeOK'
  <2>1. cli[c].result \in Results
    BY <1>2 DEF Processes, Results
  <2> QED BY <1>1, <1>24, <2>1, ProcessType DEF Return, TypeOK, Results
<1> QED
  BY <1>4, <1>5, <1>6, <1>7, <1>8, <1>9, <1>10, <1>11, <1>12, <1>13, <1>14, <1>15, <1>16, <1>17, <1>18,
     <1>19, <1>20, <1>21, <1>22, <1>23, <1>24 DEF Advance, Maintain, Storage, Prepare, Execute

\* A step by anybody keeps the types.
LEMMA MovesType ==
    ASSUME TypeOK, GoodInv, NEW c \in Clis, Moves(c)
    PROVE  TypeOK'
<1>1. /\ cli \in [Clis -> Processes] /\ group \in [Clis -> Groups]
      /\ dirs \in [Dirs -> Directories] /\ now \in 1..MaxClock
  BY DEF TypeOK
<1>2. cli[c] \in Processes /\ \A p \in Processes : [cli EXCEPT ![c] = p] \in [Clis -> Processes]
  BY <1>1
<1>3. ASSUME Start(c) PROVE TypeOK'
  <2>1. PICK o \in Commands, k \in Kinds \cup {NoKind} :
            cli' = [cli EXCEPT ![c] = [@ EXCEPT !.op = o, !.kind = k, !.pc = "lock"]]
    BY <1>3 DEF Start
  <2> QED BY <1>1, <1>2, <1>3, <2>1, UpdateType DEF Start, TypeOK
<1>4. ASSUME Interrupt(c) PROVE TypeOK'
  BY <1>1, <1>2, <1>4, UpdateType DEF Interrupt, TypeOK
<1>5. ASSUME LeaderExits(c) PROVE TypeOK'
  <2>1. group' \in [Clis -> Groups]
    <3>1. ASSUME NEW g \in Groups, NEW z \in BOOLEAN PROVE [g EXCEPT !.leader = "zombie", !.zero = z] \in Groups
      BY DEF Groups
    <3>2. PICK z \in BOOLEAN : group' = [group EXCEPT ![c] = [@ EXCEPT !.leader = "zombie", !.zero = z]]
      BY <1>5 DEF LeaderExits
    <3> QED BY <1>1, <3>1, <3>2
  <2> QED BY <1>1, <1>5, <2>1 DEF LeaderExits, TypeOK
<1>6. ASSUME Forks(c) \/ Detaches(c) \/ WorkerExits(c) \/ Dies(c) PROVE TypeOK'
  <2>1. group' \in [Clis -> Groups]
    BY <1>1, <1>6 DEF Forks, Detaches, WorkerExits, Dies, Groups
  <2> QED BY <1>1, <1>6, <2>1 DEF Forks, Detaches, WorkerExits, Dies, TypeOK
<1>7. ASSUME Writes(c) PROVE TypeOK'
  <2>1. dirs' \in [Dirs -> Directories]
    <3>1. ASSUME NEW e \in Directories, e.size < MaxSize PROVE [e EXCEPT !.size = @ + 1] \in Directories
      BY <3>1 DEF Directories
    <3>2. cli[c].kind \in Dirs
      BY <1>2, <1>7 DEF Writes, Processes
    <3> QED BY <1>1, <1>7, <3>1, <3>2 DEF Writes
  <2> QED BY <1>1, <1>7, <2>1 DEF Writes, TypeOK
<1>8. ASSUME KillCli(c) PROVE TypeOK'
  <2>1. group' \in [Clis -> Groups]
    BY <1>1, <1>8 DEF KillCli, Groups
  <2>2. Ended(cli[c], "dead", "none") \in Processes
    BY <1>2, EndedType DEF Results
  <2> QED BY <1>1, <1>2, <1>8, <2>1, <2>2 DEF KillCli, TypeOK
<1> QED BY <1>3, <1>4, <1>5, <1>6, <1>7, <1>8, AdvanceType DEF Moves, Children

\* No more than before is used, inspected or locked.
Keeps(p, q) == q.kind = p.kind /\ (q.sess => p.sess) /\ q.insp \subseteq p.insp
Tame(p, q) == Keeps(p, q) /\ q.lock \in {p.lock, "none"}

LEMMA EndedGood ==
    ASSUME NEW p \in Processes, NEW pc \in {"done", "dead"}, NEW r \in Results
    PROVE  Good(Ended(p, pc, r)) /\ Tame(p, Ended(p, pc, r)) /\ Ended(p, pc, r).pc = pc
BY DEF Ended, Idle, Good, Tame, Keeps, Caching, Leased, InLoop, Processes

LEMMA FinishGood ==
    ASSUME NEW p \in Processes, NEW r \in Results, Good(p), p.pc \in {"step", "check", "reap"}
    PROVE  Good(Finish(p, r)) /\ Tame(p, Finish(p, r)) /\ Finish(p, r).pc \in {"verify", "return"}
BY DEF Finish, Dropped, Good, Tame, Keeps, Caching, Leased, InLoop, Processes

LEMMA DroppedGood ==
    ASSUME NEW p \in Processes, NEW pc \in {"create", "trim", "touch", "return", "run"}, Good(p),
           p.lock = "exclusive", pc \in Caching => p.kind # NoKind,
           pc \in {"trim", "touch", "return", "run"} /\ p.kind # NoKind => p.sess,
           p.phase = "work" => pc = "run", pc = "run" => p.step < Steps
    PROVE  Good(Dropped(p, pc)) /\ Tame(p, Dropped(p, pc)) /\ Dropped(p, pc).pc = pc
BY DEF Dropped, Good, Tame, Keeps, Caching, Leased, InLoop, Processes

LEMMA GotoGood ==
    ASSUME NEW p \in Processes, NEW pc \in Pcs, Good(p), pc \notin {"idle", "removing"},
           p.lock = "exclusive", pc \in Caching => p.kind # NoKind,
           p.phase = "work" => pc \in InLoop,
           pc \in Leased /\ p.kind # NoKind => p.sess,
           pc \in {"check", "run", "grace", "reap"} => p.step < Steps
    PROVE  Good([p EXCEPT !.pc = pc]) /\ Tame(p, [p EXCEPT !.pc = pc]) /\ [p EXCEPT !.pc = pc].pc = pc
BY DEF Good, Tame, Keeps, Caching, Leased, InLoop, Processes

\* A step of a process leaves it in order, and takes a lock or a lease only where it says so.
LEMMA AdvanceGood ==
    ASSUME TypeOK, GoodInv, NEW c \in Clis, Advance(c)
    PROVE  /\ Good(cli'[c]) /\ cli'[c].pc # "idle" /\ (cli'[c].pc = "mark" => CreateCache(c))
           /\ Keeps(cli[c], cli'[c]) \/ Scan(c) \/ LockLease(c)
           /\ cli'[c].lock \in {cli[c].lock, "none"} \/ LockOperation(c) \/ LockMaintenance(c)
<1> DEFINE Goal == /\ Good(cli'[c]) /\ cli'[c].pc # "idle" /\ (cli'[c].pc = "mark" => CreateCache(c))
                   /\ Keeps(cli[c], cli'[c]) \/ Scan(c) \/ LockLease(c)
                   /\ cli'[c].lock \in {cli[c].lock, "none"} \/ LockOperation(c) \/ LockMaintenance(c)
<1>1. cli \in [Clis -> Processes] /\ cli[c] \in Processes /\ Good(cli[c])
  BY DEF TypeOK, GoodInv
<1>2. \A p : cli' = [cli EXCEPT ![c] = p] => cli'[c] = p
  BY <1>1
<1>3. \A r \in Results : End(c, r) => Good(cli'[c]) /\ Tame(cli[c], cli'[c]) /\ cli'[c].pc = "done"
  BY <1>1, <1>2, EndedGood DEF End
<1>p. Pcs = {"idle", "lock", "plan", "removing", "create", "claim", "mkdir", "mark", "access", "lease",
             "touch", "rename", "step", "run", "grace", "reap", "return", "done", "dead", "inspect",
             "verify", "trim", "trimmed", "check", "maintain", "pruned"}
  BY DEF Pcs, Inspecting
<1>g. ASSUME NEW pc \in Pcs, Goto(c, pc), pc \notin {"idle", "removing"},
             cli[c].lock = "exclusive", pc \in Caching => cli[c].kind # NoKind,
             cli[c].phase = "work" => pc \in InLoop,
             pc \in Leased /\ cli[c].kind # NoKind => cli[c].sess,
             pc \in {"check", "run", "grace", "reap"} => cli[c].step < Steps
      PROVE  Good(cli'[c]) /\ Tame(cli[c], cli'[c]) /\ cli'[c].pc = pc
  BY <1>1, <1>2, <1>g, GotoGood DEF Goto
<1>4. ASSUME LockOperation(c) PROVE Goal
  <2> DEFINE p == [cli[c] EXCEPT !.lock = "exclusive", !.pc = "plan"]
  <2>1. Good(p) /\ Keeps(cli[c], p) /\ p.pc = "plan"
    BY <1>1, <1>4 DEF Good, Keeps, Processes, Caching, Leased, InLoop, LockOperation, At
  <2> QED BY <1>2, <1>3, <1>4, <2>1 DEF LockOperation, Tame, Results
<1>5. ASSUME LockMaintenance(c) PROVE Goal
  <2>1. ASSUME NEW l \in {"none", "shared", "exclusive"}, cli[c].op = "prune" => l = "exclusive"
        PROVE  /\ Good([cli[c] EXCEPT !.lock = l, !.pc = "maintain"])
               /\ Keeps(cli[c], [cli[c] EXCEPT !.lock = l, !.pc = "maintain"])
               /\ [cli[c] EXCEPT !.lock = l, !.pc = "maintain"].pc = "maintain"
    BY <1>1, <1>5, <2>1 DEF Good, Keeps, Processes, Caching, Leased, InLoop, LockMaintenance, At
  <2> QED BY <1>2, <1>3, <1>5, <2>1 DEF LockMaintenance, Tame, Results
<1>6. ASSUME Reauthenticate(c) PROVE Goal
  <2>1. CASE cli[c].kind = NoKind
    BY <1>1, <1>2, <1>6, <2>1 DEF Reauthenticate, At, Good, Tame, Keeps, Processes, Caching, Leased, InLoop
  <2>2. CASE cli[c].kind # NoKind
    BY <1>1, <1>2, <1>6, <2>2 DEF Reauthenticate, At, Good, Tame, Keeps, Processes, Caching, Leased, InLoop
  <2> QED BY <2>1, <2>2
<1>7. ASSUME Fail(c) PROVE Goal
  <2>1. CASE cli[c].phase # "work"
    BY <1>3, <1>7, <2>1 DEF Tame, Fail, Results
  <2>2. CASE cli[c].phase = "work" /\ cli[c].pc \in {"run", "grace"}
    <3>1. cli'[c] = [cli[c] EXCEPT !.pc = "reap", !.result = "error"]
      BY <1>2, <1>7, <2>2 DEF Tame, Fail
    <3> QED BY <1>1, <2>2, <3>1 DEF Good, Tame, Keeps, Processes, Caching, Leased, InLoop
  <2>3. CASE cli[c].phase = "work" /\ cli[c].pc \notin {"run", "grace"}
    BY <1>1, <1>2, <1>7, <2>3, FinishGood DEF Tame, Fail, Good, InLoop, Results
  <2> QED BY <2>1, <2>2, <2>3
<1>8. ASSUME Scan(c) PROVE Goal
  <2>1. PICK k : cli'[c] = [cli[c] EXCEPT !.visited = cli[c].visited \cup {k}, !.seen[k] = dirs[k].size,
                                          !.insp = cli[c].insp \cup {j \in {k} : LeaseFree(j)}]
    BY <1>2, <1>8 DEF Scan
  <2>2. /\ cli'[c].pc = cli[c].pc /\ cli'[c].op = cli[c].op /\ cli'[c].kind = cli[c].kind
        /\ cli'[c].phase = cli[c].phase /\ cli'[c].sess = cli[c].sess /\ cli'[c].lock = cli[c].lock
        /\ cli'[c].step = cli[c].step
    BY <1>1, <2>1 DEF Processes
  <2> QED BY <1>1, <1>8, <2>2 DEF Scan, Inspecting, Good
<1>9. ASSUME Reclaim(c) PROVE Goal
  <2>1. Selected(c) \subseteq cli[c].insp
    BY DEF Selected, Candidates
  <2> QED BY <1>1, <1>2, <1>9, <2>1 DEF Reclaim, Good, Tame, Keeps, Processes, Caching, Leased, InLoop
<1>10. ASSUME Report(c) \/ Pruned(c) PROVE Goal
  BY <1>3, <1>10 DEF Tame, Report, Pruned, Results
<1>11. ASSUME Unlink(c) PROVE Goal
  BY <1>1, <1>11 DEF Unlink, Tame, Keeps, At
<1>12. ASSUME Reclaimed(c) PROVE Goal
  <2>1. CASE cli[c].op = "prune" \/ cli[c].sess
    <3>1. PICK pc \in Pcs : /\ cli' = [cli EXCEPT ![c] = [@ EXCEPT !.pc = pc, !.visited = {}, !.seen = Nothing, !.victims = {}]]
                            /\ pc = IF cli[c].sess THEN "trimmed" ELSE "pruned"
      BY <1>p, <1>12, <2>1 DEF Tame, Reclaimed
    <3> QED BY <1>1, <1>2, <1>12, <3>1 DEF Reclaimed, At, Good, Tame, Keeps, Processes, Caching, Leased, InLoop
  <2>2. CASE ~(cli[c].op = "prune" \/ cli[c].sess)
    BY <1>1, <1>2, <1>3, <1>12, <2>2, DroppedGood DEF Tame, Reclaimed, At, Drop, Results, Good, InLoop
  <2> QED BY <2>1, <2>2
<1>13. ASSUME Enforced(c) PROVE Goal
  <2>1. CASE cli[c].phase = "finish"
    BY <1>1, <1>2, <1>3, <1>13, <2>1, DroppedGood DEF Tame, Enforced, At, Results, Good, InLoop, Caching, Leased
  <2>2. CASE cli[c].phase # "finish"
    <3>1. /\ Good([Dropped(cli[c], "step") EXCEPT !.phase = "work"])
          /\ Tame(cli[c], [Dropped(cli[c], "step") EXCEPT !.phase = "work"])
          /\ [Dropped(cli[c], "step") EXCEPT !.phase = "work"].pc = "step"
      BY <1>1, <1>13 DEF Enforced, At, Dropped, Good, Tame, Keeps, Processes, Caching, Leased, InLoop
    <3> QED BY <1>2, <1>3, <1>13, <2>2, <3>1 DEF Tame, Enforced, Results
  <2> QED BY <2>1, <2>2
<1>14. ASSUME CreateRoot(c) \/ ClaimRoot(c) \/ CreateCache(c) \/ ClaimCache(c) \/ WriteAccess(c) PROVE Goal
  BY <1>1, <1>p, <1>g, <1>14
  DEF Tame, CreateRoot, ClaimRoot, CreateCache, ClaimCache, WriteAccess, At, Good, InLoop, Caching, Leased
<1>16. ASSUME LockLease(c) PROVE Goal
  <2> DEFINE p == [cli[c] EXCEPT !.sess = TRUE, !.pc = "touch"]
  <2>1. Good(p) /\ p.pc = "touch" /\ p.lock = cli[c].lock
    BY <1>1, <1>16 DEF Good, Processes, Caching, Leased, InLoop, LockLease, At
  <2> QED BY <1>2, <1>3, <1>16, <2>1 DEF LockLease, Tame, Results
<1>17. ASSUME Touch(c) \/ Rename(c) PROVE Goal
  BY <1>1, <1>p, <1>g, <1>17 DEF Tame, Touch, Rename, At, Good, InLoop, Caching, Leased
<1>19. ASSUME Verify(c) PROVE Goal
  BY <1>1, <1>2, <1>19, DroppedGood DEF Tame, Verify, At, Drop, Good, InLoop, Caching, Leased
<1>20. ASSUME NextStep(c) PROVE Goal
  <2>1. cli[c].step \in 0..Steps
    BY <1>1 DEF Processes
  <2>2. CASE cli[c].sig \/ cli[c].step = Steps
    BY <1>1, <1>2, <1>20, <2>2, FinishGood DEF Tame, NextStep, At, Results
  <2>3. CASE ~(cli[c].sig \/ cli[c].step = Steps)
    BY <1>1, <1>p, <1>g, <1>20, <2>1, <2>3 DEF Tame, NextStep, At, Good, InLoop, Caching, Leased
  <2> QED BY <2>2, <2>3
<1>21. ASSUME Spawn(c) PROVE Goal
  BY <1>1, <1>2, <1>21, DroppedGood DEF Tame, Spawn, At, Drop, Good, InLoop, Caching, Leased
<1>22. ASSUME Terminate(c) \/ GraceOver(c) \/ ChildEnded(c) PROVE Goal
  BY <1>1, <1>p, <1>g, <1>22 DEF Tame, Terminate, GraceOver, ChildEnded, At, Good, InLoop, Caching, Leased
<1>23. ASSUME Reap(c) PROVE Goal
  <2>1. /\ Good([cli[c] EXCEPT !.pc = "step", !.step = cli[c].step + 1])
        /\ Tame(cli[c], [cli[c] EXCEPT !.pc = "step", !.step = cli[c].step + 1])
        /\ [cli[c] EXCEPT !.pc = "step", !.step = cli[c].step + 1].pc = "step"
    BY <1>1, <1>23 DEF Reap, At, Good, Tame, Keeps, Processes, Caching, Leased, InLoop
  <2> QED BY <1>1, <1>2, <1>23, <2>1, FinishGood DEF Tame, Reap, At, Results
<1>24. ASSUME Return(c) PROVE Goal
  <2>1. cli[c].result \in Results
    BY <1>1 DEF Processes, Results
  <2> QED BY <1>3, <1>24, <2>1 DEF Tame, Return, Results
<1> QED
  BY <1>4, <1>5, <1>6, <1>7, <1>8, <1>9, <1>10, <1>11, <1>12, <1>13, <1>14, <1>16, <1>17,
     <1>19, <1>20, <1>21, <1>22, <1>23, <1>24 DEF Advance, Maintain, Storage, Prepare, Execute

\* A step leaves the other processes, and the children of the others, alone.
LEMMA Frame ==
    ASSUME TypeOK, NEW c \in Clis, Moves(c), NEW d \in Clis, c # d
    PROVE  cli'[d] = cli[d] /\ group'[d] = group[d]
<1>1. cli \in [Clis -> Processes] /\ group \in [Clis -> Groups]
  BY DEF TypeOK
<1>2. \A p : /\ cli' = [cli EXCEPT ![c] = p] => cli'[d] = cli[d]
             /\ group' = [group EXCEPT ![c] = p] => group'[d] = group[d]
  BY <1>1
<1>3. \A pc, r : Goto(c, pc) \/ Drop(c, pc) \/ End(c, r) => cli'[d] = cli[d]
  BY <1>2 DEF Goto, Drop, End
<1>4. ASSUME Maintain(c) PROVE cli'[d] = cli[d] /\ group'[d] = group[d]
  BY <1>2, <1>3, <1>4 DEF Maintain, LockMaintenance, Report, Pruned
<1>5. ASSUME Storage(c) PROVE cli'[d] = cli[d] /\ group'[d] = group[d]
  BY <1>2, <1>3, <1>5 DEF Storage, Scan, Reclaim, Unlink, Reclaimed, Enforced
<1>6. ASSUME Prepare(c) PROVE cli'[d] = cli[d] /\ group'[d] = group[d]
  BY <1>2, <1>3, <1>6 DEF Prepare, CreateRoot, ClaimRoot, CreateCache, ClaimCache, WriteAccess, LockLease,
                          Touch, Rename, Verify
<1>7. ASSUME Execute(c) PROVE cli'[d] = cli[d] /\ group'[d] = group[d]
  BY <1>2, <1>3, <1>7 DEF Execute, LockOperation, Reauthenticate, NextStep, Spawn, Terminate, GraceOver,
                          ChildEnded, Reap, Return
<1>8. ASSUME Fail(c) PROVE cli'[d] = cli[d] /\ group'[d] = group[d]
  BY <1>2, <1>3, <1>8 DEF Fail
<1>9. ASSUME Start(c) \/ Interrupt(c) \/ KillCli(c) PROVE cli'[d] = cli[d] /\ group'[d] = group[d]
  BY <1>1, <1>2, <1>9 DEF Start, Interrupt, KillCli
<1>10. ASSUME Children(c) \/ Dies(c) PROVE cli'[d] = cli[d] /\ group'[d] = group[d]
  BY <1>1, <1>2, <1>10 DEF Children, LeaderExits, Forks, Detaches, WorkerExits, Writes, Dies
<1> QED BY <1>4, <1>5, <1>6, <1>7, <1>8, <1>9, <1>10 DEF Moves, Advance

\* Only a step of the plan brings a group to life.
LEMMA MovesLiving ==
    ASSUME TypeOK, NEW c \in Clis, Moves(c)
    PROVE  Living(c)' => Living(c) \/ Spawn(c)
<1>1. group \in [Clis -> Groups] /\ group[c] \in Groups
  BY DEF TypeOK
<1>2. \A g : group' = [group EXCEPT ![c] = g] => group'[c] = g
  BY <1>1
<1>3. \A g \in Groups : /\ Killed(g).leader \in {"running", "doomed"} => g.leader \in {"running", "doomed"}
                        /\ Killed(g).worker \in {"running", "doomed", "detached"} =>
                                g.worker \in {"running", "doomed", "detached"}
  BY DEF Killed, Groups
<1>4. ASSUME UNCHANGED group PROVE Living(c)' => Living(c) \/ Spawn(c)
  BY <1>4 DEF Living
<1>5. ASSUME group' = [group EXCEPT ![c] = Killed(@)] PROVE Living(c)' => Living(c) \/ Spawn(c)
  BY <1>1, <1>2, <1>3, <1>5 DEF Living
<1>6. ASSUME Reap(c) PROVE Living(c)' => Living(c) \/ Spawn(c)
  BY <1>1, <1>6 DEF Reap, Living, Groups
<1>7. ASSUME LeaderExits(c) PROVE Living(c)' => Living(c) \/ Spawn(c)
  BY <1>1, <1>7 DEF LeaderExits, Living
<1>8. ASSUME Forks(c) \/ Detaches(c) PROVE Living(c)' => Living(c) \/ Spawn(c)
  BY <1>1, <1>8 DEF Forks, Detaches, Living
<1>9. ASSUME WorkerExits(c) \/ Dies(c) PROVE Living(c)' => Living(c) \/ Spawn(c)
  BY <1>1, <1>9 DEF WorkerExits, Dies, Living, Groups
<1>10. ASSUME KillCli(c) PROVE Living(c)' => Living(c) \/ Spawn(c)
  BY <1>1, <1>10 DEF KillCli, Living, Writing, Groups
<1>11. ASSUME Advance(c) PROVE Reap(c) \/ Spawn(c) \/ UNCHANGED group \/ group' = [group EXCEPT ![c] = Killed(@)]
  BY <1>11 DEF Advance, Maintain, Storage, Prepare, Execute, LockMaintenance, Report, Pruned, Scan, Reclaim,
       Unlink, Reclaimed, Enforced, CreateRoot, ClaimRoot, CreateCache, ClaimCache, WriteAccess, LockLease,
       Touch, Rename, Verify, LockOperation, Reauthenticate, NextStep, Terminate, GraceOver,
       ChildEnded, Return, Fail
<1> QED BY <1>4, <1>5, <1>6, <1>7, <1>8, <1>9, <1>10, <1>11
        DEF Moves, Start, Interrupt, Children, Writes

\* What AdvanceGood says of a step of the process, for a step by anybody.
LEMMA MovesGood ==
    ASSUME TypeOK, GoodInv, NEW c \in Clis, Moves(c)
    PROVE  /\ Good(cli'[c]) /\ (cli'[c].pc = "idle" => cli'[c] = cli[c])
           /\ cli'[c].pc = "mark" => \/ CreateCache(c)
                                     \/ cli[c].pc = "mark" /\ cli'[c].kind = cli[c].kind /\ ~Advance(c)
           /\ \/ Keeps(cli[c], cli'[c]) \/ Scan(c) \/ LockLease(c)
              \/ Start(c) /\ ~cli'[c].sess /\ cli'[c].insp = cli[c].insp
           /\ cli'[c].lock \in {cli[c].lock, "none"} \/ LockOperation(c) \/ LockMaintenance(c)
<1>1. cli \in [Clis -> Processes] /\ cli[c] \in Processes /\ Good(cli[c])
  BY DEF TypeOK, GoodInv
<1>2. \A p : cli' = [cli EXCEPT ![c] = p] => cli'[c] = p
  BY <1>1
<1> DEFINE Goal ==
           /\ Good(cli'[c]) /\ (cli'[c].pc = "idle" => cli'[c] = cli[c])
           /\ cli'[c].pc = "mark" => \/ CreateCache(c)
                                     \/ cli[c].pc = "mark" /\ cli'[c].kind = cli[c].kind /\ ~Advance(c)
           /\ \/ Keeps(cli[c], cli'[c]) \/ Scan(c) \/ LockLease(c)
              \/ Start(c) /\ ~cli'[c].sess /\ cli'[c].insp = cli[c].insp
           /\ cli'[c].lock \in {cli[c].lock, "none"} \/ LockOperation(c) \/ LockMaintenance(c)
<1>3. ASSUME Start(c), ~Advance(c) PROVE Goal
  <2>1. PICK o \in Commands, k \in Kinds \cup {NoKind} : cli'[c] = [cli[c] EXCEPT !.op = o, !.kind = k, !.pc = "lock"]
    BY <1>2, <1>3 DEF Start
  <2>2. cli[c].pc = "idle"
    BY <1>3 DEF Start, At
  <2> QED BY <1>1, <1>3, <2>1, <2>2 DEF Good, Processes, Caching, Leased, InLoop
<1>4. ASSUME Interrupt(c), ~Advance(c) PROVE Goal
  BY <1>1, <1>2, <1>4 DEF Interrupt, Active, Good, Keeps, Processes
<1>5. ASSUME UNCHANGED cli, ~Advance(c) PROVE Goal
  BY <1>1, <1>5 DEF Keeps
<1>6. ASSUME KillCli(c), ~Advance(c) PROVE Goal
  BY <1>1, <1>2, <1>6, EndedGood DEF KillCli, Tame, Results
<1>7. CASE Advance(c)
  BY <1>7, AdvanceGood
<1>8. CASE ~Advance(c)
  BY <1>3, <1>4, <1>5, <1>6, <1>8
  DEF Moves, Children, LeaderExits, Forks, Detaches, WorkerExits, Writes, Dies
<1> QED BY <1>7, <1>8

\* Nothing but Scan and LockLease takes a lease.
LEMMA MovesUses ==
    ASSUME TypeOK, GoodInv, NEW c \in Clis, Moves(c), ~Scan(c), ~LockLease(c), NEW d \in Clis
    PROVE  /\ \A k \in Kinds : Uses(d, k)' => Uses(d, k)
           /\ cli'[d].insp \subseteq cli[d].insp
<1>1. CASE d # c
  BY <1>1, Frame DEF Uses, Inherits, Living
<1>2. CASE d = c /\ Start(c) /\ ~cli'[c].sess /\ cli'[c].insp = cli[c].insp
  <2>1. ~Living(c) /\ UNCHANGED group
    BY <1>2 DEF GoodInv, Start, At
  <2> QED BY <1>2, <2>1 DEF Uses, Inherits, Living
<1>3. CASE d = c /\ Keeps(cli[c], cli'[c])
  <2>1. Spawn(c) /\ cli[c].kind # NoKind => cli[c].sess
    BY DEF GoodInv, Good, Leased, Spawn, At
  <2>2. Living(c)' => Living(c) \/ Spawn(c)
    BY MovesLiving
  <2>3. Uses(c, cli[c].kind)' /\ cli[c].kind # NoKind => Uses(c, cli[c].kind)
    BY <1>3, <2>1, <2>2 DEF Uses, Inherits, Keeps
  <2> QED BY <1>3, <2>3 DEF Uses, Keeps
<1> QED BY <1>1, <1>2, <1>3, MovesGood

\* The steps that write to the storage.
LEMMA DirsWriters ==
    ASSUME NEW c \in Clis, Moves(c)
    PROVE  \/ UNCHANGED dirs \/ Unlink(c) \/ CreateRoot(c) \/ ClaimRoot(c) \/ CreateCache(c)
           \/ ClaimCache(c) \/ WriteAccess(c) \/ Touch(c) \/ Rename(c) \/ Writes(c)
BY DEF Moves, Advance, Maintain, Storage, Prepare, Execute, LockMaintenance, Report, Pruned, Scan, Reclaim,
       Reclaimed, Enforced, LockLease, Verify, LockOperation, Reauthenticate, NextStep, Spawn, Terminate,
       GraceOver, ChildEnded, Reap, Return, Fail, Start, Interrupt, KillCli, Dies, Children, LeaderExits,
       Forks, Detaches, WorkerExits

\* The claims change only under the application lock; only Unlink takes from a cache.
LEMMA MovesDirs ==
    ASSUME TypeOK, GoodInv, NEW c \in Clis, Moves(c), NEW k \in Kinds
    PROVE  /\ dirs'[k].state = dirs[k].state \/ (Advance(c) /\ cli[c].lock = "exclusive")
           /\ \/ dirs'[k].state \in {dirs[k].state, "ready"}
              \/ Unlink(c) /\ k \in cli[c].victims /\ cli[c].pc = "removing"
              \/ CreateCache(c) /\ dirs[k].state = "absent"
              \/ ClaimCache(c) /\ cli[c].pc = "mark" /\ k = cli[c].kind
<1> DEFINE Goal ==
           /\ dirs'[k].state = dirs[k].state \/ (Advance(c) /\ cli[c].lock = "exclusive")
           /\ \/ dirs'[k].state \in {dirs[k].state, "ready"}
              \/ Unlink(c) /\ k \in cli[c].victims /\ cli[c].pc = "removing"
              \/ CreateCache(c) /\ dirs[k].state = "absent"
              \/ ClaimCache(c) /\ cli[c].pc = "mark" /\ k = cli[c].kind
<1>1. dirs \in [Dirs -> Directories] /\ k \in Dirs /\ k # Root
  BY DEF TypeOK, KINDS
<1>2. cli[c].pc \in {"removing", "create", "claim", "mkdir", "mark", "access", "touch", "rename"}
        => cli[c].lock = "exclusive"
  BY DEF GoodInv, Good
<1>a. Unlink(c) \/ CreateRoot(c) \/ ClaimRoot(c) \/ CreateCache(c) \/ ClaimCache(c) \/ WriteAccess(c)
        => Advance(c)
  BY DEF Advance, Storage, Prepare
<1>3. ASSUME UNCHANGED dirs PROVE Goal
  BY <1>3
<1>4. ASSUME Unlink(c) PROVE Goal
  <2>1. PICK v \in cli[c].victims : \E e : dirs' = [dirs EXCEPT ![v] = e]
    BY <1>4 DEF Unlink
  <2> QED BY <1>a, <1>1, <1>2, <1>4, <2>1 DEF Unlink, At
<1>5. ASSUME CreateRoot(c) \/ ClaimRoot(c) PROVE Goal
  BY <1>a, <1>1, <1>2, <1>5 DEF CreateRoot, ClaimRoot, Put, At
<1>6. ASSUME CreateCache(c) PROVE Goal
  BY <1>a, <1>1, <1>2, <1>6 DEF CreateCache, Put, At
<1>7. ASSUME ClaimCache(c) PROVE Goal
  BY <1>a, <1>1, <1>2, <1>7 DEF ClaimCache, Put, At
<1>8. ASSUME WriteAccess(c) PROVE Goal
  BY <1>a, <1>1, <1>2, <1>8 DEF WriteAccess, Directory, At
<1>9. ASSUME Touch(c) PROVE Goal
  BY <1>1, <1>9 DEF Touch, Directories
<1>10. ASSUME Rename(c) PROVE Goal
  BY <1>1, <1>10 DEF Rename, Directories
<1>11. ASSUME Writes(c) PROVE Goal
  BY <1>1, <1>11 DEF Writes, Directories
<1> QED BY <1>3, <1>4, <1>5, <1>6, <1>7, <1>8, <1>9, <1>10, <1>11, DirsWriters

LEMMA InvInit == Init => Inv
<1> SUFFICES ASSUME Init PROVE Inv
  OBVIOUS
<1>1. \A c \in Clis : cli[c] = Idle /\ group[c] = [leader |-> "none", zero |-> FALSE, worker |-> "none"]
  BY DEF Init
<1>2. TypeOK
  <2>1. cli \in [Clis -> Processes] /\ group \in [Clis -> Groups] /\ now \in 1..MaxClock
    BY IdleType DEF Init, Groups
  <2>2. \A st \in {"absent", "bare", "ready"}, n \in 0..1 : Directory(st, n, 0) \in Directories
    BY DEF Directory, Directories
  <2>3. dirs \in [Dirs -> Directories]
    BY <2>2 DEF Init, Absent
  <2> QED BY <2>1, <2>3 DEF TypeOK
<1>3. GoodInv
  BY <1>1 DEF GoodInv, Good, Idle, Living, Caching, Leased, InLoop
<1>4. LockInv /\ MarkInv
  BY <1>1 DEF LockInv, MarkInv, Idle
<1>5. LeaseInv
  BY <1>1 DEF LeaseInv, Uses, Inherits, Living, Idle
<1> QED BY <1>2, <1>3, <1>4, <1>5 DEF Inv

LEMMA InvNext == Inv /\ [Next]_vars => Inv'
<1> SUFFICES ASSUME Inv, [Next]_vars PROVE Inv'
  OBVIOUS
<1>1. CASE UNCHANGED vars
  BY <1>1 DEF Inv, vars, TypeOK, GoodInv, LockInv, MarkInv, LeaseInv, Living, Uses, Inherits
<1>2. ASSUME NEW c \in Clis, Moves(c) PROVE Inv'
  <2>1. TypeOK'
    BY <1>2, MovesType DEF Inv
  <2>2. GoodInv'
    <3>1. ASSUME NEW d \in Clis PROVE Good(cli'[d]) /\ (cli'[d].pc = "idle" => ~Living(d)')
      <4>1. CASE d # c
        BY <1>2, <4>1, Frame DEF Inv, GoodInv, Living
      <4>2. CASE d = c
        BY <1>2, <4>2, MovesGood, MovesLiving DEF Inv, GoodInv, Spawn, At
      <4> QED BY <4>1, <4>2
    <3> QED BY <3>1 DEF GoodInv
  <2>3. LockInv'
    <3>1. cli \in [Clis -> Processes] /\ \A d \in Clis : cli[d].lock \in {"none", "shared", "exclusive"}
      BY DEF Inv, TypeOK, Processes
    <3>2. ASSUME NEW r \in Results, End(c, r) PROVE cli'[c].lock \in {cli[c].lock, "none"}
      BY <3>1, <3>2, EndedGood DEF End, Tame
    <3>3. CASE cli'[c].lock \in {cli[c].lock, "none"}
      BY <1>2, <3>3, Frame DEF Inv, LockInv
    <3>4. CASE ~Others(c, {"shared", "exclusive"})
      BY <1>2, <3>1, <3>4, Frame DEF Inv, LockInv, Others
    <3>5. CASE LockOperation(c)
      BY <3>2, <3>3, <3>4, <3>5 DEF LockOperation, Results
    <3>6. CASE LockMaintenance(c) /\ cli[c].op = "prune"
      BY <3>2, <3>3, <3>4, <3>6 DEF LockMaintenance, Results
    <3>7. CASE LockMaintenance(c) /\ cli[c].op # "prune"
      <4>1. PICK l \in {"none", "shared"} : /\ l = "none" <=> Others(c, {"exclusive"})
                                            /\ cli'[c] = [cli[c] EXCEPT !.lock = l, !.pc = "maintain"]
        BY <3>1, <3>7 DEF LockMaintenance
      <4>2. cli'[c].lock = l
        BY <3>1, <4>1 DEF Processes
      <4>3. CASE l = "none"
        BY <3>3, <4>2, <4>3
      <4>4. CASE l = "shared"
        <5>1. \A d \in Clis \ {c} : cli[d].lock # "exclusive" /\ cli'[d] = cli[d]
          BY <1>2, <4>1, <4>4, Frame DEF Inv, Others
        <5> QED BY <4>2, <4>4, <5>1 DEF LockInv
      <4> QED BY <4>1, <4>3, <4>4
    <3> QED BY <1>2, <3>3, <3>5, <3>6, <3>7, MovesGood DEF Inv
  <2>4. MarkInv'
    <3> SUFFICES ASSUME NEW d \in Clis, cli'[d].pc = "mark" PROVE dirs'[cli'[d].kind].state = "bare"
      BY DEF MarkInv
    <3>1. cli'[d].kind \in Kinds
      BY <2>1, <2>2 DEF TypeOK, Processes, GoodInv, Good, Caching
    <3>2. CASE d # c
      <4>1. cli[d].pc = "mark" /\ cli'[d].kind = cli[d].kind
        BY <1>2, <3>2, Frame DEF Inv
      <4>2. cli[c].lock # "exclusive"
        BY <3>2, <4>1 DEF Inv, GoodInv, Good, LockInv
      <4> QED BY <1>2, <3>1, <4>1, <4>2, MovesDirs DEF Inv, MarkInv
    <3>3. CASE d = c /\ CreateCache(c)
      <4>1. cli'[c].kind = cli[c].kind /\ cli'[c].pc \in {"mark", "lease"} /\ (cli'[c].pc = "mark" => Put(cli[c].kind, "bare"))
        BY <3>3 DEF CreateCache, Goto, Inv, TypeOK, Processes
      <4> QED BY <3>1, <3>3, <4>1 DEF Put, Inv, TypeOK, Directories
    <3>4. CASE d = c /\ ~CreateCache(c)
      <4>1. cli[c].pc = "mark" /\ cli'[c].kind = cli[c].kind /\ ~Advance(c)
        BY <1>2, <3>4, MovesGood DEF Inv
      <4> QED BY <1>2, <3>1, <3>4, <4>1, MovesDirs DEF Inv, MarkInv
    <3> QED BY <3>2, <3>3, <3>4
  <2>5. LeaseInv'
    <3>1. CASE ~Scan(c) /\ ~LockLease(c)
      BY <1>2, <3>1, MovesUses DEF Inv, LeaseInv
    <3>2. CASE Scan(c)
      <4>1. PICK k \in Kinds : cli' = [cli EXCEPT ![c] = [@ EXCEPT !.visited = cli[c].visited \cup {k}, !.seen[k] = dirs[k].size,
                                              !.insp = cli[c].insp \cup {j \in {k} : LeaseFree(j)}]]
        BY <3>2 DEF Scan, Present
      <4>2. cli'[c].kind = cli[c].kind /\ cli'[c].sess = cli[c].sess /\ UNCHANGED group
        BY <3>2, <4>1 DEF Scan, Inv, TypeOK, Processes
      <4>3. cli'[c].insp = cli[c].insp \cup {j \in {k} : LeaseFree(j)}
        BY <4>1 DEF Inv, TypeOK, Processes
      <4>4. \A d \in Clis, j \in Kinds : Uses(d, j)' <=> Uses(d, j)
        BY <1>2, <4>2, Frame DEF Uses, Inherits, Living, Inv
      <4>5. \A d \in Clis : d # c => cli'[d].insp = cli[d].insp
        BY <1>2, Frame DEF Inv
      <4> QED BY <4>3, <4>4, <4>5 DEF Inv, LeaseInv, LeaseFree
    <3>3. CASE LockLease(c)
      <4>1. CASE ~LeaseFree(cli[c].kind)
        <5>1. Keeps(cli[c], cli'[c]) /\ UNCHANGED group
          BY <3>3, <4>1, EndedGood DEF LockLease, End, Tame, Results, Inv, TypeOK
        <5>2. \A d \in Clis : d # c => cli'[d] = cli[d]
          BY <1>2, Frame DEF Inv
        <5>3. \A d \in Clis : cli'[d].insp \subseteq cli[d].insp /\ \A j \in Kinds : Uses(d, j)' => Uses(d, j)
          BY <5>1, <5>2 DEF Uses, Inherits, Living, Keeps
        <5> QED BY <5>3 DEF Inv, LeaseInv
      <4>2. CASE LeaseFree(cli[c].kind)
        <5>0. cli'[c] = [cli[c] EXCEPT !.sess = TRUE, !.pc = "touch"]
          BY <3>3, <4>2 DEF LockLease, Inv, TypeOK
        <5>1. cli'[c].kind = cli[c].kind /\ cli'[c].insp = cli[c].insp
          BY <5>0 DEF Inv, TypeOK, Processes
        <5>2. \A d \in Clis : d # c => cli'[d] = cli[d]
          BY <1>2, Frame DEF Inv
        <5>3. \A d \in Clis, j \in Kinds : Uses(d, j)' => Uses(d, j) \/ (d = c /\ j = cli[c].kind)
          BY <3>3, <5>1, <5>2 DEF LockLease, Uses, Inherits, Living
        <5> QED BY <4>2, <5>1, <5>2, <5>3 DEF Inv, LeaseInv, LeaseFree
      <4> QED BY <4>1, <4>2
    <3> QED BY <3>1, <3>2, <3>3
  <2> QED BY <2>1, <2>2, <2>3, <2>4, <2>5 DEF Inv
<1> QED BY <1>1, <1>2 DEF Next, Moves

\* The inductive invariant holds in every reachable state, for any number of processes and caches.
THEOREM Invariance == Spec => []Inv
BY InvInit, InvNext, PTL DEF Spec

\* Type correctness of the operations: no step count, size, time or lock leaves its range.
THEOREM TypeCorrect == Spec => []TypeOK
<1>1. Inv => TypeOK
  BY DEF Inv
<1> QED BY <1>1, Invariance, PTL

\* No two operations build in one validation cache, counting what a killed CLI or a step has left
\* running with the lease it inherited (flock in Session::prepare, pre_exec in configure).
THEOREM OneUser == Spec => []CacheUsedByOne
<1>1. Inv => CacheUsedByOne
  BY DEF Inv, LeaseInv, CacheUsedByOne
<1> QED BY <1>1, Invariance, PTL

\* No reclaim, of an operation or of prune, ever removes from a cache that is in use.
THEOREM UsedKept == Spec => ActiveCachesKept
<1> DEFINE Kept == \A k \in Kinds :
        (\E c \in Clis : Uses(c, k)) => (dirs[k].state = "ready" => dirs'[k].state = "ready")
<1>1. Inv /\ [Next]_vars => [Kept]_vars
  <2> SUFFICES ASSUME Inv, NEW c \in Clis, Moves(c), NEW k \in Kinds, NEW d \in Clis, Uses(d, k),
                      dirs[k].state = "ready"
               PROVE  dirs'[k].state = "ready"
    BY DEF Next, Moves
  <2>1. ~(Unlink(c) /\ k \in cli[c].victims /\ cli[c].pc = "removing")
    BY DEF Inv, LeaseInv, GoodInv, Good
  <2>2. ~(cli[c].pc = "mark" /\ k = cli[c].kind)
    BY DEF Inv, MarkInv
  <2> QED BY <2>1, <2>2, MovesDirs DEF Inv
<1> QED BY <1>1, Invariance, PTL DEF Spec, ActiveCachesKept

-----------------------------------------------------------------------------
(* What is unclaimed is left alone.                                          *)

Ready(k) == dirs[k].state = "ready"

\* A cache is marked when its access time is first written; one that an operation builds in is
\* ready from touch on, and so is what a storage has measured and leased.
AccessInv == \A c \in Clis : cli[c].pc = "access" => dirs[cli[c].kind].state = "marked"
ReadyInv == \A c \in Clis :
    cli[c].kind # NoKind /\ (Living(c) \/ (cli[c].sess /\ cli[c].pc # "touch")) => Ready(cli[c].kind)
MeasuredInv == \A c \in Clis :
    cli[c].pc # "removing" => \A k \in cli[c].visited \cap cli[c].insp : Ready(k)
ClaimInv == AccessInv /\ ReadyInv /\ MeasuredInv

\* A move that neither begins to claim or to remove nor measures anything.
Plain(p, q) ==
    /\ q.kind = p.kind /\ q.pc \notin {"claim", "mark", "access", "removing"}
    /\ q.visited = {} \/ (q.visited = p.visited /\ q.insp = p.insp /\ p.pc # "removing")
    /\ q.sess /\ q.pc # "touch" => p.sess /\ p.pc # "touch"

LEMMA DroppedPlain ==
    ASSUME NEW p \in Processes
    PROVE  /\ \A pc \in {"done", "dead"}, r \in Results : Plain(p, Ended(p, pc, r))
           /\ \A pc \in Pcs : p.pc # "touch" /\ pc \notin {"claim", "mark", "access", "removing"} =>
                    Plain(p, Dropped(p, pc)) /\ Plain(p, [Dropped(p, pc) EXCEPT !.phase = "work"])
           /\ \A r \in Results : p.pc # "touch" => Plain(p, Finish(p, r))
<1>1. \A pc \in {"done", "dead"}, r \in Results : Plain(p, Ended(p, pc, r))
  BY DEF Ended, Idle, Plain, Processes
<1>2. ASSUME NEW pc \in Pcs, p.pc # "touch", pc \notin {"claim", "mark", "access", "removing"}
      PROVE  Plain(p, Dropped(p, pc)) /\ Plain(p, [Dropped(p, pc) EXCEPT !.phase = "work"])
  BY <1>2 DEF Dropped, Plain, Processes
<1>3. ASSUME NEW r \in Results, p.pc # "touch" PROVE Plain(p, Finish(p, r))
  BY <1>3 DEF Finish, Dropped, Plain, Processes
<1> QED BY <1>1, <1>2, <1>3

LEMMA GotoPlain ==
    ASSUME NEW p \in Processes, NEW pc \in Pcs, pc \notin {"claim", "mark", "access", "removing"},
           p.pc # "removing", p.pc # "touch" \/ ~p.sess
    PROVE  Plain(p, [p EXCEPT !.pc = pc])
BY DEF Plain, Processes

\* The steps that are none such.
Claims(c) == CreateRoot(c) \/ CreateCache(c) \/ ClaimCache(c) \/ Touch(c)
Measures(c) == Scan(c) \/ Reclaim(c) \/ Unlink(c)

LEMMA AdvancePlain ==
    ASSUME TypeOK, GoodInv, NEW c \in Clis, Advance(c)
    PROVE  Plain(cli[c], cli'[c]) \/ Claims(c) \/ Measures(c)
<1>1. cli \in [Clis -> Processes] /\ cli[c] \in Processes
  BY DEF TypeOK
<1>2. \A p : cli' = [cli EXCEPT ![c] = p] => cli'[c] = p
  BY <1>1
<1>3. \A r \in Results : End(c, r) => Plain(cli[c], cli'[c])
  BY <1>1, <1>2, DroppedPlain DEF End
<1>p. Pcs = {"idle", "lock", "plan", "removing", "create", "claim", "mkdir", "mark", "access", "lease",
             "touch", "rename", "step", "run", "grace", "reap", "return", "done", "dead", "inspect",
             "verify", "trim", "trimmed", "check", "maintain", "pruned"}
  BY DEF Pcs, Inspecting
<1>g. ASSUME NEW pc \in Pcs, Goto(c, pc), pc \notin {"claim", "mark", "access", "removing"},
             cli[c].pc \notin {"removing", "touch"}
      PROVE  Plain(cli[c], cli'[c])
  BY <1>1, <1>2, <1>g, GotoPlain DEF Goto
<1>4. ASSUME LockOperation(c) \/ LockMaintenance(c) PROVE Plain(cli[c], cli'[c])
  <2>1. ASSUME NEW l \in {"none", "shared", "exclusive"}, NEW pc \in {"plan", "maintain"}, cli[c].pc = "lock"
        PROVE  Plain(cli[c], [cli[c] EXCEPT !.lock = l, !.pc = pc])
    BY <1>1, <2>1 DEF Plain, Processes
  <2>2. CASE LockOperation(c)
    BY <1>2, <1>3, <2>1, <2>2 DEF LockOperation, At, Results
  <2>3. CASE LockMaintenance(c)
    BY <1>2, <1>3, <2>1, <2>3 DEF LockMaintenance, At, Results
  <2> QED BY <1>4, <2>2, <2>3
<1>5. ASSUME Reauthenticate(c) PROVE Plain(cli[c], cli'[c])
  <2>1. /\ Plain(cli[c], [cli[c] EXCEPT !.pc = "step", !.phase = "work"])
        /\ Plain(cli[c], [cli[c] EXCEPT !.pc = "inspect"])
    BY <1>1, <1>5 DEF Plain, Processes, Reauthenticate, At
  <2> QED BY <1>2, <1>5, <2>1 DEF Reauthenticate
<1>6. ASSUME Fail(c) PROVE Plain(cli[c], cli'[c])
  <2>1. CASE cli[c].phase # "work"
    BY <1>3, <1>6, <2>1 DEF Fail, Results
  <2>2. CASE cli[c].phase = "work" /\ cli[c].pc \in {"run", "grace"}
    <3>1. Plain(cli[c], [cli[c] EXCEPT !.pc = "reap", !.result = "error"])
      BY <1>1, <2>2 DEF Plain, Processes
    <3> QED BY <1>2, <1>6, <2>2, <3>1 DEF Fail
  <2>3. CASE cli[c].phase = "work" /\ cli[c].pc \notin {"run", "grace"}
    <3>1. cli[c].pc # "touch"
      BY <1>6, <2>3 DEF GoodInv, Good, InLoop
    <3> QED BY <1>1, <1>2, <1>6, <2>3, <3>1, DroppedPlain DEF Fail, Results
  <2> QED BY <2>1, <2>2, <2>3
<1>7. ASSUME Report(c) \/ Pruned(c) PROVE Plain(cli[c], cli'[c])
  BY <1>3, <1>7 DEF Report, Pruned, Results
<1>8. ASSUME Reclaimed(c) PROVE Plain(cli[c], cli'[c])
  <2>1. cli[c].pc = "removing"
    BY <1>8 DEF Reclaimed, At
  <2>2. CASE cli[c].op = "prune" \/ cli[c].sess
    <3>1. cli'[c] = [cli[c] EXCEPT !.pc = IF cli[c].sess THEN "trimmed" ELSE "pruned",
                                   !.visited = {}, !.seen = Nothing, !.victims = {}]
      BY <1>2, <1>8, <2>2 DEF Reclaimed
    <3> QED BY <1>1, <2>1, <3>1 DEF Plain, Processes
  <2>3. CASE ~(cli[c].op = "prune" \/ cli[c].sess)
    BY <1>1, <1>2, <1>3, <1>p, <1>8, <2>1, <2>3, DroppedPlain DEF Reclaimed, Drop, Results
  <2> QED BY <2>2, <2>3
<1>9. ASSUME Enforced(c) PROVE Plain(cli[c], cli'[c])
  <2>1. cli[c].pc # "touch"
    BY <1>9 DEF Enforced, At
  <2> QED BY <1>1, <1>2, <1>3, <1>p, <1>9, <2>1, DroppedPlain DEF Enforced, Results
<1>10. ASSUME ClaimRoot(c) \/ WriteAccess(c) \/ Rename(c) PROVE Plain(cli[c], cli'[c])
  BY <1>p, <1>g, <1>10 DEF ClaimRoot, WriteAccess, Rename, At
<1>11. ASSUME LockLease(c) PROVE Plain(cli[c], cli'[c])
  <2>1. Plain(cli[c], [cli[c] EXCEPT !.sess = TRUE, !.pc = "touch"])
    BY <1>1, <1>11 DEF Plain, Processes, LockLease, At
  <2> QED BY <1>2, <1>3, <1>11, <2>1 DEF LockLease, Results
<1>12. ASSUME Verify(c) \/ Spawn(c) PROVE Plain(cli[c], cli'[c])
  <2>1. cli[c].pc # "touch"
    BY <1>12 DEF Verify, Spawn, At
  <2> QED BY <1>1, <1>2, <1>p, <1>12, <2>1, DroppedPlain DEF Verify, Spawn, Drop
<1>13. ASSUME NextStep(c) PROVE Plain(cli[c], cli'[c])
  <2>1. cli[c].pc = "step"
    BY <1>13 DEF NextStep, At
  <2> QED BY <1>1, <1>2, <1>p, <1>g, <1>13, <2>1, DroppedPlain DEF NextStep, Results
<1>14. ASSUME Terminate(c) \/ GraceOver(c) \/ ChildEnded(c) PROVE Plain(cli[c], cli'[c])
  BY <1>p, <1>g, <1>14 DEF Terminate, GraceOver, ChildEnded, At
<1>15. ASSUME Reap(c) PROVE Plain(cli[c], cli'[c])
  <2>1. Plain(cli[c], [cli[c] EXCEPT !.pc = "step", !.step = cli[c].step + 1])
    BY <1>1, <1>15 DEF Plain, Processes, Reap, At
  <2>2. cli[c].pc # "touch"
    BY <1>15 DEF Reap, At
  <2> QED BY <1>1, <1>2, <1>15, <2>1, <2>2, DroppedPlain DEF Reap, Results
<1>16. ASSUME Return(c) PROVE Plain(cli[c], cli'[c])
  <2>1. cli[c].result \in Results
    BY <1>1 DEF Processes, Results
  <2> QED BY <1>3, <1>16, <2>1 DEF Return, Results
<1> QED
  BY <1>4, <1>5, <1>6, <1>7, <1>8, <1>9, <1>10, <1>11, <1>12, <1>13, <1>14, <1>15, <1>16
  DEF Advance, Maintain, Storage, Prepare, Execute, Claims, Measures

\* Where a step by anybody leads.
LEMMA MovesPlain ==
    ASSUME TypeOK, GoodInv, NEW c \in Clis, Moves(c)
    PROVE  \/ Plain(cli[c], cli'[c]) \/ Claims(c) \/ Measures(c)
           \/ Start(c) /\ cli'[c].pc = "lock" /\ ~cli'[c].sess /\ ~Living(c)'
              /\ cli'[c].visited = cli[c].visited /\ cli'[c].insp = cli[c].insp
           \/ /\ UNCHANGED dirs \/ Writes(c)
              /\ \A x \in {"kind", "pc", "visited", "insp", "sess", "victims"} : cli'[c][x] = cli[c][x]
<1>1. cli \in [Clis -> Processes] /\ cli[c] \in Processes
  BY DEF TypeOK
<1>2. \A p : cli' = [cli EXCEPT ![c] = p] => cli'[c] = p
  BY <1>1
<1>3. CASE Start(c)
  <2>1. PICK o \in Commands, k \in Kinds \cup {NoKind} : cli'[c] = [cli[c] EXCEPT !.op = o, !.kind = k, !.pc = "lock"]
    BY <1>2, <1>3 DEF Start
  <2>2. ~cli[c].sess /\ ~Living(c) /\ UNCHANGED group
    BY <1>3 DEF GoodInv, Good, Start, At
  <2>3. ~Living(c)'
    BY <2>2 DEF Living
  <2> QED BY <1>1, <1>3, <2>1, <2>2, <2>3 DEF Processes
<1>4. CASE Interrupt(c)
  <2>1. cli'[c] = [cli[c] EXCEPT !.sig = TRUE] /\ UNCHANGED dirs
    BY <1>2, <1>4 DEF Interrupt
  <2> QED BY <1>1, <2>1 DEF Processes
<1>5. CASE KillCli(c)
  BY <1>1, <1>2, <1>5, DroppedPlain DEF KillCli, Results
<1>6. CASE Children(c) \/ Dies(c)
  BY <1>1, <1>6 DEF Children, Dies, LeaderExits, Forks, Detaches, WorkerExits, Writes
<1> QED BY <1>3, <1>4, <1>5, <1>6, AdvancePlain DEF Moves

\* A ready cache stays ready unless it is being removed.
LEMMA ReadyStays ==
    ASSUME Inv, NEW c \in Clis, Moves(c), NEW k \in Kinds, Ready(k), ~(Unlink(c) /\ k \in cli[c].victims)
    PROVE  Ready(k)'
<1>1. ~(cli[c].pc = "mark" /\ k = cli[c].kind)
  BY DEF Inv, MarkInv, Ready
<1> QED BY <1>1, MovesDirs DEF Inv, Ready

\* Nobody removes what another leases, nor what it builds in itself.
LEMMA LeasedStays ==
    ASSUME Inv, NEW c \in Clis, Moves(c), NEW d \in Clis, NEW k \in Kinds, Ready(k),
           Uses(d, k) \/ (d # c /\ k \in cli[d].insp)
    PROVE  Ready(k)'
<1>1. Unlink(c) => cli[c].victims \subseteq cli[c].insp
  BY DEF Unlink, At, Inv, GoodInv, Good
<1>2. ~(Unlink(c) /\ k \in cli[c].victims)
  BY <1>1 DEF Inv, LeaseInv
<1> QED BY <1>2, ReadyStays

\* What measuring and selecting leave of a process.
LEMMA MeasuresFields ==
    ASSUME TypeOK, NEW c \in Clis, Measures(c)
    PROVE  /\ cli'[c].kind = cli[c].kind /\ cli'[c].sess = cli[c].sess
           /\ cli[c].pc \in Inspecting \cup {"removing"} /\ cli'[c].pc \in {cli[c].pc, "removing"}
           /\ \/ cli'[c].pc = "removing" /\ ~Scan(c)
              \/ /\ Scan(c) /\ UNCHANGED dirs /\ cli'[c].pc = cli[c].pc
                 /\ \E k \in Kinds : /\ Ready(k) /\ cli'[c].visited = cli[c].visited \cup {k}
                                     /\ cli'[c].insp \subseteq cli[c].insp \cup {k}
<1>1. cli \in [Clis -> Processes] /\ cli[c] \in Processes
  BY DEF TypeOK
<1>2. CASE Scan(c)
  <2>1. PICK k \in Kinds : Ready(k) /\ cli' = [cli EXCEPT ![c] = [cli[c] EXCEPT
            !.visited = cli[c].visited \cup {k}, !.seen[k] = dirs[k].size,
            !.insp = cli[c].insp \cup {j \in {k} : LeaseFree(j)}]]
    BY <1>2 DEF Scan, Present, Ready
  <2>2. /\ cli'[c].kind = cli[c].kind /\ cli'[c].sess = cli[c].sess /\ cli'[c].pc = cli[c].pc
        /\ cli'[c].visited = cli[c].visited \cup {k}
        /\ cli'[c].insp = cli[c].insp \cup {j \in {k} : LeaseFree(j)}
    BY <1>1, <2>1 DEF Processes
  <2>3. cli[c].pc \in Inspecting /\ UNCHANGED dirs
    BY <1>2 DEF Scan
  <2> QED BY <1>2, <2>1, <2>2, <2>3
<1>3. CASE Reclaim(c) /\ ~Scan(c)
  <2>1. cli'[c] = [cli[c] EXCEPT !.victims = Selected(c), !.pc = "removing"]
    BY <1>1, <1>3 DEF Reclaim
  <2>2. cli[c].pc \in Inspecting
    BY <1>3 DEF Reclaim, Inspecting
  <2> QED BY <1>1, <1>3, <2>1, <2>2 DEF Processes
<1>4. CASE Unlink(c) /\ ~Scan(c)
  BY <1>4 DEF Unlink, At
<1> QED BY <1>2, <1>3, <1>4 DEF Measures

LEMMA AccessStep == ASSUME Inv, AccessInv, NEW c \in Clis, Moves(c) PROVE AccessInv'
<1> SUFFICES ASSUME NEW d \in Clis, cli'[d].pc = "access" PROVE dirs'[cli'[d].kind].state = "marked"
  BY DEF AccessInv
<1>1. TypeOK /\ GoodInv /\ TypeOK' /\ Good(cli'[d]) /\ Good(cli[d])
  BY MovesType, MovesGood, Frame DEF Inv, GoodInv
<1>2. cli'[d].kind \in Kinds /\ dirs \in [Dirs -> Directories]
  BY <1>1 DEF TypeOK, Processes, Good, Caching
<1>3. CASE d # c
  <2>1. cli'[d] = cli[d]
    BY <1>1, <1>3, Frame
  <2>2. cli[c].lock # "exclusive"
    BY <1>1, <1>3, <2>1 DEF Inv, Good, LockInv
  <2> QED BY <1>1, <1>2, <2>1, <2>2, MovesDirs DEF AccessInv
<1>4. CASE d = c /\ ClaimCache(c)
  BY <1>1, <1>2, <1>4 DEF ClaimCache, Put, Goto, TypeOK, Processes, Directories
<1>5. CASE d = c /\ ~ClaimCache(c)
  <2>1. cli \in [Clis -> Processes] /\ cli[c] \in Processes
    BY <1>1 DEF TypeOK
  <2>2. \A pc \in Pcs \ {"access"} : ~Goto(c, pc)
    BY <1>5, <2>1 DEF Goto, Processes
  <2>3. ~CreateRoot(c) /\ ~CreateCache(c) /\ ~Touch(c)
    BY <2>2 DEF CreateRoot, CreateCache, Touch, Pcs
  <2>4. ~Measures(c)
    BY <1>1, <1>5, MeasuresFields DEF Inspecting
  <2>6. /\ UNCHANGED dirs \/ Writes(c)
        /\ \A x \in {"kind", "pc", "visited", "insp", "sess", "victims"} : cli'[c][x] = cli[c][x]
    BY <1>1, <1>5, <2>3, <2>4, MovesPlain DEF Claims, Plain
  <2>7. cli[c].pc = "access" /\ cli'[c].kind = cli[c].kind
    BY <1>5, <2>6
  <2>8. dirs'[cli[c].kind].state = dirs[cli[c].kind].state
    BY <1>2, <2>6, <2>7 DEF Writes, Directories
  <2> QED BY <1>5, <2>7, <2>8 DEF AccessInv
<1> QED BY <1>3, <1>4, <1>5

\* What the steps that claim leave of a process.
LEMMA ClaimsFields ==
    ASSUME TypeOK, NEW c \in Clis, Claims(c)
    PROVE  /\ \A x \in {"kind", "sess", "visited", "insp", "victims"} : cli'[c][x] = cli[c][x]
           /\ cli[c].pc \in {"create", "mkdir", "mark"} \/ (Touch(c) /\ cli[c].pc = "touch")
           /\ cli'[c].pc # "removing"
<1>1. cli \in [Clis -> Processes] /\ cli[c] \in Processes
  BY DEF TypeOK
<1>2. PICK pc \in {"claim", "mkdir", "mark", "lease", "access", "rename"} : cli'[c] = [cli[c] EXCEPT !.pc = pc]
  BY <1>1 DEF Claims, CreateRoot, CreateCache, ClaimCache, Touch, Goto
<1>3. cli[c].pc \in {"create", "mkdir", "mark"} \/ (Touch(c) /\ cli[c].pc = "touch")
  BY DEF Claims, CreateRoot, CreateCache, ClaimCache, Touch, At
<1> QED BY <1>1, <1>2, <1>3 DEF Processes

LEMMA ReadyStep == ASSUME Inv, ReadyInv, NEW c \in Clis, Moves(c) PROVE ReadyInv'
<1> SUFFICES ASSUME NEW d \in Clis, cli'[d].kind # NoKind, Living(d)' \/ (cli'[d].sess /\ cli'[d].pc # "touch")
             PROVE  dirs'[cli'[d].kind].state = "ready"
  BY DEF ReadyInv, Ready
<1>1. TypeOK /\ GoodInv /\ TypeOK' /\ Good(cli[c])
  BY MovesType DEF Inv, GoodInv
<1>2. cli'[d].kind \in Kinds
  BY <1>1 DEF TypeOK, Processes
<1>3. CASE d # c
  <2>1. cli'[d] = cli[d] /\ (Living(d)' <=> Living(d))
    BY <1>1, <1>3, Frame DEF Living
  <2>2. Ready(cli[d].kind) /\ Uses(d, cli[d].kind)
    BY <2>1 DEF ReadyInv, Uses, Inherits
  <2> QED BY <1>2, <2>1, <2>2, LeasedStays DEF Ready
<1>4. CASE d = c
  <2>1. /\ cli'[c].kind = cli[c].kind
        /\ cli'[c].sess /\ cli'[c].pc # "touch" => cli[c].sess /\ (cli[c].pc # "touch" \/ Touch(c))
    <3>1. CASE Plain(cli[c], cli'[c])
      BY <3>1 DEF Plain
    <3>2. CASE Claims(c)
      BY <1>1, <3>2, ClaimsFields
    <3>3. CASE Measures(c)
      BY <1>1, <3>3, MeasuresFields DEF Inspecting
    <3> QED BY <1>1, <1>4, <3>1, <3>2, <3>3, MovesPlain
  <2>2. Living(c)' => Living(c) \/ (cli[c].pc = "check" /\ cli[c].sess)
    <3>1. Spawn(c) => cli[c].pc = "check"
      BY DEF Spawn, At
    <3> QED BY <1>1, <1>4, <3>1, <2>1, MovesLiving DEF Good, Leased
  <2>3. Uses(c, cli[c].kind)
    BY <1>4, <2>1, <2>2 DEF Uses, Inherits
  <2>4. Ready(cli[c].kind)
    BY <1>4, <2>1, <2>2 DEF ReadyInv, Touch, Ready
  <2> QED BY <1>2, <1>4, <2>1, <2>3, <2>4, LeasedStays DEF Ready
<1> QED BY <1>3, <1>4

LEMMA MeasuredStep == ASSUME Inv, MeasuredInv, NEW c \in Clis, Moves(c) PROVE MeasuredInv'
<1> SUFFICES ASSUME NEW d \in Clis, cli'[d].pc # "removing", NEW k \in cli'[d].visited \cap cli'[d].insp
             PROVE  Ready(k)'
  BY DEF MeasuredInv
<1>1. TypeOK /\ GoodInv /\ TypeOK'
  BY MovesType DEF Inv
<1>2. k \in Kinds
  BY <1>1 DEF TypeOK, Processes
<1>3. CASE d # c
  <2>1. cli'[d] = cli[d]
    BY <1>1, <1>3, Frame
  <2> QED BY <1>2, <1>3, <2>1, LeasedStays DEF MeasuredInv
<1>4. CASE d = c /\ Scan(c)
  <2>1. PICK j \in Kinds : /\ Ready(j) /\ cli'[c].visited = cli[c].visited \cup {j}
                           /\ cli'[c].insp \subseteq cli[c].insp \cup {j}
    BY <1>1, <1>4, MeasuresFields DEF Measures
  <2>2. UNCHANGED dirs /\ cli'[c].pc = cli[c].pc
    BY <1>1, <1>4, MeasuresFields DEF Measures
  <2>3. Ready(k)
    BY <1>4, <2>1, <2>2 DEF MeasuredInv
  <2> QED BY <2>2, <2>3 DEF Ready
<1>5. CASE d = c /\ ~Scan(c)
  <2>1. cli[c].pc # "removing" /\ cli'[c].visited = cli[c].visited /\ cli'[c].insp = cli[c].insp
    <3>1. CASE Plain(cli[c], cli'[c])
      BY <1>5, <3>1 DEF Plain
    <3>2. CASE Claims(c)
      BY <1>1, <3>2, ClaimsFields
    <3>3. ~Measures(c)
      BY <1>1, <1>5, MeasuresFields
    <3>4. Start(c) => cli[c].pc = "idle"
      BY DEF Start, At
    <3> QED BY <1>1, <1>5, <3>1, <3>2, <3>3, <3>4, MovesPlain
  <2>2. ~Unlink(c) /\ Ready(k)
    BY <1>5, <2>1 DEF Unlink, At, MeasuredInv
  <2> QED BY <1>2, <2>2, ReadyStays
<1> QED BY <1>3, <1>4, <1>5

\* A directory without its claim changes only for whom it is at work on.
LEMMA BareStays ==
    ASSUME Inv, AccessInv, ReadyInv, NEW c \in Clis, Moves(c), NEW d \in Dirs, dirs[d].state = "bare", ~Working(d)
    PROVE  dirs'[d] = dirs[d]
<1>1. TypeOK /\ Good(cli[c]) /\ dirs \in [Dirs -> Directories]
  BY DEF Inv, GoodInv, TypeOK
<1>2. \A k, e : d # k /\ dirs' = [dirs EXCEPT ![k] = e] => dirs'[d] = dirs[d]
  BY <1>1
<1>3. CASE Unlink(c)
  <2>1. PICK v \in cli[c].victims : \E e : dirs' = [dirs EXCEPT ![v] = e]
    BY <1>3 DEF Unlink
  <2>2. d # v
    BY <1>3, <2>1 DEF Unlink, At, Working
  <2> QED BY <1>2, <2>1, <2>2
<1>4. CASE CreateRoot(c)
  BY <1>1, <1>4 DEF CreateRoot, Put
<1>5. CASE ClaimRoot(c)
  BY <1>1, <1>5 DEF ClaimRoot, Put, At, Working
<1>6. CASE CreateCache(c)
  BY <1>1, <1>6 DEF CreateCache, Put
<1>7. CASE ClaimCache(c)
  BY <1>1, <1>7 DEF ClaimCache, Put, At, Working
<1>8. CASE WriteAccess(c)
  <2>1. d # cli[c].kind
    BY <1>8 DEF WriteAccess, At, AccessInv
  <2> QED BY <1>2, <1>8, <2>1 DEF WriteAccess
<1>9. CASE Touch(c)
  BY <1>1, <1>9 DEF Touch
<1>10. CASE Rename(c)
  <2>1. cli[c].kind # NoKind /\ cli[c].sess /\ cli[c].pc # "touch"
    BY <1>1, <1>10 DEF Rename, At, Good, Caching, Leased
  <2>2. d # cli[c].kind
    BY <2>1 DEF ReadyInv, Ready
  <2> QED BY <1>1, <1>10, <2>2 DEF Rename
<1>11. CASE Writes(c)
  <2>1. Living(c) /\ cli[c].kind # NoKind
    BY <1>11 DEF Writes, Writing, Living
  <2>2. d # cli[c].kind
    BY <2>1 DEF ReadyInv, Ready
  <2> QED BY <1>1, <1>11, <2>2 DEF Writes
<1> QED BY <1>3, <1>4, <1>5, <1>6, <1>7, <1>8, <1>9, <1>10, <1>11, DirsWriters

\* Nobody begins to claim or to remove what was there without a claim.
LEMMA WorkingStays ==
    ASSUME Inv, MeasuredInv, NEW c \in Clis, Moves(c), NEW d \in Dirs, dirs[d].state = "bare", ~Working(d)
    PROVE  ~Working(d)'
<1> SUFFICES ASSUME NEW e \in Clis
             PROVE  /\ ~(cli'[e].pc = "claim" /\ d = Root) /\ ~(cli'[e].pc = "mark" /\ d = cli'[e].kind)
                    /\ ~(cli'[e].pc = "removing" /\ d \in cli'[e].victims)
  BY DEF Working
<1>1. TypeOK /\ GoodInv /\ cli \in [Clis -> Processes] /\ cli[c] \in Processes
  BY DEF Inv, TypeOK
<1>2. CASE e # c
  BY <1>1, <1>2, Frame DEF Working
<1>3. CASE e = c /\ Plain(cli[c], cli'[c])
  BY <1>3 DEF Plain
<1>4. CASE e = c /\ Claims(c)
  <2>1. cli'[c].pc # "removing" /\ cli'[c].kind = cli[c].kind
    BY <1>1, <1>4, ClaimsFields
  <2>2. PICK pc \in {"claim", "mkdir", "mark", "lease", "access", "rename"} :
            /\ cli'[c] = [cli[c] EXCEPT !.pc = pc]
            /\ pc = "claim" => dirs[Root].state = "absent"
            /\ pc = "mark" => dirs[cli[c].kind].state = "absent"
    BY <1>1, <1>4 DEF Claims, CreateRoot, CreateCache, ClaimCache, Touch, Goto
  <2>3. cli'[c].pc = pc
    BY <1>1, <2>2 DEF Processes
  <2> QED BY <1>4, <2>1, <2>2, <2>3
<1>5. CASE e = c /\ Measures(c)
  <2>1. cli[c].pc \in Inspecting \cup {"removing"} /\ cli'[c].pc \in {cli[c].pc, "removing"}
    BY <1>1, <1>5, MeasuresFields
  <2>2. CASE Scan(c)
    BY <1>1, <1>5, <2>2, MeasuresFields DEF Inspecting, Scan
  <2>3. CASE Unlink(c)
    BY <1>5, <2>1, <2>3 DEF Unlink, Working, Inspecting
  <2>4. CASE Reclaim(c)
    <3>1. cli'[c] = [cli[c] EXCEPT !.victims = Selected(c), !.pc = "removing"] /\ cli[c].pc # "removing"
      BY <1>1, <2>4 DEF Reclaim
    <3>2. cli'[c].victims = Selected(c) /\ cli'[c].pc = "removing"
      BY <1>1, <3>1 DEF Processes
    <3>3. Selected(c) \subseteq cli[c].visited \cap cli[c].insp
      BY DEF Selected, Candidates
    <3>4. d \notin Selected(c)
      BY <3>1, <3>3 DEF MeasuredInv, Ready
    <3> QED BY <1>5, <3>2, <3>4
  <2> QED BY <1>5, <2>2, <2>3, <2>4 DEF Measures
<1>6. CASE e = c /\ cli'[c].pc = "lock"
  BY <1>6
<1>7. CASE e = c /\ \A x \in {"kind", "pc", "visited", "insp", "sess", "victims"} : cli'[c][x] = cli[c][x]
  BY <1>7 DEF Working
<1> QED BY <1>1, <1>2, <1>3, <1>4, <1>5, <1>6, <1>7, MovesPlain

LEMMA ClaimInvariance == Spec => []ClaimInv
<1>1. Init => ClaimInv
  <2> SUFFICES ASSUME Init, NEW c \in Clis
               PROVE  cli[c].pc = "idle" /\ ~cli[c].sess /\ ~Living(c) /\ cli[c].visited = {}
    BY DEF ClaimInv, AccessInv, ReadyInv, MeasuredInv
  <2> QED BY DEF Init, Idle, Living
<1>2. Inv /\ ClaimInv /\ [Next]_vars => ClaimInv'
  <2>1. Inv /\ ClaimInv /\ Next => ClaimInv'
    BY AccessStep, ReadyStep, MeasuredStep DEF Next, Moves, ClaimInv
  <2>2. ClaimInv /\ UNCHANGED vars => ClaimInv'
    BY DEF ClaimInv, AccessInv, ReadyInv, MeasuredInv, Living, Ready, vars
  <2> QED BY <2>1, <2>2
<1> QED BY <1>1, <1>2, Invariance, PTL DEF Spec

\* A directory of the storage that was there without its claim is neither claimed, written nor
\* selected for removal by anybody, however operations, prunes, kills and surviving children
\* interleave (Storage::create and inspect refuse it).
THEOREM UnclaimedKept == Spec => UnclaimedNotAdopted
<1> DEFINE Kept == \A d \in Dirs : dirs[d].state = "bare" /\ ~Working(d) => dirs'[d] = dirs[d] /\ ~Working(d)'
<1>1. Inv /\ ClaimInv /\ [Next]_vars => [Kept]_vars
  BY BareStays, WorkingStays DEF Next, Moves, ClaimInv
<1> QED BY <1>1, Invariance, ClaimInvariance, PTL DEF Spec, UnclaimedNotAdopted

-----------------------------------------------------------------------------
(* A success is true.                                                        *)

\* A process and the group of its last child: no child outlives the loop over the steps, and what
\* goes on after a step, or ends as a success, has a step behind it that exited with zero.
Fresh == {"idle", "lock", "plan"}
Sound(p, g) ==
    /\ p.pc \notin {"run", "grace"} => g.leader # "running" /\ g.worker # "running"
    /\ p.pc \notin {"run", "grace", "reap"} => g.leader = "none"
    /\ p.pc \in Fresh => p.phase = "prepare"
    /\ p.pc \in InLoop => p.phase = "work"
    /\ p.pc = "return" => p.phase = "finish"
    /\ p.phase = "prepare" => p.step = 0
    /\ p.pc = "step" /\ p.step > 0 => g.zero
    /\ p.phase = "finish" /\ p.result = "succeeded" => p.step = Steps /\ g.zero
SoundInv == \A c \in Clis : Sound(cli[c], group[c])

\* A move outside the loop, which begins anew or leaves what there is to report as it is.
Calm(p, q) ==
    /\ q.pc \notin InLoop \cup {"return"} /\ (q.pc \in Fresh => p.pc \in Fresh)
    /\ \/ q.phase = p.phase /\ q.result = p.result /\ q.step = p.step
       \/ q.phase = "prepare" /\ q.step = 0

LEMMA CalmSound ==
    ASSUME NEW p, NEW q, NEW g, Sound(p, g), p.pc \notin {"run", "grace", "reap"}, Calm(p, q)
    PROVE  Sound(q, g)
BY DEF Sound, Calm, InLoop, Fresh

LEMMA UpdatesCalm ==
    ASSUME NEW p \in Processes
    PROVE  /\ \A pc \in {"done", "dead"}, r \in Results : Calm(p, Ended(p, pc, r))
           /\ \A pc \in Pcs \ (InLoop \cup Fresh \cup {"return"}) : /\ Calm(p, [p EXCEPT !.pc = pc])
                                                         /\ Calm(p, Dropped(p, pc))
<1>1. \A pc \in {"done", "dead"}, r \in Results : Calm(p, Ended(p, pc, r))
  BY DEF Ended, Idle, Calm, Processes, InLoop, Fresh
<1>2. \A pc \in Pcs \ (InLoop \cup Fresh \cup {"return"}) : Calm(p, [p EXCEPT !.pc = pc])
  BY DEF Calm, Processes, Fresh
<1>3. \A pc \in Pcs \ (InLoop \cup Fresh \cup {"return"}) : Calm(p, Dropped(p, pc))
  BY DEF Calm, Dropped, Processes, Fresh
<1> QED BY <1>1, <1>2, <1>3

\* A step outside the loop.
LEMMA CalmAdvance ==
    ASSUME TypeOK, GoodInv, SoundInv, NEW c \in Clis,
           \/ Maintain(c) \/ Scan(c) \/ Reclaim(c) \/ Unlink(c) \/ Reclaimed(c) \/ Prepare(c) \/ LockOperation(c) \/ Return(c)
           \/ Fail(c) /\ cli[c].phase # "work"
    PROVE  \/ Scan(c) /\ cli[c].pc = "check" /\ cli'[c].pc = "check"
           \/ cli[c].pc \notin {"run", "grace", "reap"} /\ Calm(cli[c], cli'[c]) /\ UNCHANGED group
<1>1. cli \in [Clis -> Processes] /\ cli[c] \in Processes /\ Sound(cli[c], group[c])
  BY DEF TypeOK, SoundInv
<1>2. \A p : cli' = [cli EXCEPT ![c] = p] => cli'[c] = p
  BY <1>1
<1>3. \A r \in Results : End(c, r) => Calm(cli[c], cli'[c])
  BY <1>1, <1>2, UpdatesCalm DEF End
<1>4. ASSUME NEW pc \in Pcs \ (InLoop \cup Fresh \cup {"return"}), Goto(c, pc) \/ Drop(c, pc) PROVE Calm(cli[c], cli'[c])
  <2>1. Calm(cli[c], [cli[c] EXCEPT !.pc = pc]) /\ Calm(cli[c], Dropped(cli[c], pc))
    BY <1>1, UpdatesCalm
  <2>2. cli'[c] = [cli[c] EXCEPT !.pc = pc] \/ cli'[c] = Dropped(cli[c], pc)
    BY <1>2, <1>4 DEF Goto, Drop
  <2> QED BY <2>1, <2>2
<1>p. Pcs \ (InLoop \cup Fresh \cup {"return"}) = {"removing", "create", "claim", "mkdir", "mark", "access", "lease",
             "touch", "rename", "done", "dead", "inspect", "verify", "trim", "trimmed", "maintain", "pruned"}
  BY DEF Pcs, Inspecting, InLoop, Fresh
<1>5. ASSUME LockOperation(c) \/ LockMaintenance(c) PROVE Calm(cli[c], cli'[c])
  <2>1. ASSUME NEW l, NEW pc \in {"plan", "maintain"}, cli[c].pc = "lock", cli'[c] = [cli[c] EXCEPT !.lock = l, !.pc = pc] PROVE Calm(cli[c], cli'[c])
    BY <1>1, <2>1 DEF Calm, Processes, InLoop, Fresh
  <2>2. CASE LockOperation(c)
    <3>1. cli[c].pc = "lock"
      BY <2>2 DEF LockOperation, At
    <3>2. End(c, "stopped") \/ End(c, "error") \/ cli'[c] = [cli[c] EXCEPT !.lock = "exclusive", !.pc = "plan"]
      BY <1>2, <2>2 DEF LockOperation
    <3> QED BY <1>3, <2>1, <3>1, <3>2 DEF Results
  <2>3. CASE LockMaintenance(c)
    <3>1. cli[c].pc = "lock"
      BY <2>3 DEF LockMaintenance, At
    <3>2. End(c, "error") \/ \E l : cli'[c] = [cli[c] EXCEPT !.lock = l, !.pc = "maintain"]
      BY <1>2, <2>3 DEF LockMaintenance
    <3> QED BY <1>3, <2>1, <3>1, <3>2 DEF Results
  <2> QED BY <1>5, <2>2, <2>3
<1>6. ASSUME Report(c) \/ Pruned(c) PROVE Calm(cli[c], cli'[c])
  BY <1>3, <1>6 DEF Report, Pruned, Results
<1>7. ASSUME Return(c) PROVE Calm(cli[c], cli'[c])
  <2>1. cli[c].result \in Results
    BY <1>1 DEF Processes, Results
  <2> QED BY <1>3, <1>7, <2>1 DEF Return, Results
<1>8. ASSUME Fail(c), cli[c].phase # "work" PROVE Calm(cli[c], cli'[c]) /\ cli[c].pc \notin {"run", "grace", "reap"} /\ UNCHANGED group
  BY <1>1, <1>3, <1>8 DEF Fail, Results, Sound, InLoop
<1>9. ASSUME Scan(c) PROVE /\ cli'[c].pc = cli[c].pc
                           /\ cli[c].pc \in Inspecting /\ (cli[c].pc # "check" => Calm(cli[c], cli'[c]))
  <2>1. PICK k : cli'[c] = [cli[c] EXCEPT !.visited = cli[c].visited \cup {k}, !.seen[k] = dirs[k].size,
                                          !.insp = cli[c].insp \cup {j \in {k} : LeaseFree(j)}]
    BY <1>2, <1>9 DEF Scan
  <2>2. cli'[c].pc = cli[c].pc /\ cli'[c].phase = cli[c].phase /\ cli'[c].result = cli[c].result /\ cli'[c].step = cli[c].step
    BY <1>1, <2>1 DEF Processes
  <2>3. cli[c].pc \in Inspecting
    BY <1>9 DEF Scan
  <2> QED BY <2>2, <2>3 DEF Calm, Inspecting, InLoop, Fresh
<1>10. ASSUME Reclaim(c) PROVE Calm(cli[c], cli'[c])
  <2>1. cli'[c] = [cli[c] EXCEPT !.victims = Selected(c), !.pc = "removing"]
    BY <1>2, <1>10 DEF Reclaim
  <2> QED BY <1>1, <2>1 DEF Calm, Processes, InLoop, Fresh
<1>11. ASSUME Unlink(c) PROVE Calm(cli[c], cli'[c])
  BY <1>11 DEF Unlink, At, Calm, InLoop, Fresh
<1>12. ASSUME Reclaimed(c) PROVE Calm(cli[c], cli'[c])
  <2>1. CASE cli[c].op = "prune" \/ cli[c].sess
    <3>1. cli'[c] = [cli[c] EXCEPT !.pc = IF cli[c].sess THEN "trimmed" ELSE "pruned",
                                   !.visited = {}, !.seen = Nothing, !.victims = {}]
      BY <1>2, <1>12, <2>1 DEF Reclaimed
    <3> QED BY <1>1, <3>1 DEF Calm, Processes, InLoop, Fresh
  <2>2. CASE ~(cli[c].op = "prune" \/ cli[c].sess)
    BY <1>3, <1>4, <1>p, <1>12, <2>2 DEF Reclaimed, Results
  <2> QED BY <2>1, <2>2
<1>13. ASSUME CreateRoot(c) \/ ClaimRoot(c) \/ CreateCache(c) \/ ClaimCache(c) \/ WriteAccess(c) \/ Touch(c) \/ Rename(c) \/ Verify(c)
       PROVE  Calm(cli[c], cli'[c])
  BY <1>4, <1>p, <1>13 DEF CreateRoot, ClaimRoot, CreateCache, ClaimCache, WriteAccess, Touch, Rename, Verify
<1>14. ASSUME LockLease(c) PROVE Calm(cli[c], cli'[c])
  <2>1. Calm(cli[c], [cli[c] EXCEPT !.sess = TRUE, !.pc = "touch"])
    BY <1>1 DEF Calm, Processes, InLoop, Fresh
  <2> QED BY <1>2, <1>3, <1>14, <2>1 DEF LockLease, Results
<1>15. ASSUME ~Fail(c), ~Scan(c) PROVE cli[c].pc \notin {"run", "grace", "reap"} /\ UNCHANGED group
  BY <1>15 DEF Maintain, LockMaintenance, Report, Pruned, Reclaim, Unlink, Reclaimed, Prepare, CreateRoot, ClaimRoot, CreateCache,
               ClaimCache, WriteAccess, LockLease, Touch, Rename, Verify, LockOperation, Return, At
<1>16. ASSUME Scan(c) PROVE cli[c].pc \notin {"run", "grace", "reap"} /\ UNCHANGED group
  BY <1>16 DEF Scan, Inspecting
<1>17. ASSUME ~Fail(c), ~Scan(c) PROVE Calm(cli[c], cli'[c])
  BY <1>5, <1>6, <1>7, <1>10, <1>11, <1>12, <1>13, <1>14, <1>17 DEF Maintain, Prepare
<1>18. CASE Scan(c)
  BY <1>9, <1>16, <1>18
<1>19. CASE ~Scan(c) /\ Fail(c) /\ cli[c].phase # "work"
  BY <1>8, <1>19
<1>20. CASE ~Scan(c) /\ ~Fail(c)
  BY <1>15, <1>17, <1>20
<1>21. CASE ~Scan(c) /\ Fail(c) /\ cli[c].phase = "work"
  <2>1. Reclaim(c) => cli[c].pc \in {"inspect", "maintain", "trim"}
    BY DEF Reclaim
  <2>2. cli[c].pc \in {"step", "check", "run", "grace"}
    BY <1>21 DEF Fail, GoodInv, Good, InLoop
  <2> QED BY <1>21, <2>1, <2>2 DEF Maintain, LockMaintenance, Report, Pruned, Unlink, Reclaimed, Prepare, CreateRoot, ClaimRoot,
                 CreateCache, ClaimCache, WriteAccess, LockLease, Touch, Rename, Verify, LockOperation, Return, At
<1> QED
  BY <1>18, <1>19, <1>20, <1>21

LEMMA FinishFields ==
    ASSUME NEW p \in Processes, NEW r \in Results
    PROVE  /\ Finish(p, r).pc \in {"verify", "return"} /\ Finish(p, r).phase = "finish" /\ Finish(p, r).result = r /\ Finish(p, r).step = p.step
           /\ Finish(p, r).pc = "return" <=> p.kind = NoKind
BY DEF Finish, Dropped, Processes

\* A step of the process.
LEMMA AdvanceSound == ASSUME TypeOK, GoodInv, SoundInv, NEW c \in Clis, Advance(c) PROVE Sound(cli'[c], group'[c])
<1>1. /\ cli \in [Clis -> Processes] /\ cli[c] \in Processes /\ Sound(cli[c], group[c])
      /\ group \in [Clis -> Groups] /\ group[c] \in Groups
  BY DEF TypeOK, SoundInv
<1>2. \A p : /\ cli' = [cli EXCEPT ![c] = p] => cli'[c] = p
             /\ group' = [group EXCEPT ![c] = p] => group'[c] = p
  BY <1>1
<1>k. ASSUME NEW g \in Groups
      PROVE  /\ Killed(g).leader # "running" /\ Killed(g).worker # "running" /\ Killed(g).zero = g.zero
             /\ g.leader = "none" => Killed(g).leader = "none"
  BY DEF Killed, Groups
<1>f. ASSUME NEW r \in Results, cli'[c] = Finish(cli[c], r), group'[c].zero = group[c].zero, group'[c].leader = "none",
             group'[c].worker # "running", r = "succeeded" => cli[c].step = Steps /\ group[c].zero
      PROVE  Sound(cli'[c], group'[c])
  BY <1>1, <1>f, FinishFields DEF Sound, InLoop, Fresh

<1>3. CASE Reauthenticate(c)
  <2>1. group' = group /\ cli[c].pc = "plan"
    BY <1>3 DEF Reauthenticate, At
  <2>2. cli'[c] = [cli[c] EXCEPT !.pc = "step", !.phase = "work"] \/ cli'[c] = [cli[c] EXCEPT !.pc = "inspect"]
    BY <1>2, <1>3 DEF Reauthenticate
  <2>3. /\ cli'[c].step = cli[c].step /\ cli'[c].pc \in {"step", "inspect"} /\ cli'[c].phase \in {"prepare", "work"}
        /\ cli'[c].pc = "step" => cli'[c].phase = "work"
    <3>1. cli[c].phase = "prepare"
      BY <1>1, <2>1 DEF Sound, Fresh
    <3>2. CASE cli'[c] = [cli[c] EXCEPT !.pc = "step", !.phase = "work"]
      BY <1>1, <3>2 DEF Processes
    <3>3. CASE cli'[c] = [cli[c] EXCEPT !.pc = "inspect"]
      BY <1>1, <3>1, <3>3 DEF Processes
    <3> QED BY <2>2, <3>2, <3>3
  <2> QED BY <1>1, <2>1, <2>3 DEF Sound, Fresh, InLoop
<1>4. CASE Fail(c) /\ cli[c].phase = "work"
  <2>1. cli[c].pc \in {"step", "check", "run", "grace"}
    BY <1>4 DEF Fail, GoodInv, Good, InLoop
  <2>2. CASE cli[c].pc \in {"run", "grace"}
    <3>1. cli'[c] = [cli[c] EXCEPT !.pc = "reap", !.result = "error"] /\ group'[c] = Killed(group[c])
      BY <1>2, <1>4, <2>2 DEF Fail
    <3>2. cli'[c].pc = "reap" /\ cli'[c].phase = "work"
      BY <1>1, <1>4, <3>1 DEF Processes
    <3> QED BY <1>1, <1>k, <3>1, <3>2 DEF Sound, Fresh
  <2>3. CASE cli[c].pc \notin {"run", "grace"}
    <3>1. cli'[c] = Finish(cli[c], "error") /\ group' = group
      BY <1>2, <1>4, <2>3 DEF Fail
    <3>2. group[c].leader = "none" /\ group[c].worker # "running"
      BY <1>1, <2>1, <2>3 DEF Sound
    <3> QED BY <1>f, <3>1, <3>2 DEF Results
  <2> QED BY <2>2, <2>3
<1>5. CASE Enforced(c)
  <2>1. cli[c].pc = "trimmed" /\ group' = group
    BY <1>5 DEF Enforced, At
  <2>2. CASE End(c, "error")
    <3>1. Calm(cli[c], cli'[c])
      BY <1>1, <1>2, <2>2, UpdatesCalm DEF End, Results
    <3> QED BY <1>1, <2>1, <3>1, CalmSound
  <2>3. CASE ~End(c, "error")
    <3>1. cli'[c] = IF cli[c].phase = "finish" THEN Dropped(cli[c], "return") ELSE [Dropped(cli[c], "step") EXCEPT !.phase = "work"]
      BY <1>2, <1>5, <2>3 DEF Enforced
    <3>2. cli[c].phase \in {"prepare", "finish"}
      BY <1>1, <2>1 DEF GoodInv, Good, InLoop, Processes
    <3>3. CASE cli[c].phase = "finish"
      <4>1. /\ cli'[c].pc = "return" /\ cli'[c].phase = "finish" /\ cli'[c].result = cli[c].result /\ cli'[c].step = cli[c].step
        BY <1>1, <3>1, <3>3 DEF Dropped, Processes
      <4> QED BY <1>1, <2>1, <3>3, <4>1 DEF Sound, Fresh, InLoop
    <3>4. CASE cli[c].phase = "prepare"
      <4>1. /\ cli'[c].pc = "step" /\ cli'[c].phase = "work" /\ cli'[c].step = cli[c].step
        BY <1>1, <3>1, <3>4 DEF Dropped, Processes
      <4> QED BY <1>1, <2>1, <3>4, <4>1 DEF Sound, Fresh, InLoop
    <3> QED BY <3>2, <3>3, <3>4
  <2> QED BY <2>2, <2>3
<1>6. CASE NextStep(c)
  <2>1. cli[c].pc = "step" /\ group' = group
    BY <1>6 DEF NextStep, At
  <2>2. group[c].leader = "none" /\ group[c].worker # "running" /\ cli[c].phase = "work" /\ (cli[c].step > 0 => group[c].zero)
    BY <1>1, <2>1 DEF Sound, InLoop
  <2>3. CASE cli'[c] = Finish(cli[c], "stopped")
    BY <1>f, <2>1, <2>2, <2>3 DEF Results
  <2>4. CASE cli'[c] = Finish(cli[c], "succeeded") /\ cli[c].step = Steps
    BY <1>f, <2>1, <2>2, <2>4 DEF Results
  <2>5. CASE cli'[c] = [cli[c] EXCEPT !.pc = "check"]
    <3>1. cli'[c].pc = "check" /\ cli'[c].phase = "work"
      BY <1>1, <2>2, <2>5 DEF Processes
    <3> QED BY <2>1, <2>2, <3>1 DEF Sound, Fresh
  <2> QED BY <1>2, <1>6, <2>3, <2>4, <2>5 DEF NextStep, Goto
<1>7. CASE Spawn(c)
  <2>1. cli[c].pc = "check" /\ cli'[c] = Dropped(cli[c], "run")
    BY <1>2, <1>7 DEF Spawn, At, Drop
  <2>2. cli'[c].pc = "run" /\ cli'[c].phase = cli[c].phase
    BY <1>1, <2>1 DEF Dropped, Processes
  <2> QED BY <1>1, <2>1, <2>2 DEF Sound, Fresh, InLoop
<1>8. CASE Terminate(c)
  <2>1. cli[c].pc = "run" /\ cli'[c] = [cli[c] EXCEPT !.pc = "grace"] /\ group' = group
    BY <1>2, <1>8 DEF Terminate, At, Goto
  <2>2. cli'[c].pc = "grace" /\ cli'[c].phase = cli[c].phase
    BY <1>1, <2>1 DEF Processes
  <2> QED BY <1>1, <2>1, <2>2 DEF Sound, Fresh, InLoop
<1>9. CASE GraceOver(c) \/ ChildEnded(c)
  <2>1. cli[c].pc \in {"run", "grace"} /\ cli'[c] = [cli[c] EXCEPT !.pc = "reap"] /\ group'[c] = Killed(group[c])
    BY <1>2, <1>9 DEF GraceOver, ChildEnded, At, Goto
  <2>2. cli'[c].pc = "reap" /\ cli'[c].phase = cli[c].phase
    BY <1>1, <2>1 DEF Processes
  <2> QED BY <1>1, <1>k, <2>1, <2>2 DEF Sound, Fresh, InLoop
<1>10. CASE Reap(c)
  <2>1. cli[c].pc = "reap" /\ group'[c] = [group[c] EXCEPT !.leader = "none"]
    BY <1>1, <1>10 DEF Reap, At
  <2>2. group'[c].leader = "none" /\ group'[c].worker # "running" /\ group'[c].zero = group[c].zero /\ cli[c].phase = "work"
    BY <1>1, <2>1 DEF Groups, Sound, InLoop
  <2>3. CASE \E r \in {"error", "stopped", "failed"} : cli'[c] = Finish(cli[c], r)
    BY <1>f, <2>2, <2>3 DEF Results
  <2>4. CASE cli'[c] = [cli[c] EXCEPT !.pc = "step", !.step = cli[c].step + 1] /\ group[c].zero
    <3>1. cli'[c].pc = "step" /\ cli'[c].phase = "work"
      BY <1>1, <2>2, <2>4 DEF Processes
    <3> QED BY <2>2, <2>4, <3>1 DEF Sound, Fresh
  <2> QED BY <1>2, <1>10, <2>3, <2>4 DEF Reap
<1>11. CASE Scan(c) /\ cli[c].pc = "check" /\ cli'[c].pc = "check"
  <2>1. PICK k : cli'[c] = [cli[c] EXCEPT !.visited = cli[c].visited \cup {k}, !.seen[k] = dirs[k].size,
                                          !.insp = cli[c].insp \cup {j \in {k} : LeaseFree(j)}]
    BY <1>2, <1>11 DEF Scan
  <2>2. cli'[c].phase = cli[c].phase /\ group' = group
    BY <1>1, <1>11, <2>1 DEF Processes, Scan
  <2> QED BY <1>1, <1>11, <2>2 DEF Sound, Fresh, InLoop
<1>12. CASE cli[c].pc \notin {"run", "grace", "reap"} /\ Calm(cli[c], cli'[c]) /\ UNCHANGED group
  BY <1>1, <1>12, CalmSound
<1>13. CASE Fail(c) /\ cli[c].phase # "work"
  BY <1>11, <1>12, <1>13, CalmAdvance
<1> QED
  BY <1>3, <1>4, <1>5, <1>6, <1>7, <1>8, <1>9, <1>10, <1>11, <1>12, <1>13, CalmAdvance DEF Advance, Storage, Execute

LEMMA SoundStep == ASSUME TypeOK, GoodInv, SoundInv, NEW c \in Clis, Moves(c) PROVE SoundInv'
<1>1. /\ cli \in [Clis -> Processes] /\ cli[c] \in Processes /\ Sound(cli[c], group[c])
      /\ group \in [Clis -> Groups] /\ group[c] \in Groups
  BY DEF TypeOK, SoundInv
<1>2. \A p : /\ cli' = [cli EXCEPT ![c] = p] => cli'[c] = p
             /\ group' = [group EXCEPT ![c] = p] => group'[c] = p
  BY <1>1
<1>3. ASSUME Start(c) PROVE Sound(cli'[c], group'[c])
  <2>1. PICK o \in Commands, k \in Kinds \cup {NoKind} : cli'[c] = [cli[c] EXCEPT !.op = o, !.kind = k, !.pc = "lock"]
    BY <1>2, <1>3 DEF Start
  <2>2. cli[c].pc = "idle" /\ group' = group
    BY <1>3 DEF Start, At
  <2>3. cli'[c].pc = "lock" /\ cli'[c].phase = cli[c].phase /\ cli'[c].step = cli[c].step
    BY <1>1, <2>1 DEF Processes
  <2> QED BY <1>1, <2>2, <2>3 DEF Sound, Fresh, InLoop
<1>4. ASSUME Interrupt(c) PROVE Sound(cli'[c], group'[c])
  <2>1. cli'[c] = [cli[c] EXCEPT !.sig = TRUE] /\ group' = group
    BY <1>2, <1>4 DEF Interrupt
  <2>2. cli'[c].pc = cli[c].pc /\ cli'[c].phase = cli[c].phase /\ cli'[c].step = cli[c].step /\ cli'[c].result = cli[c].result
    BY <1>1, <2>1 DEF Processes
  <2> QED BY <1>1, <2>1, <2>2 DEF Sound
<1>5. ASSUME KillCli(c) PROVE Sound(cli'[c], group'[c])
  <2>1. /\ cli'[c] = Ended(cli[c], "dead", "none")
        /\ group'[c] = [leader |-> "none", zero |-> FALSE,
                        worker |-> CASE Writing(c) -> "detached" [] Living(c) /\ ~Writing(c) -> "doomed" [] OTHER -> "none"]
    BY <1>2, <1>5 DEF KillCli
  <2>3. group'[c].leader = "none" /\ group'[c].worker # "running"
    BY <2>1
  <2>2. cli'[c].pc = "dead" /\ cli'[c].phase = "prepare" /\ cli'[c].step = 0
    BY <1>1, <2>1 DEF Ended, Idle
  <2> QED BY <2>2, <2>3 DEF Sound, Fresh, InLoop
<1>6. ASSUME LeaderExits(c) PROVE Sound(cli'[c], group'[c])
  <2>1. PICK z \in BOOLEAN : group'[c] = [group[c] EXCEPT !.leader = "zombie", !.zero = z]
    BY <1>2, <1>6 DEF LeaderExits
  <2>2. group'[c].leader = "zombie" /\ group'[c].worker = group[c].worker
    BY <1>1, <2>1 DEF Groups
  <2>3. cli' = cli /\ cli[c].pc \in {"run", "grace"}
    BY <1>1, <1>6 DEF LeaderExits, Sound
  <2>4. cli[c].phase = "work"
    BY <1>1, <2>3 DEF Sound, InLoop
  <2> QED BY <2>2, <2>3, <2>4 DEF Sound, Fresh, InLoop
<1>7. ASSUME Forks(c) \/ Detaches(c) \/ WorkerExits(c) PROVE Sound(cli'[c], group'[c])
  <2>1. /\ cli' = cli /\ group'[c].leader = group[c].leader /\ group'[c].zero = group[c].zero
        /\ group'[c].worker = "running" => group[c].leader = "running" \/ group[c].worker = "running"
    BY <1>1, <1>7 DEF Forks, Detaches, WorkerExits, Groups
  <2> QED BY <1>1, <2>1 DEF Sound
<1>8. ASSUME Dies(c) PROVE Sound(cli'[c], group'[c])
  <2>1. /\ cli' = cli /\ group'[c].zero = group[c].zero
        /\ group'[c].worker \in {group[c].worker, "none"}
        /\ group'[c].leader = group[c].leader \/ (group[c].leader = "doomed" /\ group'[c].leader = "zombie")
    BY <1>1, <1>8 DEF Dies, Groups
  <2> QED BY <1>1, <2>1 DEF Sound
<1>9. ASSUME Writes(c) PROVE Sound(cli'[c], group'[c])
  BY <1>1, <1>9 DEF Writes
<1>10. Sound(cli'[c], group'[c])
  BY <1>3, <1>4, <1>5, <1>6, <1>7, <1>8, <1>9, AdvanceSound DEF Moves, Children
<1>11. ASSUME NEW d \in Clis, d # c PROVE Sound(cli'[d], group'[d])
  BY <1>11, Frame DEF SoundInv
<1> QED BY <1>10, <1>11 DEF SoundInv

\* The storage stays once a cache of its own is looked for in it.
RootInv == \A c \in Clis :
    cli[c].pc \in {"mkdir", "mark", "access", "lease"} \/ cli[c].sess => dirs[Root].state = "ready"

\* What was removed has left nothing.
EmptyInv == \A k \in Kinds : dirs[k].state = "absent" => dirs[k].size = 0

\* Nobody takes the storage away.
LEMMA RootStays == ASSUME TypeOK, NEW c \in Clis, Moves(c), dirs[Root].state = "ready" PROVE dirs'[Root].state = "ready"
<1>1. dirs \in [Dirs -> Directories] /\ dirs[Root] \in Directories /\ Root \notin Kinds
  BY DEF TypeOK, KINDS
<1>6. cli[c].kind # Root
  BY <1>1 DEF TypeOK, Processes
<1>7. \A k, e : k # Root /\ dirs' = [dirs EXCEPT ![k] = e] => dirs'[Root] = dirs[Root]
  BY <1>1
<1>2. CASE Unlink(c)
  <2>1. PICK v \in Kinds : \E e : dirs' = [dirs EXCEPT ![v] = e]
    BY <1>2 DEF Unlink, Present
  <2> QED BY <1>1, <1>7, <2>1
<1>3. CASE CreateRoot(c) \/ ClaimRoot(c)
  BY <1>1, <1>3 DEF CreateRoot, ClaimRoot, Put, Directories
<1>4. CASE CreateCache(c) \/ ClaimCache(c) \/ WriteAccess(c) \/ Touch(c) \/ Rename(c) \/ Writes(c)
  <2>1. UNCHANGED dirs \/ \E e : dirs' = [dirs EXCEPT ![cli[c].kind] = e]
    BY <1>4 DEF CreateCache, ClaimCache, WriteAccess, Touch, Rename, Writes, Put
  <2> QED BY <1>6, <1>7, <2>1
<1> QED BY <1>2, <1>3, <1>4, DirsWriters

\* Who comes to look for a cache in it, to measure what was reclaimed, or to return.
Entering == {"mkdir", "mark", "access", "lease"}
Places == Entering \cup {"trimmed", "return"}
Enters(c) == CreateRoot(c) \/ ClaimRoot(c) \/ CreateCache(c) \/ ClaimCache(c) \/ WriteAccess(c)

\* A move of the process that leaves it where it was.
Rests(c) == /\ cli'[c].pc = cli[c].pc /\ cli'[c].kind = cli[c].kind
            /\ cli'[c].visited = cli[c].visited /\ cli'[c].seen = cli[c].seen

LEMMA Arrived ==
    ASSUME TypeOK, NEW c \in Clis, Moves(c), ~Enters(c), cli'[c].pc \in Places
    PROVE  \/ Rests(c) /\ (UNCHANGED dirs \/ Writes(c))
           \/ Scan(c) /\ cli'[c].pc = cli[c].pc
           \/ Reclaimed(c) /\ cli'[c].pc = "trimmed" /\ cli'[c].visited = {} /\ cli'[c].seen = Nothing
           \/ Enforced(c) /\ cli'[c].pc = "return" /\ Total(cli[c].seen) <= Budget
           \/ cli'[c].pc = "return" /\ cli'[c].kind = NoKind
<1>1. cli \in [Clis -> Processes] /\ cli[c] \in Processes
  BY DEF TypeOK
<1>2. \A p : cli' = [cli EXCEPT ![c] = p] => cli'[c] = p
  BY <1>1
<1>3. \A pc : Goto(c, pc) \/ Drop(c, pc) => cli'[c].pc = pc
  <2>1. \A pc : [cli[c] EXCEPT !.pc = pc].pc = pc /\ Dropped(cli[c], pc).pc = pc
    BY <1>1 DEF Dropped, Processes
  <2> QED BY <1>2, <2>1 DEF Goto, Drop
<1>4. \A r : ~End(c, r)
  <2>1. \A r : Ended(cli[c], "done", r).pc = "done"
    BY DEF Ended, Idle
  <2> QED BY <1>2, <2>1 DEF End, Places, Entering
<1>5. \A r : cli' = [cli EXCEPT ![c] = Finish(cli[c], r)] => cli'[c].pc = "return" /\ cli'[c].kind = NoKind
  <2>1. \A r : /\ Finish(cli[c], r).pc = IF cli[c].kind = NoKind THEN "return" ELSE "verify"
               /\ Finish(cli[c], r).kind = cli[c].kind
    BY <1>1 DEF Finish, Dropped, Processes
  <2> QED BY <1>2, <2>1 DEF Places, Entering
<1>6. ASSUME LockOperation(c) \/ LockMaintenance(c) PROVE FALSE
  <2>1. ASSUME NEW l, NEW pc \in {"plan", "maintain"}, cli' = [cli EXCEPT ![c] = [@ EXCEPT !.lock = l, !.pc = pc]] PROVE FALSE
    <3>1. cli'[c] = [cli[c] EXCEPT !.lock = l, !.pc = pc]
      BY <1>1, <2>1
    <3>2. cli'[c].pc = pc
      BY <1>1, <3>1 DEF Processes
    <3> QED BY <2>1, <3>2 DEF Places, Entering
  <2>2. CASE LockOperation(c)
    BY <1>4, <2>1, <2>2 DEF LockOperation
  <2>3. CASE LockMaintenance(c)
    BY <1>4, <2>1, <2>3 DEF LockMaintenance
  <2> QED BY <1>6, <2>2, <2>3
<1>7. ASSUME Reauthenticate(c) PROVE FALSE
  <2>1. cli'[c] = [cli[c] EXCEPT !.pc = "step", !.phase = "work"] \/ cli'[c] = [cli[c] EXCEPT !.pc = "inspect"]
    BY <1>2, <1>7 DEF Reauthenticate
  <2>2. [cli[c] EXCEPT !.pc = "step", !.phase = "work"].pc = "step" /\ [cli[c] EXCEPT !.pc = "inspect"].pc = "inspect"
    BY <1>1 DEF Processes
  <2>3. cli'[c].pc = "step" \/ cli'[c].pc = "inspect"
    BY <2>1, <2>2
  <2> QED BY <2>3 DEF Places, Entering
<1>8. ASSUME Fail(c) PROVE cli'[c].pc = "return" /\ cli'[c].kind = NoKind
  <2>1. CASE cli' = [cli EXCEPT ![c] = [@ EXCEPT !.pc = "reap", !.result = "error"]]
    <3>1. cli'[c] = [cli[c] EXCEPT !.pc = "reap", !.result = "error"]
      BY <1>1, <2>1
    <3> QED BY <1>1, <3>1 DEF Processes, Places, Entering
  <2> QED BY <1>4, <1>5, <1>8, <2>1 DEF Fail
<1>9. ASSUME Scan(c) PROVE cli'[c].pc = cli[c].pc
  <2>1. PICK k : cli'[c] = [cli[c] EXCEPT !.visited = cli[c].visited \cup {k}, !.seen[k] = dirs[k].size,
                                          !.insp = cli[c].insp \cup {j \in {k} : LeaseFree(j)}]
    BY <1>2, <1>9 DEF Scan
  <2> QED BY <1>1, <2>1 DEF Processes
<1>10. ASSUME Reclaim(c) PROVE FALSE
  <2>1. cli'[c] = [cli[c] EXCEPT !.victims = Selected(c), !.pc = "removing"]
    BY <1>2, <1>10 DEF Reclaim
  <2> QED BY <1>1, <2>1 DEF Processes, Places, Entering
<1>11. ASSUME Reclaimed(c) PROVE cli'[c].pc = "trimmed" /\ cli'[c].visited = {} /\ cli'[c].seen = Nothing
  <2>1. PICK pc \in {"trimmed", "pruned"} : cli'[c] = [cli[c] EXCEPT !.pc = pc, !.visited = {}, !.seen = Nothing, !.victims = {}]
    <3>1. CASE cli[c].sess
      BY <1>2, <1>11, <3>1 DEF Reclaimed
    <3>2. CASE ~cli[c].sess
      BY <1>2, <1>3, <1>4, <1>11, <3>2 DEF Reclaimed, Places, Entering
    <3> QED BY <3>1, <3>2
  <2>2. cli'[c].pc = pc /\ cli'[c].visited = {} /\ cli'[c].seen = Nothing
    BY <1>1, <2>1 DEF Processes
  <2> QED BY <2>1, <2>2 DEF Places, Entering
<1>12. ASSUME Enforced(c) PROVE cli'[c].pc = "return" /\ Total(cli[c].seen) <= Budget
  <2>1. Total(cli[c].seen) <= Budget
    BY <1>4, <1>12 DEF Enforced
  <2>2. cli'[c] = Dropped(cli[c], "return") \/ cli'[c] = [Dropped(cli[c], "step") EXCEPT !.phase = "work"]
    BY <1>2, <1>12, <2>1 DEF Enforced
  <2>3. Dropped(cli[c], "return").pc = "return" /\ [Dropped(cli[c], "step") EXCEPT !.phase = "work"].pc = "step"
    BY <1>1 DEF Dropped, Processes
  <2>4. cli'[c].pc = "return" \/ cli'[c].pc = "step"
    BY <2>2, <2>3
  <2> QED BY <2>1, <2>4 DEF Places, Entering
<1>13. ASSUME LockLease(c) PROVE FALSE
  <2>1. cli'[c] = [cli[c] EXCEPT !.sess = TRUE, !.pc = "touch"]
    BY <1>2, <1>4, <1>13 DEF LockLease
  <2> QED BY <1>1, <2>1 DEF Processes, Places, Entering
<1>14. ASSUME \/ Report(c) \/ Pruned(c) \/ Touch(c) \/ Rename(c) \/ Verify(c) \/ Spawn(c) \/ Terminate(c) \/ GraceOver(c)
              \/ ChildEnded(c) \/ Return(c)
       PROVE  FALSE
  BY <1>2, <1>3, <1>4, <1>14
  DEF Report, Pruned, Touch, Rename, Verify, Spawn, Terminate, GraceOver, ChildEnded, Return, Places, Entering
<1>19. ASSUME NextStep(c) PROVE cli'[c].pc = "return" /\ cli'[c].kind = NoKind
  BY <1>3, <1>5, <1>19 DEF NextStep, Places, Entering
<1>15. ASSUME Reap(c) PROVE cli'[c].pc = "return" /\ cli'[c].kind = NoKind
  <2>1. CASE cli' = [cli EXCEPT ![c] = [@ EXCEPT !.pc = "step", !.step = cli[c].step + 1]]
    <3>1. cli'[c] = [cli[c] EXCEPT !.pc = "step", !.step = cli[c].step + 1]
      BY <1>1, <2>1
    <3> QED BY <1>1, <3>1 DEF Processes, Places, Entering
  <2> QED BY <1>5, <1>15, <2>1 DEF Reap
<1>16. ASSUME Start(c) PROVE FALSE
  <2>1. \E o, k : cli'[c] = [cli[c] EXCEPT !.op = o, !.kind = k, !.pc = "lock"]
    BY <1>2, <1>16 DEF Start
  <2> QED BY <1>1, <2>1 DEF Processes, Places, Entering
<1>17. ASSUME Interrupt(c) PROVE Rests(c) /\ UNCHANGED dirs
  <2>1. cli'[c] = [cli[c] EXCEPT !.sig = TRUE] /\ UNCHANGED dirs
    BY <1>1, <1>17 DEF Interrupt
  <2> QED BY <1>1, <2>1 DEF Rests, Processes
<1>18. ASSUME KillCli(c) PROVE FALSE
  <2>1. Ended(cli[c], "dead", "none").pc = "dead"
    BY DEF Ended, Idle
  <2> QED BY <1>2, <1>18, <2>1 DEF KillCli, Places, Entering
<1>20. ASSUME Children(c) \/ Dies(c) PROVE Rests(c) /\ (UNCHANGED dirs \/ Writes(c))
  BY <1>20 DEF Rests, Children, LeaderExits, Forks, Detaches, WorkerExits, Writes, Dies
<1>21. ASSUME Unlink(c) PROVE FALSE
  BY <1>21 DEF Unlink, At, Places, Entering
<1> QED
  BY <1>6, <1>7, <1>8, <1>9, <1>10, <1>11, <1>12, <1>13, <1>14, <1>15, <1>16, <1>17, <1>18, <1>19, <1>20, <1>21
  DEF Moves, Advance, Maintain, Storage, Prepare, Execute, Enters

LEMMA Entered ==
    ASSUME TypeOK, NEW c \in Clis, Moves(c), ~Enters(c), cli'[c].pc \in Entering
    PROVE  cli'[c].pc = cli[c].pc
BY Arrived DEF Places, Entering, Rests

LEMMA RootStep == ASSUME TypeOK, GoodInv, RootInv, NEW c \in Clis, Moves(c) PROVE RootInv'
<1> SUFFICES ASSUME NEW d \in Clis, cli'[d].pc \in Entering \/ cli'[d].sess PROVE dirs'[Root].state = "ready"
  BY DEF RootInv, Entering
<1>1. CASE cli[d].pc \in Entering \/ cli[d].sess
  BY <1>1, RootStays DEF RootInv, Entering
<1>2. CASE ~(cli[d].pc \in Entering \/ cli[d].sess)
  <2>1. d = c
    BY <1>2, Frame
  <2>2. CASE cli'[c].pc \in Entering
    <3>1. Enters(c)
      BY <1>2, <2>1, <2>2, Entered
    <3>2. CreateRoot(c) \/ ClaimRoot(c)
      BY <1>2, <2>1, <3>1 DEF Enters, CreateCache, ClaimCache, WriteAccess, At, Entering
    <3>3. CASE CreateRoot(c) /\ dirs[Root].state = "ready"
      BY <3>3, RootStays
    <3>4. CASE CreateRoot(c) /\ dirs[Root].state # "ready"
      <4>1. Goto(c, "claim")
        BY <3>4 DEF CreateRoot
      <4>2. cli'[c].pc = "claim"
        BY <4>1 DEF Goto, TypeOK, Processes
      <4> QED BY <2>2, <4>2 DEF Entering
    <3>5. CASE ClaimRoot(c)
      BY <3>5 DEF ClaimRoot, Put, TypeOK, Directories
    <3> QED BY <3>2, <3>3, <3>4, <3>5
  <2>3. CASE cli'[c].sess
    <3>1. ~Scan(c)
      BY <1>2, <2>1, <2>3, MeasuresFields DEF Measures
    <3>2. ~LockLease(c)
      BY <1>2, <2>1 DEF LockLease, At, Entering
    <3> QED BY <1>2, <2>1, <2>3, <3>1, <3>2, MovesGood DEF Keeps
  <2> QED BY <2>1, <2>2, <2>3
<1> QED BY <1>1, <1>2

LEMMA EmptyStep == ASSUME TypeOK, EmptyInv, NEW c \in Clis, Moves(c) PROVE EmptyInv'
<1> SUFFICES ASSUME NEW k \in Kinds, dirs'[k].state = "absent" PROVE dirs'[k].size = 0
  BY DEF EmptyInv
<1>1. dirs \in [Dirs -> Directories] /\ k \in Dirs /\ k # Root /\ dirs[k] \in Directories
  BY DEF TypeOK, KINDS
<1>2. dirs'[k] = dirs[k] => dirs'[k].size = 0
  BY DEF EmptyInv
<1>3. CASE Unlink(c)
  <2>1. PICK v \in Kinds : dirs' = [dirs EXCEPT ![v] = CASE @.state = "ready"  -> Directory("marked", 0, @.used)
                                                        [] @.state = "marked" -> Directory("bare", 0, @.used)
                                                        [] OTHER              -> Absent]
    BY <1>3 DEF Unlink, Present
  <2>2. dirs'[k] = dirs[k] \/ dirs'[k].size = 0
    BY <1>1, <2>1 DEF Directory, Absent
  <2> QED BY <1>2, <2>2
<1>4. CASE CreateRoot(c) \/ ClaimRoot(c)
  <2>1. dirs'[k] = dirs[k]
    BY <1>1, <1>4 DEF CreateRoot, ClaimRoot, Put
  <2> QED BY <1>2, <2>1
<1>5. CASE CreateCache(c) \/ ClaimCache(c)
  <2>1. dirs'[k] = dirs[k] \/ dirs'[k].state \in {"bare", "marked"}
    BY <1>1, <1>5 DEF CreateCache, ClaimCache, Put, Directories
  <2> QED BY <1>2, <2>1
<1>6. CASE WriteAccess(c)
  <2>1. dirs'[k] = dirs[k] \/ dirs'[k].state = "ready"
    BY <1>1, <1>6 DEF WriteAccess, Directory
  <2> QED BY <1>2, <2>1
<1>7. CASE Touch(c) \/ Rename(c)
  <2>1. CASE Touch(c)
    BY <1>1, <1>2, <2>1 DEF Touch, Directories
  <2>2. CASE Rename(c)
    <3>1. PICK t : dirs' = [dirs EXCEPT ![cli[c].kind] = [@ EXCEPT !.next = FALSE, !.used = t]]
      BY <2>2 DEF Rename
    <3>2. dirs'[k] \in {dirs[k], [dirs[k] EXCEPT !.next = FALSE, !.used = t]}
      BY <1>1, <3>1
    <3>3. dirs'[k].state = dirs[k].state /\ dirs'[k].size = dirs[k].size
      BY <1>1, <3>2 DEF Directories
    <3> QED BY <3>3 DEF EmptyInv
  <2> QED BY <1>7, <2>1, <2>2
<1>8. CASE Writes(c)
  <2>1. dirs'[k] = dirs[k] \/ (dirs'[k].state = dirs[k].state /\ dirs[k].state # "absent")
    BY <1>1, <1>8 DEF Writes, Directories
  <2> QED BY <1>2, <2>1
<1>9. CASE UNCHANGED dirs
  BY <1>2, <1>9
<1> QED BY <1>3, <1>4, <1>5, <1>6, <1>7, <1>8, <1>9, DirsWriters

\* What nobody supervises is never supervised again.
LEMMA StrayStays == ASSUME TypeOK, NEW c \in Clis, Moves(c), NEW d \in Clis, Stray(d) PROVE Stray(d)'
<1>1. /\ cli \in [Clis -> Processes] /\ cli[c] \in Processes
      /\ group \in [Clis -> Groups] /\ group[c] \in Groups
  BY DEF TypeOK
<1>2. \A g : group' = [group EXCEPT ![c] = g] => group'[c] = g
  BY <1>1
<1>3. CASE d # c
  BY <1>3, Frame DEF Stray
<1>4. CASE d = c /\ cli[c].pc = "dead"
  <2>1. UNCHANGED cli
    BY <1>4 DEF Moves, Start, Interrupt, KillCli, Active, Advance, Maintain, Storage, Prepare, Execute, Fail, LockMaintenance,
         Report, Pruned, Scan, Inspecting, Reclaim, Unlink, Reclaimed, Enforced, CreateRoot, ClaimRoot, CreateCache, ClaimCache,
         WriteAccess, LockLease, Touch, Rename, Verify, LockOperation, Reauthenticate, NextStep, Spawn, Terminate, GraceOver,
         ChildEnded, Reap, Return, At, Children, LeaderExits, Forks, Detaches, WorkerExits, Writes, Dies
  <2> QED BY <1>4, <2>1 DEF Stray
<1>5. CASE d = c /\ group[c].worker \in {"detached", "departed"} /\ KillCli(c)
  <2>1. cli'[c] = Ended(cli[c], "dead", "none")
    BY <1>1, <1>5 DEF KillCli
  <2>2. cli'[c].pc = "dead"
    BY <2>1 DEF Ended, Idle
  <2> QED BY <1>5, <2>2 DEF Stray
<1>6. CASE d = c /\ group[c].worker \in {"detached", "departed"} /\ ~KillCli(c)
  <2>1. Killed(group[c]).worker = group[c].worker
    BY <1>1, <1>6 DEF Killed, Groups
  <2>2. \/ UNCHANGED group \/ group' = [group EXCEPT ![c] = Killed(@)]
        \/ Reap(c) \/ Spawn(c) \/ LeaderExits(c) \/ Forks(c) \/ Detaches(c) \/ WorkerExits(c) \/ Dies(c)
    BY <1>6 DEF Moves, Start, Interrupt, Children, Writes, Advance, Maintain, Storage, Prepare, Execute, LockMaintenance, Report,
         Pruned, Scan, Reclaim, Unlink, Reclaimed, Enforced, CreateRoot, ClaimRoot, CreateCache, ClaimCache, WriteAccess, LockLease,
         Touch, Rename, Verify, LockOperation, Reauthenticate, NextStep, Terminate, GraceOver, ChildEnded, Return, Fail
  <2>3. CASE Reap(c) \/ Spawn(c)
    <3>1. \/ group'[c] = [group[c] EXCEPT !.leader = "none"]
          \/ group'[c] = [group[c] EXCEPT !.leader = "running", !.zero = FALSE]
      BY <1>1, <2>3 DEF Reap, Spawn
    <3>2. /\ [group[c] EXCEPT !.leader = "none"].worker = group[c].worker
          /\ [group[c] EXCEPT !.leader = "running", !.zero = FALSE].worker = group[c].worker
      BY <1>1 DEF Groups
    <3>3. group'[c].worker = group[c].worker
      BY <3>1, <3>2
    <3> QED BY <1>6, <3>3 DEF Stray
  <2>4. CASE LeaderExits(c)
    <3>1. group'[c].worker = group[c].worker
      BY <1>1, <2>4 DEF LeaderExits, Groups
    <3> QED BY <1>6, <3>1 DEF Stray
  <2>5. CASE Forks(c) \/ Detaches(c) \/ WorkerExits(c) \/ Dies(c)
    <3>1. WorkerExits(c) \/ (Dies(c) /\ group' = [group EXCEPT ![c].leader = "zombie"])
      BY <1>6, <2>5 DEF Forks, Detaches, Dies
    <3>2. CASE WorkerExits(c)
      BY <1>1, <1>6, <3>2 DEF WorkerExits, Groups, Stray
    <3>3. CASE group' = [group EXCEPT ![c].leader = "zombie"]
      BY <1>1, <1>6, <3>3 DEF Groups, Stray
    <3> QED BY <3>1, <3>2, <3>3
  <2>6. CASE UNCHANGED group \/ group' = [group EXCEPT ![c] = Killed(@)]
    <3>1. group'[c].worker = group[c].worker
      BY <1>1, <2>1, <2>6
    <3> QED BY <1>6, <3>1 DEF Stray
  <2> QED BY <2>2, <2>3, <2>4, <2>5, <2>6
<1> QED BY <1>3, <1>4, <1>5, <1>6 DEF Stray

\* While every process is supervised, who measures what is left, or has found it within the budget,
\* knows the sizes of the caches.
Sizes == [k \in Kinds |-> dirs[k].size]
Knows(c) ==
    /\ cli[c].pc = "trimmed" => \A k \in Kinds : cli[c].seen[k] = IF k \in cli[c].visited THEN dirs[k].size ELSE 0
    /\ cli[c].pc = "return" /\ cli[c].kind # NoKind => Total(Sizes) <= Budget
SizesInv == (\A d \in Clis : ~Stray(d)) => \A c \in Clis : Knows(c)

\* Who changes the sizes has the application lock, as no child outlives its step.
LEMMA Resizes ==
    ASSUME TypeOK, GoodInv, SoundInv, NEW c \in Clis, ~Stray(c), Unlink(c) \/ WriteAccess(c) \/ Writes(c)
    PROVE  cli[c].lock = "exclusive" /\ cli[c].pc \in {"removing", "access", "run", "grace"}
<1>1. CASE Unlink(c) \/ WriteAccess(c)
  BY <1>1 DEF Unlink, WriteAccess, At, GoodInv, Good
<1>2. CASE Writes(c)
  <2>1. group[c].leader = "running" \/ group[c].worker = "running"
    BY <1>2 DEF Writes, Writing, Stray
  <2>2. cli[c].pc \in {"run", "grace"}
    BY <2>1 DEF SoundInv, Sound
  <2> QED BY <2>2 DEF GoodInv, Good
<1> QED BY <1>1, <1>2

LEMMA SizesStay ==
    ASSUME TypeOK, NEW c \in Clis, Moves(c), ~Unlink(c), ~WriteAccess(c), ~Writes(c)
    PROVE  \A k \in Kinds : dirs'[k].size = dirs[k].size
<1> SUFFICES ASSUME NEW k \in Kinds PROVE dirs'[k].size = dirs[k].size
  OBVIOUS
<1>1. dirs \in [Dirs -> Directories] /\ k \in Dirs /\ k # Root /\ dirs[k] \in Directories
  BY DEF TypeOK, KINDS
<1>2. CASE CreateRoot(c) \/ ClaimRoot(c) \/ CreateCache(c) \/ ClaimCache(c)
  <2>1. PICK d, state : UNCHANGED dirs \/ dirs' = [dirs EXCEPT ![d] = [@ EXCEPT !.state = state]]
    BY <1>2 DEF CreateRoot, ClaimRoot, CreateCache, ClaimCache, Put
  <2>2. dirs'[k] \in {dirs[k], [dirs[k] EXCEPT !.state = state]}
    BY <1>1, <2>1
  <2> QED BY <1>1, <2>2 DEF Directories
<1>3. CASE Touch(c)
  BY <1>1, <1>3 DEF Touch, Directories
<1>4. CASE Rename(c)
  <2>1. PICK t : dirs' = [dirs EXCEPT ![cli[c].kind] = [@ EXCEPT !.next = FALSE, !.used = t]]
    BY <1>4 DEF Rename
  <2>2. dirs'[k] \in {dirs[k], [dirs[k] EXCEPT !.next = FALSE, !.used = t]}
    BY <1>1, <2>1
  <2> QED BY <1>1, <2>2 DEF Directories
<1>5. CASE UNCHANGED dirs
  BY <1>5
<1> QED BY <1>2, <1>3, <1>4, <1>5, DirsWriters

\* Sizes that stay are as small as before.
LEMMA SameTotal == (\A k \in Kinds : dirs'[k].size = dirs[k].size) => Total(Sizes') = Total(Sizes)
<1> SUFFICES ASSUME \A k \in Kinds : dirs'[k].size = dirs[k].size PROVE Total(Sizes') = Total(Sizes)
  OBVIOUS
<1>1. Sizes' = Sizes
  BY DEF Sizes
<1> QED BY <1>1

LEMMA SizesStep ==
    ASSUME Inv, SoundInv, RootInv, EmptyInv, SizesInv, NEW c \in Clis, Moves(c)
    PROVE  SizesInv'
<1> SUFFICES ASSUME \A d \in Clis : ~Stray(d)', NEW d \in Clis PROVE Knows(d)'
  BY DEF SizesInv
<1>1. /\ TypeOK /\ GoodInv /\ cli \in [Clis -> Processes] /\ cli[c] \in Processes
      /\ ~Stray(c) /\ \A e \in Clis : Knows(e)
  BY StrayStays DEF Inv, TypeOK, SizesInv
<1>2. ASSUME \A k \in Kinds : dirs'[k].size = dirs[k].size, cli'[d].pc = cli[d].pc, cli'[d].kind = cli[d].kind,
             cli'[d].visited = cli[d].visited, cli'[d].seen = cli[d].seen
      PROVE  Knows(d)'
  <2>1. Knows(d) /\ Total(Sizes') = Total(Sizes)
    BY <1>1, <1>2, SameTotal
  <2>2. cli'[d].pc = "return" /\ cli'[d].kind # NoKind => Total(Sizes') <= Budget
    BY <1>2, <2>1 DEF Knows
  <2>3. cli'[d].pc = "trimmed" => \A k \in Kinds : cli'[d].seen[k] = IF k \in cli'[d].visited THEN dirs'[k].size ELSE 0
    BY <1>2, <2>1 DEF Knows
  <2> QED BY <2>2, <2>3 DEF Knows
<1>3. CASE cli'[d].pc \notin {"trimmed", "return"}
  BY <1>3 DEF Knows
<1>4. CASE d # c /\ cli'[d].pc \in {"trimmed", "return"}
  <2>1. cli'[d] = cli[d]
    BY <1>1, <1>4, Frame
  <2>2. cli[c].lock = "none"
    BY <1>4, <2>1 DEF Inv, GoodInv, Good, LockInv
  <2>3. \A k \in Kinds : dirs'[k].size = dirs[k].size
    BY <1>1, <2>2, Resizes, SizesStay
  <2> QED BY <1>2, <2>1, <2>3
<1>5. CASE d = c /\ cli'[d].pc \in {"trimmed", "return"}
  <2>1. ~Enters(c)
    <3>1. \A pc : Goto(c, pc) => cli'[c].pc = pc
      BY <1>1 DEF Goto, Processes
    <3> QED BY <1>5, <3>1 DEF Enters, CreateRoot, ClaimRoot, CreateCache, ClaimCache, WriteAccess
  <2>2. CASE Rests(c) /\ (UNCHANGED dirs \/ Writes(c))
    <3>1. ~Writes(c)
      BY <1>1, <1>5, <2>2, Resizes DEF Rests
    <3> QED BY <1>2, <1>5, <2>2, <3>1 DEF Rests
  <2>3. CASE Scan(c) /\ cli'[c].pc = cli[c].pc
    <3>1. cli'[c].pc = "trimmed"
      BY <1>5, <2>3 DEF Scan, Inspecting
    <3>2. PICK j \in Kinds : cli'[c] = [cli[c] EXCEPT !.visited = cli[c].visited \cup {j}, !.seen[j] = dirs[j].size,
                                                      !.insp = cli[c].insp \cup {i \in {j} : LeaseFree(i)}]
      BY <1>1, <2>3 DEF Scan, Present
    <3>3. cli'[c].visited = cli[c].visited \cup {j} /\ cli'[c].seen = [cli[c].seen EXCEPT ![j] = dirs[j].size]
          /\ cli[c].seen \in [Kinds -> 0..MaxSize]
      BY <1>1, <3>2 DEF Processes
    <3>4. UNCHANGED dirs /\ \A k \in Kinds : cli[c].seen[k] = IF k \in cli[c].visited THEN dirs[k].size ELSE 0
      BY <1>1, <2>3, <3>1 DEF Scan, Knows
    <3>5. \A k \in Kinds : cli'[c].seen[k] = IF k \in cli'[c].visited THEN dirs'[k].size ELSE 0
      BY <3>3, <3>4
    <3> QED BY <1>5, <3>1, <3>5 DEF Knows
  <2>4. CASE Reclaimed(c) /\ cli'[c].pc = "trimmed" /\ cli'[c].visited = {} /\ cli'[c].seen = Nothing
    BY <1>5, <2>4 DEF Knows, Nothing
  <2>5. CASE Enforced(c) /\ cli'[c].pc = "return" /\ Total(cli[c].seen) <= Budget
    <3>1. cli[c].pc = "trimmed" /\ Inspected(c) /\ UNCHANGED dirs
      BY <2>5 DEF Enforced, At
    <3>2. cli[c].kind # NoKind /\ cli[c].sess
      BY <1>1, <3>1 DEF GoodInv, Good, Caching, Leased
    <3>3. Present \subseteq cli[c].visited
      BY <3>1, <3>2 DEF RootInv, Inspected
    <3>4. \A k \in Kinds : cli[c].seen[k] = dirs[k].size
      BY <1>1, <3>1, <3>3 DEF Knows, EmptyInv, Present
    <3>5. cli[c].seen = Sizes'
      BY <1>1, <3>1, <3>4 DEF Sizes, Processes
    <3>6. Total(Sizes') <= Budget
      BY <2>5, <3>5
    <3> QED BY <1>5, <2>5, <3>6 DEF Knows
  <2>6. CASE cli'[c].pc = "return" /\ cli'[c].kind = NoKind
    BY <1>5, <2>6 DEF Knows
  <2>7. cli'[c].pc \in Places
    BY <1>5 DEF Places
  <2> QED BY <1>1, <2>1, <2>2, <2>3, <2>4, <2>5, <2>6, <2>7, Arrived
<1> QED BY <1>3, <1>4, <1>5

TruthInv == SoundInv /\ RootInv /\ EmptyInv /\ SizesInv
LEMMA TruthInvariance == Spec => []TruthInv
<1>1. Init => TruthInv
  <2> SUFFICES ASSUME Init PROVE TruthInv
    OBVIOUS
  <2>1. \A c \in Clis : cli[c] = Idle /\ group[c] = [leader |-> "none", zero |-> FALSE, worker |-> "none"]
    BY DEF Init
  <2>2. Idle.pc = "idle" /\ Idle.phase = "prepare" /\ Idle.step = 0 /\ ~Idle.sess
    BY DEF Idle
  <2>3. SoundInv
    BY <2>1, <2>2 DEF SoundInv, Sound, Fresh, InLoop
  <2>4. RootInv /\ SizesInv
    BY <2>1, <2>2 DEF RootInv, SizesInv, Knows
  <2>5. EmptyInv
    <3> SUFFICES ASSUME NEW k \in Kinds PROVE dirs[k].state = "absent" => dirs[k].size = 0
      BY DEF EmptyInv
    <3>1. k # Root /\ k \in Dirs
      BY DEF KINDS
    <3>2. dirs[k] \in {Absent, Directory("bare", 1, 0), Directory("ready", 1, 0)}
      BY <3>1 DEF Init
    <3> QED BY <3>2 DEF Absent, Directory
  <2> QED BY <2>3, <2>4, <2>5 DEF TruthInv
<1>2. Inv /\ TruthInv /\ [Next]_vars => TruthInv'
  <2>1. Inv /\ TruthInv /\ Next => TruthInv'
    BY SoundStep, RootStep, EmptyStep, SizesStep DEF Next, Moves, TruthInv, Inv
  <2>2. TruthInv /\ UNCHANGED vars => TruthInv'
    <3> SUFFICES ASSUME TruthInv, UNCHANGED vars PROVE TruthInv'
      OBVIOUS
    <3>1. UNCHANGED <<cli, group, dirs>> /\ Sizes' = Sizes
      BY DEF vars, Sizes
    <3>2. SoundInv' /\ RootInv' /\ EmptyInv'
      BY <3>1 DEF TruthInv, SoundInv, RootInv, EmptyInv
    <3>3. SizesInv'
      BY <3>1 DEF TruthInv, SizesInv, Knows, Stray
    <3> QED BY <3>2, <3>3 DEF TruthInv
  <2> QED BY <2>1, <2>2
<1> QED BY <1>1, <1>2, Invariance, PTL DEF Spec

\* An operation that reports success has run every step of its plan, each of which exited with
\* zero; no signal came before it returned; its child is reaped and its group gone; and the caches
\* are within the budget unless a process that nobody supervises wrote (execute, Session::finish).
THEOREM SuccessTold == Spec => SuccessIsTrue
<1> DEFINE Told == \A c \in Clis : cli[c].pc = "return" /\ cli'[c].result = "succeeded" /\ cli'[c].pc = "done" =>
        /\ cli[c].step = Steps /\ group[c].zero /\ ~cli[c].sig
        /\ group[c].leader = "none" /\ group[c].worker # "running"
        /\ cli[c].kind # NoKind /\ (\A d \in Clis : ~Stray(d)) =>
              Total([k \in Kinds |-> dirs'[k].size]) <= Budget
<1>1. Inv /\ TruthInv /\ [Next]_vars => [Told]_vars
  <2> SUFFICES ASSUME Inv, TruthInv, NEW e \in Clis, Moves(e), NEW c \in Clis,
                      cli[c].pc = "return", cli'[c].result = "succeeded", cli'[c].pc = "done"
               PROVE  /\ cli[c].step = Steps /\ group[c].zero /\ ~cli[c].sig
                      /\ group[c].leader = "none" /\ group[c].worker # "running"
                      /\ cli[c].kind # NoKind /\ (\A d \in Clis : ~Stray(d)) =>
                            Total([k \in Kinds |-> dirs'[k].size]) <= Budget
    BY DEF Next, Moves
  <2>1. TypeOK /\ cli \in [Clis -> Processes] /\ cli[c] \in Processes
    BY DEF Inv, TypeOK
  <2>2. e = c
    BY <2>1, Frame
  <2>3. Return(c)
    <3>1. ~Interrupt(c)
      BY <2>1 DEF Interrupt, Processes
    <3>2. ~KillCli(c)
      <4>1. Ended(cli[c], "dead", "none").pc = "dead"
        BY DEF Ended, Idle
      <4> QED BY <2>1, <4>1 DEF KillCli
    <3>3. UNCHANGED cli \/ Interrupt(c) \/ KillCli(c) \/ Return(c)
      BY <2>2 DEF Moves, Start, Advance, Maintain, Storage, Prepare, Execute, Fail, LockMaintenance,
         Report, Pruned, Scan, Inspecting, Reclaim, Unlink, Reclaimed, Enforced, CreateRoot, ClaimRoot, CreateCache, ClaimCache,
         WriteAccess, LockLease, Touch, Rename, Verify, LockOperation, Reauthenticate, NextStep, Spawn, Terminate, GraceOver,
         ChildEnded, Reap, At, Children, LeaderExits, Forks, Detaches, WorkerExits, Writes, Dies
    <3> QED BY <3>1, <3>2, <3>3
  <2>4. cli[c].result = "succeeded" /\ ~cli[c].sig /\ UNCHANGED dirs
    <3>1. \A r : Ended(cli[c], "done", r).result = r
      BY DEF Ended, Idle
    <3>2. "succeeded" = IF cli[c].sig /\ cli[c].result # "error" THEN "stopped" ELSE cli[c].result
      BY <2>1, <2>3, <3>1 DEF Return, End
    <3> QED BY <2>1, <2>3, <3>2 DEF Return, Processes
  <2>5. cli[c].step = Steps /\ group[c].zero /\ group[c].leader = "none" /\ group[c].worker # "running"
    BY <2>4 DEF TruthInv, SoundInv, Sound
  <2>6. cli[c].kind # NoKind /\ (\A d \in Clis : ~Stray(d)) => Total(Sizes) <= Budget
    BY DEF TruthInv, SizesInv, Knows
  <2>7. [k \in Kinds |-> dirs'[k].size] = Sizes
    BY <2>4 DEF Sizes
  <2> QED BY <2>4, <2>5, <2>6, <2>7
<1> QED BY <1>1, Invariance, TruthInvariance, PTL DEF Spec, SuccessIsTrue
=============================================================================
