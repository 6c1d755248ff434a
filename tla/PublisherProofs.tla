--------------------------- MODULE PublisherProofs ---------------------------
(***************************************************************************)
(* For any number of publishers, paths, failing calls, crashes, power      *)
(* losses and edits by the owner: an unmarked tree is whole, a failure     *)
(* that gives the marker back has restored every path, and nothing that    *)
(* the owner wrote is lost outside the window of a rollback.               *)
(***************************************************************************)
EXTENDS Publisher, TLAPS

(***************************************************************************)
(* The inductive invariant                                                 *)
(***************************************************************************)
\* Where a publisher has its marker, and where it has none.
Working ==
    {"prepare", "preflight", "verify", "check", "rename", "mode", "confirm", "settle", "backups", "unmark",
     "rbCheck", "rbAct", "rbVerify", "rbClean", "rbRelease", "discard", "discardRelease"}
Labels == Working \union {"idle", "start", "syncRoot", "done", "crashed"}
Holds(p) == pc[p] \in Working

\* The marker is there now, and after a power loss.
Marked == marker # None /\ syncedMark # None

\* At most one process works on the tree, and the marker it made, or one that replaced it, is durable.
Exclusive ==
    /\ \A p \in Procs : Holds(p) => marker \in {p, "foreign"} /\ syncedMark # None
    /\ \A p, q \in Procs : Holds(p) /\ Holds(q) => p = q

\* Path f is as the last fsync has it, without a private file.
CleanAt(f) == synced[f].dest = dest[f] /\ \A p \in Procs : temp[p][f] = None /\ synced[f].temp[p] = None
SettledAt(f) == f \notin touched[applied] => dest[f] = Settled(f)

\* The numbers of a process: the change in hand, those that are prepared and those that are published.
Phase(p) ==
    /\ pc[p] \in {"idle", "start"} => ready[p] = 0 /\ published[p] = {} /\ complete[p]
    /\ pc[p] = "prepare" => k[p] = ready[p] + 1 /\ published[p] = {} /\ complete[p]
    /\ pc[p] \in {"preflight", "verify"} => published[p] = {} /\ complete[p]
    /\ pc[p] \in {"check", "rename"} => k[p] \in Files /\ published[p] = 1 .. k[p] - 1 /\ complete[p]
    /\ pc[p] \in {"mode", "confirm", "settle"} => k[p] \in Files /\ published[p] = 1 .. k[p] /\ complete[p]
    /\ pc[p] = "backups" => k[p] \in 1 .. N + 1
    /\ pc[p] \in {"backups", "unmark"} => published[p] = Files
    /\ pc[p] = "rbCheck" => k[p] \in 0 .. N
    /\ pc[p] \in {"rbAct", "rbVerify"} => k[p] \in published[p]
    /\ pc[p] \in {"rbCheck", "rbAct", "rbVerify"} /\ complete[p] => \A f \in published[p] : f <= k[p]
    /\ pc[p] \in {"rbClean", "rbRelease", "discard", "discardRelease"} => published[p] = {} /\ k[p] \in 1 .. ready[p] + 1
    /\ Holds(p) /\ pc[p] \notin {"prepare", "discard", "discardRelease"} => ready[p] = N

Prep(p, f) == IF op[p][f] = "retire" THEN None ELSE Staged(p, f)
IsStaged(x, p, f) == x # None /\ x.ino = <<p, f>> /\ x.data = <<p, f>>

\* The change f of p was verified after its rename.
Confirmed(p, f) ==
    \/ pc[p] \in {"check", "rename", "mode", "confirm"} /\ f < k[p]
    \/ pc[p] = "settle" /\ f <= k[p]
    \/ pc[p] \in {"backups", "unmark"}
BackupGone(p, f) == (pc[p] = "backups" /\ f < k[p]) \/ pc[p] = "unmark"

\* What p has under its private name for f, and the others have nothing.
Private(p, f) ==
    /\ \A q \in Procs : q # p => temp[q][f] = None /\ synced[f].temp[q] = None
    /\ f \in published[p] => (op[p][f] = "create" => temp[p][f] = None)
    /\ f \notin published[p] => temp[p][f] \in {None, Staged(p, f)}
    /\ pc[p] = "rbVerify" /\ k[p] = f /\ op[p][f] = "retire" => temp[p][f] = None
    /\ f > ready[p] /\ (pc[p] = "prepare" \/ error[p] # "RecoveryRequired") => temp[p][f] = None
    /\ f <= ready[p] /\ f \notin published[p] /\ pc[p] \in {"prepare", "preflight", "verify", "check", "rename", "mode", "confirm", "settle"} =>
          temp[p][f] = Prep(p, f)
    /\ Confirmed(p, f) => temp[p][f] = IF BackupGone(p, f) THEN None ELSE orig[p][f]
    /\ pc[p] \in {"rbClean", "discard"} /\ complete[p] /\ f < k[p] => temp[p][f] = None

\* The owner has not changed f since p prepared it, as far as anything depends on it.
Untouched(p, f) == f \notin touched[p] \/ f \notin touched[applied]

\* A rollback has come to the change f, or has given it up.
Reverting(p, f) == (pc[p] = "rbVerify" /\ k[p] <= f) \/ (pc[p] \in {"rbCheck", "rbAct"} /\ k[p] < f)

\* Then f is as it was found, or as p has made it.
Intact(p, f) ==
    /\ f > ready[p] => SettledAt(f)
    /\ f <= ready[p] /\ f \notin touched[applied] => orig[p][f] = Settled(f)
    /\ Untouched(p, f) /\ f <= ready[p] =>
          /\ f \notin published[p] \/ (pc[p] = "rbVerify" /\ k[p] = f) => dest[f] = orig[p][f]
          /\ f \in published[p] /\ ~Reverting(p, f) =>
                /\ ~BackupGone(p, f) => temp[p][f] = orig[p][f]
                /\ IF op[p][f] = "retire" THEN dest[f] = None ELSE IsStaged(dest[f], p, f)
          /\ Confirmed(p, f) => dest[f] = Result(p, f)

\* What p has not begun, or has brought to its end, is durable.
Durable(p, f) ==
    /\ f > ready[p] => synced[f].dest = dest[f] /\ synced[f].temp[p] = None
    /\ (pc[p] \in {"rbRelease", "discardRelease"} /\ f <= ready[p]) \/ pc[p] = "unmark" =>
          synced[f].dest = dest[f] /\ synced[f].temp[p] = None /\ temp[p][f] = None

HolderSound(p) == \A f \in Files : Private(p, f) /\ Intact(p, f) /\ Durable(p, f)

\* The data of the owner are new each time, and nothing but what the owner wrote has them.
Fresh(x) == x # None /\ x.data[1] = "user" => x.data[2] > edits
AllFresh ==
    \A f \in Files :
        /\ Fresh(dest[f]) /\ Fresh(synced[f].dest)
        /\ \A p \in Procs : Fresh(temp[p][f]) /\ Fresh(synced[f].temp[p]) /\ Fresh(orig[p][f])
HasData(x, d) == x # None /\ x.data = d
Here(f, d) == HasData(dest[f], d) \/ \E p \in Procs : HasData(temp[p][f], d)
Survives(f, d) == HasData(synced[f].dest, d) \/ \E p \in Procs : HasData(synced[f].temp[p], d)

\* What the owner wrote to f is under one of the names of f, also after a power loss; it is not what a
\* process took for the original; and a rollback is not about to undo it.
WorkKept(f) ==
    work[f] # None =>
        /\ work[f][1] = "user"
        /\ f \in raced \/ (Here(f, work[f]) /\ Survives(f, work[f]))
        /\ \A p \in Procs :
              /\ ~HasData(orig[p][f], work[f])
              /\ pc[p] = "rbAct" /\ k[p] = f => f \in raced
              /\ pc[p] = "rbVerify" /\ k[p] = f => f \in raced \/ ~HasData(temp[p][f], work[f])
AllKept == \A f \in Files : WorkKept(f)

\* A change creates where there was nothing.
PlanFits(p) == \A f \in Files : op[p][f] = "create" <=> orig[p][f] = None

Plans ==
    /\ pc \in [Procs -> Labels] /\ edits \in Nat /\ start \in [Files -> File \union {None}] /\ work \in [Files -> Tags \union {None}]
    /\ applied # None => pc[applied] \in {"syncRoot", "done", "crashed"}
    /\ \A p \in Procs : Phase(p) /\ PlanFits(p)

Whole == \A f \in Files : CleanAt(f) /\ SettledAt(f)

IInv ==
    /\ TypeOK /\ Plans /\ Exclusive
    /\ ~Marked => Whole
    /\ \A p \in Procs : Holds(p) => HolderSound(p)
    /\ AllFresh /\ AllKept

(***************************************************************************)
(* Facts                                                                   *)
(***************************************************************************)
LEMMA ConstantsTyped ==
    /\ N \in Nat /\ N > 0 /\ Files = 1 .. N
    /\ None \notin Procs /\ "foreign" \notin Procs /\ "user" \notin Procs /\ None # "foreign" /\ None \notin File
BY ConstantsAssumption, NoneAssumption DEF Files

\* The file that a change stages.
LEMMA StagedTyped ==
    ASSUME NEW p \in Procs, NEW f \in Files
    PROVE  /\ Staged(p, f) \in File /\ Staged(p, f) # None /\ IsStaged(Staged(p, f), p, f) /\ Staged(p, f).mode = "private"
           /\ Fresh(Staged(p, f)) /\ \A d : d[1] = "user" => ~HasData(Staged(p, f), d)
<1>1. f \in Nat
  BY ConstantsTyped
<1>2. Staged(p, f) \in File /\ Staged(p, f).ino = <<p, f>> /\ Staged(p, f).data = <<p, f>> /\ Staged(p, f).mode = "private"
  BY <1>1 DEF Staged, File, Tags
<1>3. <<p, f>>[1] = p /\ p # "user"
  BY ConstantsTyped
<1> QED
  BY <1>2, <1>3, ConstantsTyped DEF IsStaged, Fresh, HasData

\* The types of what one process and one path have.
LEMMA FieldsTyped ==
    ASSUME IInv, NEW p \in Procs, NEW f \in Files
    PROVE  /\ dest[f] \in File \union {None} /\ temp[p][f] \in File \union {None} /\ orig[p][f] \in File \union {None}
           /\ op[p][f] \in {"create", "edit", "retire"} /\ k[p] \in 0 .. N + 1 /\ ready[p] \in 0 .. N
           /\ published[p] \subseteq Files /\ complete[p] \in BOOLEAN /\ pc[p] \in Labels
BY DEF IInv, TypeOK, Plans

\* A process whose step is its own leaves what the others know.
OnlyBy(p) ==
    \A q \in Procs : q # p =>
        /\ pc'[q] = pc[q] /\ k'[q] = k[q] /\ op'[q] = op[q] /\ orig'[q] = orig[q]
        /\ ready'[q] = ready[q] /\ published'[q] = published[q] /\ complete'[q] = complete[q]

\* A step of the process that has the marker, which leaves the marker and what the owner does.
LEMMA HolderStep ==
    ASSUME IInv, NEW p \in Procs, Holds(p), OnlyBy(p), UNCHANGED <<marker, syncedMark, owner, applied>>,
           TypeOK', pc' \in [Procs -> Labels], Phase(p)', PlanFits(p)', Holds(p)' => HolderSound(p)', AllFresh', AllKept'
    PROVE  IInv'
<1>1. marker \in {p, "foreign"} /\ syncedMark # None /\ \A q \in Procs : Holds(q) => q = p
  BY DEF IInv, Exclusive
<1>2. Marked'
  BY <1>1, ConstantsTyped DEF Marked
<1>3. \A q \in Procs : q # p => ~Holds(q)'
  BY <1>1 DEF OnlyBy, Holds
<1>4. Exclusive'
  BY <1>1, <1>3 DEF Exclusive
<1>5. \A q \in Procs : Phase(q)' /\ PlanFits(q)'
  <2> SUFFICES ASSUME NEW q \in Procs, q # p PROVE Phase(q)' /\ PlanFits(q)'
    OBVIOUS
  <2>1. Phase(q) /\ PlanFits(q)
    BY DEF IInv, Plans
  <2> QED
    BY <2>1 DEF OnlyBy, Phase, PlanFits, Holds
<1>6. Plans'
  <2>1. applied # None => applied \in Procs /\ applied # p /\ pc[applied] \in {"syncRoot", "done", "crashed"}
    BY DEF IInv, Plans, TypeOK, Holds, Working
  <2>2. applied' # None => pc'[applied'] \in {"syncRoot", "done", "crashed"}
    BY <2>1 DEF OnlyBy
  <2>3. edits' \in Nat /\ start' \in [Files -> File \union {None}] /\ work' \in [Files -> Tags \union {None}]
    BY DEF IInv, Plans, owner
  <2> QED
    BY <1>5, <2>2, <2>3 DEF Plans
<1>7. \A q \in Procs : Holds(q)' => HolderSound(q)'
  BY <1>3
<1> QED
  BY <1>2, <1>4, <1>6, <1>7 DEF IInv

(***************************************************************************)
(* Steps that move no file                                                 *)
(***************************************************************************)
LEMMA Stepped ==
    ASSUME IInv, NEW p \in Procs, NEW label \in Labels, NEW n \in 0 .. N + 1, Step(p, label, n)
    PROVE  /\ pc' \in [Procs -> Labels] /\ k' \in [Procs -> 0 .. N + 1] /\ pc'[p] = label /\ k'[p] = n
           /\ \A q \in Procs : q # p => pc'[q] = pc[q] /\ k'[q] = k[q]
BY DEF IInv, TypeOK, Plans, Step, Goto

LEMMA Gone == ASSUME IInv, NEW p \in Procs, NEW label, Goto(p, label), UNCHANGED k PROVE Step(p, label, k[p]) /\ k[p] \in 0 .. N + 1
BY DEF IInv, TypeOK, Step

SyncedTypes == [Files -> [dest : File \union {None}, temp : [Procs -> File \union {None}]]]

\* The path f is as the kernel shows it, also after a power loss.
SyncedAt(f) == synced'[f].dest = dest[f] /\ \A q \in Procs : synced'[f].temp[q] = temp[q][f]

\* The names stay, and what is durable of them is what it was or what they are.
StillFiles ==
    /\ UNCHANGED <<dest, temp>> /\ synced' \in SyncedTypes
    /\ \A f \in Files : synced'[f] = synced[f] \/ SyncedAt(f)

LEMMA SyncStill ==
    ASSUME IInv, UNCHANGED <<dest, temp>>, NEW S, Sync(S)
    PROVE  StillFiles /\ \A f \in Files : IF f \in S THEN SyncedAt(f) ELSE synced'[f] = synced[f]
<1>1. dest \in [Files -> File \union {None}] /\ temp \in [Procs -> [Files -> File \union {None}]] /\ synced \in SyncedTypes
  BY DEF IInv, TypeOK, SyncedTypes
<1>2. \A f \in Files : Names(f) \in [dest : File \union {None}, temp : [Procs -> File \union {None}]]
                       /\ Names(f).dest = dest[f] /\ \A q \in Procs : Names(f).temp[q] = temp[q][f]
  BY <1>1 DEF Names
<1>3. synced' = [f \in Files |-> IF f \in S THEN Names(f) ELSE synced[f]]
  BY DEF Sync
<1> HIDE DEF Names
<1>4. synced' \in SyncedTypes
  BY <1>1, <1>2, <1>3 DEF SyncedTypes
<1>5. \A f \in Files : IF f \in S THEN SyncedAt(f) ELSE synced'[f] = synced[f]
  BY <1>2, <1>3 DEF SyncedAt
<1> QED
  BY <1>4, <1>5 DEF StillFiles

LEMMA SameStill == ASSUME IInv, UNCHANGED <<dest, temp, synced>> PROVE StillFiles
BY DEF IInv, TypeOK, StillFiles, SyncedTypes

LEMMA FreshStill == ASSUME IInv, StillFiles, UNCHANGED <<edits, orig>> PROVE AllFresh'
BY DEF IInv, AllFresh, StillFiles, SyncedAt, Fresh

\* What the owner wrote stays where it is.
LEMMA WorkStill ==
    ASSUME IInv, StillFiles, UNCHANGED <<orig, work, raced>>,
           \A q \in Procs : /\ pc'[q] = "rbAct" => work[k'[q]] = None \/ k'[q] \in raced
                            /\ pc'[q] = "rbVerify" => pc[q] = "rbVerify" /\ k'[q] = k[q]
    PROVE  AllKept'
<1> SUFFICES ASSUME NEW f \in Files, work[f] # None PROVE WorkKept(f)'
  BY DEF AllKept, WorkKept
<1>1. WorkKept(f)
  BY DEF IInv, AllKept
<1>2. f \in raced \/ (Here(f, work[f]) /\ Survives(f, work[f]))
  BY <1>1 DEF WorkKept
<1>3. Here(f, work[f]) => Here(f, work[f])'
  BY DEF Here, StillFiles, HasData
<1>4. Here(f, work[f]) /\ Survives(f, work[f]) => Survives(f, work[f])'
  BY DEF Survives, Here, StillFiles, SyncedAt, HasData
<1> QED
  BY <1>1, <1>2, <1>3, <1>4 DEF WorkKept, StillFiles, HasData

LEMMA QuietStep ==
    ASSUME IInv, NEW p \in Procs, Holds(p), UNCHANGED <<marker, syncedMark, moved, owner, applied, op, orig, ready, published>>,
           StillFiles, NEW label \in Labels, NEW n \in 0 .. N + 1, Step(p, label, n),
           complete' \in [Procs -> BOOLEAN], \A q \in Procs : q # p => complete'[q] = complete[q],
           label = "rbAct" => work[n] = None \/ n \in raced, label # "rbVerify", Phase(p)', label \in Working => HolderSound(p)'
    PROVE  IInv'
<1>1. /\ pc' \in [Procs -> Labels] /\ k' \in [Procs -> 0 .. N + 1] /\ pc'[p] = label /\ k'[p] = n
      /\ \A q \in Procs : q # p => pc'[q] = pc[q] /\ k'[q] = k[q]
  BY Stepped
<1>2. OnlyBy(p)
  BY <1>1 DEF OnlyBy
<1>3. TypeOK'
  BY <1>1 DEF IInv, TypeOK, StillFiles, SyncedTypes, owner
<1>4. AllFresh'
  BY FreshStill DEF owner
<1>5. \A q \in Procs : pc[q] \notin {"rbAct", "rbVerify"} \/ q = p
  BY DEF IInv, Exclusive, Holds, Working
<1>6. AllKept'
  BY <1>1, <1>5, WorkStill DEF owner
<1>7. PlanFits(p)'
  BY DEF IInv, Plans, PlanFits
<1>8. Holds(p)' => HolderSound(p)'
  BY <1>1 DEF Holds
<1> QED
  BY <1>1, <1>2, <1>3, <1>4, <1>6, <1>7, <1>8, HolderStep

\* publish returns, or the process dies: nothing is asked of it any longer.
LEMMA LeaveStep ==
    ASSUME IInv, NEW p \in Procs, Holds(p), UNCHANGED <<fs, owner, applied, op, orig, ready, published, complete, k>>,
           NEW label \in {"done", "crashed"}, Goto(p, label)
    PROVE  IInv'
<1>1. Step(p, label, k[p]) /\ k[p] \in 0 .. N + 1 /\ label \in Labels /\ label \notin Working
  BY Gone DEF Labels, Working
<1>2. StillFiles
  BY SameStill DEF fs
<1>3. pc'[p] = label
  BY <1>1, Stepped
<1>4. Phase(p)'
  BY <1>3 DEF Phase, Holds, Working
<1> QED
  BY <1>1, <1>2, <1>3, <1>4, QuietStep DEF fs, IInv, TypeOK

\* What the last publication left at f does not change with the files.
LEMMA SettledSame == ASSUME UNCHANGED <<op, applied, start>>, NEW f \in Files PROVE Settled(f)' = Settled(f)
BY DEF Settled, Result, Staged

\* A quiet step leaves all that is known of a path of its process, but for the place in the code.
LEMMA QuietFacts ==
    ASSUME IInv, NEW p \in Procs, Holds(p), UNCHANGED <<owner, applied, op, orig, ready, published>>,
           StillFiles, NEW label \in Labels, NEW n \in 0 .. N + 1, Step(p, label, n), NEW f \in Files
    PROVE  /\ pc'[p] = label /\ k'[p] = n
           /\ dest'[f] = dest[f] /\ temp'[p][f] = temp[p][f] /\ op'[p][f] = op[p][f] /\ orig'[p][f] = orig[p][f]
           /\ ready'[p] = ready[p] /\ published'[p] = published[p] /\ Settled(f)' = Settled(f)
           /\ (f \in touched'[p]) <=> (f \in touched[p])
           /\ (f \in touched'[applied']) <=> (f \in touched[applied])
           /\ Prep(p, f)' = Prep(p, f) /\ Result(p, f)' = Result(p, f)
           /\ IsStaged(dest[f], p, f)' <=> IsStaged(dest[f], p, f)
           /\ \A q \in Procs : temp'[q][f] = temp[q][f]
           /\ (\A q \in Procs : q # p => temp[q][f] = None /\ synced[f].temp[q] = None)
              => (\A q \in Procs : q # p => temp'[q][f] = None /\ synced'[f].temp[q] = None)
           /\ Private(p, f) /\ Intact(p, f) /\ Durable(p, f)
<1>1. pc'[p] = label /\ k'[p] = n
  BY Stepped
<1>2. Settled(f)' = Settled(f)
  BY SettledSame DEF owner
<1>3. Private(p, f) /\ Intact(p, f) /\ Durable(p, f)
  BY DEF IInv, HolderSound
<1>4. UNCHANGED <<dest, temp, op, orig, ready, published, touched, applied>>
  BY DEF StillFiles, owner
<1>5. Prep(p, f)' = Prep(p, f) /\ Result(p, f)' = Result(p, f) /\ (IsStaged(dest[f], p, f)' <=> IsStaged(dest[f], p, f))
  BY <1>4 DEF Prep, Result, IsStaged, Staged
<1>6. (\A q \in Procs : q # p => temp[q][f] = None /\ synced[f].temp[q] = None)
       => (\A q \in Procs : q # p => temp'[q][f] = None /\ synced'[f].temp[q] = None)
  BY <1>4 DEF StillFiles, SyncedAt
<1> QED
  BY <1>1, <1>2, <1>3, <1>4, <1>5, <1>6

\* publish_with turns to its rollback: every published change is as it was made, and none is given up.
LEMMA FailStep ==
    ASSUME IInv, NEW p \in Procs, pc[p] \in {"preflight", "verify", "check", "rename", "mode", "confirm", "settle"},
           UNCHANGED <<marker, syncedMark, moved, owner, applied>>, StillFiles, NEW kind, Fail(p, kind)
    PROVE  IInv'
<1>1. Holds(p) /\ N \in Nat /\ N > 0 /\ Files = 1 .. N
  BY ConstantsTyped DEF Holds, Working
<1>2. Step(p, "rbCheck", N) /\ "rbCheck" \in Labels /\ N \in 0 .. N + 1 /\ UNCHANGED <<op, orig, ready, published, complete>>
  BY <1>1 DEF Fail, Labels, Working
<1>3. pc'[p] = "rbCheck" /\ k'[p] = N
  BY <1>2, Stepped
<1>4. Phase(p) /\ ready[p] = N /\ complete[p] /\ published[p] \subseteq 1 .. N
  BY <1>1, FieldsTyped DEF IInv, Plans, Phase, TypeOK
<1>5. Phase(p)'
  BY <1>1, <1>2, <1>3, <1>4 DEF Phase, Holds, Working
<1>6. ASSUME NEW f \in Files PROVE Private(p, f)' /\ Intact(p, f)' /\ Durable(p, f)'
  <2>1. f \in Nat /\ f <= ready[p] /\ f <= N
    BY <1>1, <1>4
  <2>a. k[p] \in Int
    BY FieldsTyped, <1>1
  <2>2. Private(p, f)'
    BY <1>1, <1>2, <1>3, <1>4, <2>1, <2>a, QuietFacts DEF Private, Confirmed, BackupGone
  <2>3. Intact(p, f)'
    BY <1>1, <1>2, <1>3, <1>4, <2>1, <2>a, QuietFacts DEF Intact, Confirmed, BackupGone, Untouched, Reverting, SettledAt
  <2>4. Durable(p, f)'
    BY <1>1, <1>2, <1>3, <1>4, <2>1, <2>a, QuietFacts DEF Durable
  <2> QED
    BY <2>2, <2>3, <2>4
<1>7. HolderSound(p)'
  BY <1>6 DEF HolderSound
<1>8. complete' \in [Procs -> BOOLEAN] /\ \A q \in Procs : q # p => complete'[q] = complete[q]
  BY <1>2 DEF IInv, TypeOK
<1> QED
  BY <1>1, <1>2, <1>5, <1>7, <1>8, QuietStep

\* What a holder knows of itself, in one place.
LEMMA HolderFacts ==
    ASSUME IInv, NEW p \in Procs, Holds(p)
    PROVE  /\ N \in Nat /\ N > 0 /\ Files = 1 .. N /\ k[p] \in 0 .. N + 1 /\ ready[p] \in 0 .. N
           /\ published[p] \subseteq 1 .. N /\ complete[p] \in BOOLEAN /\ Phase(p) /\ pc[p] \in Labels
<1>1. Phase(p) /\ k[p] \in 0 .. N + 1 /\ ready[p] \in 0 .. N /\ published[p] \subseteq Files /\ complete[p] \in BOOLEAN /\ pc[p] \in Labels
  BY DEF IInv, TypeOK, Plans
<1> QED
  BY <1>1, ConstantsTyped

\* The rest of a quiet step, once the process keeps its numbers and what it knows of every path.
LEMMA QuietGoes ==
    ASSUME IInv, NEW p \in Procs, Holds(p), UNCHANGED <<marker, syncedMark, moved, owner, applied, op, orig, ready, published, complete>>,
           StillFiles, NEW label \in Labels \ {"rbAct", "rbVerify"}, NEW n \in 0 .. N + 1, Step(p, label, n), Phase(p)',
           \A f \in Files : Private(p, f)' /\ Intact(p, f)' /\ Durable(p, f)'
    PROVE  IInv'
<1>1. complete' \in [Procs -> BOOLEAN] /\ (\A q \in Procs : q # p => complete'[q] = complete[q]) /\ HolderSound(p)'
  BY DEF IInv, TypeOK, HolderSound
<1> QED
  BY <1>1, QuietStep

\* The moves of a publication that change nothing but the place in the code and what is durable.
Moves(p, label, n) ==
    \/ pc[p] = "prepare" /\ label = "discard" /\ n = 1
    \/ pc[p] = "prepare" /\ k[p] = N + 1 /\ label = "preflight" /\ n = 1
    \/ pc[p] = "preflight" /\ label = "verify" /\ n = 1
    \/ pc[p] = "verify" /\ label = "check" /\ n = 1
    \/ pc[p] = "check" /\ label = "rename" /\ n = k[p]
    \/ pc[p] = "mode" /\ label = "confirm" /\ n = k[p]
    \/ pc[p] = "settle" /\ k[p] < N /\ label = "check" /\ n = k[p] + 1
    \/ pc[p] = "settle" /\ k[p] >= N /\ label = "backups" /\ n = 1
    \/ pc[p] = "backups" /\ k[p] \in Files /\ op[p][k[p]] = "create" /\ label = "backups" /\ n = k[p] + 1
    \/ pc[p] = "rbCheck" /\ k[p] \in Files \ published[p] /\ label = "rbCheck" /\ n = k[p] - 1
    \/ pc[p] = "rbCheck" /\ k[p] = 0 /\ complete[p] /\ label = "rbClean" /\ n = 1

LEMMA QuietMove ==
    ASSUME IInv, NEW p \in Procs, Holds(p), UNCHANGED <<marker, syncedMark, moved, owner, applied, op, orig, ready, published, complete>>,
           StillFiles, NEW label, NEW n, label = "discard" \/ error'[p] = error[p], Moves(p, label, n), Step(p, label, n)
    PROVE  IInv'
<1>1. N \in Nat /\ N > 0 /\ Files = 1 .. N /\ k[p] \in 0 .. N + 1 /\ ready[p] \in 0 .. N /\ published[p] \subseteq 1 .. N
      /\ complete[p] \in BOOLEAN /\ Phase(p)
  BY HolderFacts
<1>2. label \in Labels \ {"rbAct", "rbVerify"} /\ n \in 0 .. N + 1
  BY <1>1 DEF Moves, Labels, Working, Phase
<1>3. pc'[p] = label /\ k'[p] = n
  BY <1>2, Stepped
<1>4. UNCHANGED <<op, orig, ready, published, complete>>
  OBVIOUS
<1>5. ASSUME Phase(p)', \A f \in Files : Private(p, f)' /\ Intact(p, f)' /\ Durable(p, f)' PROVE IInv'
  BY <1>2, <1>5, QuietGoes
<1>a. CASE pc[p] = "prepare" /\ label = "discard" /\ n = 1
  <2>1. Phase(p)'
    BY <1>1, <1>3, <1>4, <1>a DEF Phase, Holds, Working
  <2>2. published[p] = {} /\ k[p] = ready[p] + 1
    BY <1>1, <1>a DEF Phase, Holds, Working
  <2>3. ASSUME NEW f \in 1 .. N PROVE Private(p, f)' /\ Intact(p, f)' /\ Durable(p, f)'
    <3>1. Private(p, f)'
      BY <1>1, <1>2, <1>a, <2>2, QuietFacts DEF Private, Confirmed, BackupGone
    <3>2. Intact(p, f)'
      BY <1>1, <1>2, <1>a, <2>2, QuietFacts DEF Intact, Confirmed, BackupGone, Untouched, Reverting, SettledAt
    <3>3. Durable(p, f)'
      BY <1>1, <1>2, <1>a, <2>2, QuietFacts DEF Durable, Private, StillFiles, SyncedAt
    <3> QED
      BY <3>1, <3>2, <3>3
  <2> QED
    BY <1>1, <1>5, <2>1, <2>3
<1>b. CASE pc[p] = "prepare" /\ k[p] = N + 1 /\ label = "preflight" /\ n = 1
  <2>1. Phase(p)'
    BY <1>1, <1>3, <1>4, <1>b DEF Phase, Holds, Working
  <2>2. published[p] = {} /\ ready[p] = N
    BY <1>1, <1>b DEF Phase, Holds, Working
  <2>3. ASSUME NEW f \in 1 .. N PROVE Private(p, f)' /\ Intact(p, f)' /\ Durable(p, f)'
    <3>1. Private(p, f)'
      BY <1>1, <1>2, <1>b, <2>2, QuietFacts DEF Private, Confirmed, BackupGone
    <3>2. Intact(p, f)'
      BY <1>1, <1>2, <1>b, <2>2, QuietFacts DEF Intact, Confirmed, BackupGone, Untouched, Reverting, SettledAt
    <3>3. Durable(p, f)'
      BY <1>1, <1>2, <1>b, <2>2, QuietFacts DEF Durable, StillFiles, SyncedAt
    <3> QED
      BY <3>1, <3>2, <3>3
  <2> QED
    BY <1>1, <1>5, <2>1, <2>3
<1>c. CASE pc[p] = "preflight" /\ label = "verify" /\ n = 1
  <2>1. Phase(p)'
    BY <1>1, <1>3, <1>4, <1>c DEF Phase, Holds, Working
  <2>2. published[p] = {} /\ ready[p] = N
    BY <1>1, <1>c DEF Phase, Holds, Working
  <2>3. ASSUME NEW f \in 1 .. N PROVE Private(p, f)' /\ Intact(p, f)' /\ Durable(p, f)'
    <3>1. Private(p, f)'
      BY <1>1, <1>2, <1>c, <2>2, QuietFacts DEF Private, Confirmed, BackupGone
    <3>2. Intact(p, f)'
      BY <1>1, <1>2, <1>c, <2>2, QuietFacts DEF Intact, Confirmed, BackupGone, Untouched, Reverting, SettledAt
    <3>3. Durable(p, f)'
      BY <1>1, <1>2, <1>c, <2>2, QuietFacts DEF Durable, StillFiles, SyncedAt
    <3> QED
      BY <3>1, <3>2, <3>3
  <2> QED
    BY <1>1, <1>5, <2>1, <2>3
<1>d. CASE pc[p] = "verify" /\ label = "check" /\ n = 1
  <2>1. Phase(p)'
    BY <1>1, <1>3, <1>4, <1>d DEF Phase, Holds, Working
  <2>2. published[p] = {} /\ ready[p] = N
    BY <1>1, <1>d DEF Phase, Holds, Working
  <2>3. ASSUME NEW f \in 1 .. N PROVE Private(p, f)' /\ Intact(p, f)' /\ Durable(p, f)'
    <3>1. Private(p, f)'
      BY <1>1, <1>2, <1>d, <2>2, QuietFacts DEF Private, Confirmed, BackupGone
    <3>2. Intact(p, f)'
      BY <1>1, <1>2, <1>d, <2>2, QuietFacts DEF Intact, Confirmed, BackupGone, Untouched, Reverting, SettledAt
    <3>3. Durable(p, f)'
      BY <1>1, <1>2, <1>d, <2>2, QuietFacts DEF Durable, StillFiles, SyncedAt
    <3> QED
      BY <3>1, <3>2, <3>3
  <2> QED
    BY <1>1, <1>5, <2>1, <2>3
<1>e. CASE pc[p] = "check" /\ label = "rename" /\ n = k[p]
  <2>1. Phase(p)'
    BY <1>1, <1>3, <1>4, <1>e DEF Phase, Holds, Working
  <2>2. k[p] \in 1 .. N /\ ready[p] = N /\ published[p] = 1 .. k[p] - 1
    BY <1>1, <1>e DEF Phase, Holds, Working
  <2>3. ASSUME NEW f \in 1 .. N PROVE Private(p, f)' /\ Intact(p, f)' /\ Durable(p, f)'
    <3>1. Private(p, f)'
      BY <1>1, <1>2, <1>e, <2>2, QuietFacts DEF Private, Confirmed, BackupGone
    <3>2. Intact(p, f)'
      BY <1>1, <1>2, <1>e, <2>2, QuietFacts DEF Intact, Confirmed, BackupGone, Untouched, Reverting, SettledAt
    <3>3. Durable(p, f)'
      BY <1>1, <1>2, <1>e, <2>2, QuietFacts DEF Durable, StillFiles, SyncedAt
    <3> QED
      BY <3>1, <3>2, <3>3
  <2> QED
    BY <1>1, <1>5, <2>1, <2>3
<1>f. CASE pc[p] = "mode" /\ label = "confirm" /\ n = k[p]
  <2>1. Phase(p)'
    BY <1>1, <1>3, <1>4, <1>f DEF Phase, Holds, Working
  <2>2. k[p] \in 1 .. N /\ ready[p] = N /\ published[p] = 1 .. k[p]
    BY <1>1, <1>f DEF Phase, Holds, Working
  <2>3. ASSUME NEW f \in 1 .. N PROVE Private(p, f)' /\ Intact(p, f)' /\ Durable(p, f)'
    <3>1. Private(p, f)'
      BY <1>1, <1>2, <1>f, <2>2, QuietFacts DEF Private, Confirmed, BackupGone
    <3>2. Intact(p, f)'
      BY <1>1, <1>2, <1>f, <2>2, QuietFacts DEF Intact, Confirmed, BackupGone, Untouched, Reverting, SettledAt
    <3>3. Durable(p, f)'
      BY <1>1, <1>2, <1>f, <2>2, QuietFacts DEF Durable, StillFiles, SyncedAt
    <3> QED
      BY <3>1, <3>2, <3>3
  <2> QED
    BY <1>1, <1>5, <2>1, <2>3
<1>g. CASE pc[p] = "settle" /\ k[p] < N /\ label = "check" /\ n = k[p] + 1
  <2>1. Phase(p)'
    BY <1>1, <1>3, <1>4, <1>g DEF Phase, Holds, Working
  <2>2. k[p] \in 1 .. N /\ ready[p] = N /\ published[p] = 1 .. k[p]
    BY <1>1, <1>g DEF Phase, Holds, Working
  <2>3. ASSUME NEW f \in 1 .. N PROVE Private(p, f)' /\ Intact(p, f)' /\ Durable(p, f)'
    <3>1. Private(p, f)'
      <4>1. (f < n <=> f <= k[p]) /\ (f \in published[p] <=> f <= k[p]) /\ f <= ready[p] /\ f \in Files
        BY <1>1, <1>g, <2>2
      <4>2. temp'[p][f] = temp[p][f] /\ (f < n => temp[p][f] = orig[p][f]) /\ (~(f < n) => temp[p][f] = Prep(p, f))
        BY <1>1, <1>2, <1>g, <4>1, QuietFacts DEF Private, Confirmed, BackupGone
      <4> QED
        BY <1>1, <1>2, <1>g, <4>1, <4>2, QuietFacts DEF Private, Confirmed, BackupGone
    <3>2. Intact(p, f)'
      BY <1>1, <1>2, <1>g, <2>2, QuietFacts DEF Intact, Confirmed, BackupGone, Untouched, Reverting, SettledAt
    <3>3. Durable(p, f)'
      BY <1>1, <1>2, <1>g, <2>2, QuietFacts DEF Durable, StillFiles, SyncedAt
    <3> QED
      BY <3>1, <3>2, <3>3
  <2> QED
    BY <1>1, <1>5, <2>1, <2>3
<1>h. CASE pc[p] = "settle" /\ k[p] >= N /\ label = "backups" /\ n = 1
  <2>1. Phase(p)'
    BY <1>1, <1>3, <1>4, <1>h DEF Phase, Holds, Working
  <2>2. k[p] = N /\ ready[p] = N /\ published[p] = 1 .. N
    BY <1>1, <1>h DEF Phase, Holds, Working
  <2>3. ASSUME NEW f \in 1 .. N PROVE Private(p, f)' /\ Intact(p, f)' /\ Durable(p, f)'
    <3>1. Private(p, f)'
      BY <1>1, <1>2, <1>h, <2>2, QuietFacts DEF Private, Confirmed, BackupGone
    <3>2. Intact(p, f)'
      BY <1>1, <1>2, <1>h, <2>2, QuietFacts DEF Intact, Confirmed, BackupGone, Untouched, Reverting, SettledAt
    <3>3. Durable(p, f)'
      BY <1>1, <1>2, <1>h, <2>2, QuietFacts DEF Durable, StillFiles, SyncedAt
    <3> QED
      BY <3>1, <3>2, <3>3
  <2> QED
    BY <1>1, <1>5, <2>1, <2>3
<1>i. CASE pc[p] = "backups" /\ k[p] \in Files /\ op[p][k[p]] = "create" /\ label = "backups" /\ n = k[p] + 1
  <2>1. Phase(p)'
    BY <1>1, <1>3, <1>4, <1>i DEF Phase, Holds, Working
  <2>2. ready[p] = N /\ published[p] = 1 .. N
    BY <1>1, <1>i DEF Phase, Holds, Working
  <2>3. ASSUME NEW f \in 1 .. N PROVE Private(p, f)' /\ Intact(p, f)' /\ Durable(p, f)'
    <3>1. Private(p, f)'
      BY <1>1, <1>2, <1>i, <2>2, QuietFacts DEF Private, Confirmed, BackupGone
    <3>2. Intact(p, f)'
      BY <1>1, <1>2, <1>i, <2>2, QuietFacts DEF Intact, Confirmed, BackupGone, Untouched, Reverting, SettledAt
    <3>3. Durable(p, f)'
      BY <1>1, <1>2, <1>i, <2>2, QuietFacts DEF Durable, StillFiles, SyncedAt
    <3> QED
      BY <3>1, <3>2, <3>3
  <2> QED
    BY <1>1, <1>5, <2>1, <2>3
<1>j. CASE pc[p] = "rbCheck" /\ k[p] \in Files \ published[p] /\ label = "rbCheck" /\ n = k[p] - 1
  <2>1. Phase(p)'
    BY <1>1, <1>3, <1>4, <1>j DEF Phase, Holds, Working
  <2>2. ready[p] = N
    BY <1>1, <1>j DEF Phase, Holds, Working
  <2>3. ASSUME NEW f \in 1 .. N PROVE Private(p, f)' /\ Intact(p, f)' /\ Durable(p, f)'
    <3>1. Private(p, f)'
      BY <1>1, <1>2, <1>j, <2>2, QuietFacts DEF Private, Confirmed, BackupGone
    <3>2. Intact(p, f)'
      BY <1>1, <1>2, <1>j, <2>2, QuietFacts DEF Intact, Confirmed, BackupGone, Untouched, Reverting, SettledAt
    <3>3. Durable(p, f)'
      BY <1>1, <1>2, <1>j, <2>2, QuietFacts DEF Durable, StillFiles, SyncedAt
    <3> QED
      BY <3>1, <3>2, <3>3
  <2> QED
    BY <1>1, <1>5, <2>1, <2>3
<1>k. CASE pc[p] = "rbCheck" /\ k[p] = 0 /\ complete[p] /\ label = "rbClean" /\ n = 1
  <2>1. Phase(p)'
    BY <1>1, <1>3, <1>4, <1>k DEF Phase, Holds, Working
  <2>2. ready[p] = N /\ published[p] = {}
    BY <1>1, <1>k DEF Phase, Holds, Working
  <2>3. ASSUME NEW f \in 1 .. N PROVE Private(p, f)' /\ Intact(p, f)' /\ Durable(p, f)'
    <3>1. Private(p, f)'
      BY <1>1, <1>2, <1>k, <2>2, QuietFacts DEF Private, Confirmed, BackupGone
    <3>2. Intact(p, f)'
      BY <1>1, <1>2, <1>k, <2>2, QuietFacts DEF Intact, Confirmed, BackupGone, Untouched, Reverting, SettledAt
    <3>3. Durable(p, f)'
      BY <1>1, <1>2, <1>k, <2>2, QuietFacts DEF Durable, StillFiles, SyncedAt
    <3> QED
      BY <3>1, <3>2, <3>3
  <2> QED
    BY <1>1, <1>5, <2>1, <2>3
<1> QED
  BY <1>a, <1>b, <1>c, <1>d, <1>e, <1>f, <1>g, <1>h, <1>i, <1>j, <1>k DEF Moves

\* verify_published has found the change as it should be.
LEMMA ConfirmStep ==
    ASSUME IInv, NEW p \in Procs, pc[p] = "confirm", dest[k[p]] = Result(p, k[p]), temp[p][k[p]] = orig[p][k[p]],
           UNCHANGED <<fs, owner, applied, k, txn>>, Goto(p, "settle")
    PROVE  IInv'
<1>1. Holds(p)
  BY DEF Holds, Working
<1>2. N \in Nat /\ N > 0 /\ Files = 1 .. N /\ k[p] \in 0 .. N + 1 /\ Phase(p)
  BY <1>1, HolderFacts
<1>3. Step(p, "settle", k[p]) /\ "settle" \in Labels \ {"rbAct", "rbVerify"} /\ StillFiles
      /\ UNCHANGED <<marker, syncedMark, moved, owner, applied, op, orig, ready, published, complete, error>>
  BY Gone, SameStill DEF fs, txn, Labels, Working
<1>4. pc'[p] = "settle" /\ k'[p] = k[p]
  BY <1>2, <1>3, Stepped
<1>5. Phase(p)'
  BY <1>2, <1>3, <1>4 DEF Phase, Holds, Working
<1>6. ASSUME NEW f \in 1 .. N PROVE Private(p, f)' /\ Intact(p, f)' /\ Durable(p, f)'
  <2>1. k[p] \in 1 .. N /\ ready[p] = N /\ published[p] = 1 .. k[p]
    BY <1>2 DEF Phase, Holds, Working
  <2>2. Private(p, f)'
    BY <1>1, <1>2, <1>3, <2>1, QuietFacts DEF Private, Confirmed, BackupGone
  <2>3. Intact(p, f)'
    BY <1>1, <1>2, <1>3, <2>1, QuietFacts DEF Intact, Confirmed, BackupGone, Untouched, Reverting, SettledAt
  <2>4. Durable(p, f)'
    BY <1>1, <1>2, <1>3, <2>1, QuietFacts DEF Durable
  <2> QED
    BY <2>2, <2>3, <2>4
<1> QED
  BY <1>1, <1>2, <1>3, <1>5, <1>6, QuietGoes

\* sync_unique_parents: all that was published is durable before the marker goes.
LEMMA SyncedStep ==
    ASSUME IInv, NEW p \in Procs, pc[p] = "backups", k[p] = N + 1, Sync(Files), Step(p, "unmark", 1),
           UNCHANGED <<dest, temp, marker, syncedMark, moved, owner, applied, txn>>
    PROVE  IInv'
<1>1. Holds(p)
  BY DEF Holds, Working
<1>2. N \in Nat /\ N > 0 /\ Files = 1 .. N /\ Phase(p)
  BY <1>1, HolderFacts
<1>3. "unmark" \in Labels \ {"rbAct", "rbVerify"} /\ 1 \in 0 .. N + 1 /\ StillFiles /\ (\A f \in Files : SyncedAt(f))
      /\ UNCHANGED <<op, orig, ready, published, complete, error>>
  BY <1>2, SyncStill DEF txn, Labels, Working
<1>4. pc'[p] = "unmark" /\ k'[p] = 1
  BY <1>2, <1>3, Stepped
<1>5. Phase(p)'
  BY <1>2, <1>3, <1>4 DEF Phase, Holds, Working
<1>6. ASSUME NEW f \in 1 .. N PROVE Private(p, f)' /\ Intact(p, f)' /\ Durable(p, f)'
  <2>1. ready[p] = N /\ published[p] = 1 .. N /\ f <= N /\ f \in Files
    BY <1>2 DEF Phase, Holds, Working
  <2>2. Private(p, f)'
    BY <1>1, <1>2, <1>3, <2>1, QuietFacts DEF Private, Confirmed, BackupGone
  <2>3. Intact(p, f)'
    BY <1>1, <1>2, <1>3, <2>1, QuietFacts DEF Intact, Confirmed, BackupGone, Untouched, Reverting, SettledAt
  <2>4. temp[p][f] = None
    BY <1>1, <1>2, <1>3, <2>1, QuietFacts DEF Private, Confirmed, BackupGone
  <2>5. Durable(p, f)'
    BY <1>1, <1>2, <1>3, <2>1, <2>4, QuietFacts DEF Durable, SyncedAt
  <2> QED
    BY <2>2, <2>3, <2>5
<1> QED
  BY <1>1, <1>2, <1>3, <1>5, <1>6, QuietGoes

\* rollback_one is given up: the process reports that its rollback is incomplete.
LEMMA GiveUpStep ==
    ASSUME IInv, NEW p \in Procs, pc[p] \in {"rbCheck", "rbAct", "rbVerify"}, k[p] \in Files, GiveUp(p), UNCHANGED <<fs, owner, applied>>
    PROVE  IInv'
<1>1. Holds(p)
  BY DEF Holds, Working
<1>2. N \in Nat /\ N > 0 /\ Files = 1 .. N /\ k[p] \in 1 .. N /\ Phase(p) /\ published[p] \subseteq 1 .. N
  BY <1>1, HolderFacts
<1>3. "rbCheck" \in Labels \ {"rbAct", "rbVerify"} /\ k[p] - 1 \in 0 .. N + 1 /\ StillFiles /\ Step(p, "rbCheck", k[p] - 1)
      /\ UNCHANGED <<marker, syncedMark, moved, op, orig, ready, published, error>>
  BY <1>2, SameStill DEF fs, GiveUp, Labels, Working
<1>4. pc'[p] = "rbCheck" /\ k'[p] = k[p] - 1
  BY <1>2, <1>3, Stepped
<1>5. complete' \in [Procs -> BOOLEAN] /\ complete'[p] = FALSE /\ \A q \in Procs : q # p => complete'[q] = complete[q]
  BY DEF GiveUp, IInv, TypeOK
<1>6. Phase(p)'
  BY <1>2, <1>3, <1>4, <1>5 DEF Phase, Holds, Working
<1>7. ASSUME NEW f \in 1 .. N PROVE Private(p, f)' /\ Intact(p, f)' /\ Durable(p, f)'
  <2>1. ready[p] = N /\ f <= N /\ f \in Files
    BY <1>1, <1>2 DEF Phase
  <2>2. Private(p, f)'
    BY <1>1, <1>2, <1>3, <2>1, QuietFacts DEF Private, Confirmed, BackupGone
  <2>3. Intact(p, f)'
    BY <1>1, <1>2, <1>3, <2>1, QuietFacts DEF Intact, Confirmed, BackupGone, Untouched, Reverting, SettledAt
  <2>4. Durable(p, f)'
    BY <1>1, <1>2, <1>3, <2>1, QuietFacts DEF Durable
  <2> QED
    BY <2>2, <2>3, <2>4
<1>8. HolderSound(p)'
  BY <1>2, <1>7 DEF HolderSound
<1> QED
  BY <1>1, <1>3, <1>5, <1>6, <1>8, QuietStep

\* The reads of rollback_one have found what p had put there: nothing of it is the owner's.
LEMMA RevertStep ==
    ASSUME IInv, NEW p \in Procs, pc[p] = "rbCheck", k[p] \in published[p], Revertible(p, k[p]),
           UNCHANGED <<fs, owner, applied, k, txn>>, Goto(p, "rbAct")
    PROVE  IInv'
<1>1. Holds(p)
  BY DEF Holds, Working
<1>2. N \in Nat /\ N > 0 /\ Files = 1 .. N /\ k[p] \in 1 .. N /\ Phase(p) /\ published[p] \subseteq 1 .. N
  BY <1>1, HolderFacts
<1>3. "rbAct" \in Labels /\ k[p] \in 0 .. N + 1 /\ StillFiles /\ Step(p, "rbAct", k[p])
      /\ UNCHANGED <<marker, syncedMark, moved, op, orig, ready, published, complete, error>>
  BY <1>2, SameStill, Gone DEF fs, txn, Labels, Working
<1>4. pc'[p] = "rbAct" /\ k'[p] = k[p]
  BY <1>2, <1>3, Stepped
<1>5. complete' \in [Procs -> BOOLEAN] /\ \A q \in Procs : q # p => complete'[q] = complete[q]
  BY <1>3 DEF IInv, TypeOK
<1>6. Phase(p)'
  BY <1>2, <1>3, <1>4 DEF Phase, Holds, Working
<1>7. ASSUME NEW f \in 1 .. N PROVE Private(p, f)' /\ Intact(p, f)' /\ Durable(p, f)'
  <2>1. ready[p] = N /\ f <= N /\ f \in Files
    BY <1>1, <1>2 DEF Phase
  <2>2. Private(p, f)'
    BY <1>1, <1>2, <1>3, <2>1, QuietFacts DEF Private, Confirmed, BackupGone
  <2>3. Intact(p, f)'
    BY <1>1, <1>2, <1>3, <2>1, QuietFacts DEF Intact, Confirmed, BackupGone, Untouched, Reverting, SettledAt
  <2>4. Durable(p, f)'
    BY <1>1, <1>2, <1>3, <2>1, QuietFacts DEF Durable
  <2> QED
    BY <2>2, <2>3, <2>4
<1>8. HolderSound(p)'
  BY <1>2, <1>7 DEF HolderSound
<1>9. ASSUME NEW f \in Files, f = k[p], work[f] # None, f \notin raced PROVE FALSE
  <2>1. WorkKept(f) /\ Private(p, f)
    BY <1>1 DEF IInv, AllKept, HolderSound
  <2>2. work[f][1] = "user" /\ Here(f, work[f]) /\ ~HasData(orig[p][f], work[f])
    BY <1>9, <2>1 DEF WorkKept
  <2>3. ~HasData(dest[f], work[f])
    <3>1. ~HasData(Staged(p, f), work[f])
      BY <2>2, StagedTyped
    <3> QED
      BY <1>9, <3>1, StagedTyped DEF Revertible, HasData
  <2>4. PICK q \in Procs : HasData(temp[q][f], work[f])
    BY <2>2, <2>3 DEF Here
  <2>5. q = p
    BY <2>1, <2>4 DEF Private, HasData
  <2>6. op[p][f] # "create"
    BY <1>9, <2>1, <2>4, <2>5 DEF Private, HasData
  <2> QED
    BY <1>9, <2>2, <2>4, <2>5, <2>6 DEF Revertible
<1>10. work[k[p]] = None \/ k[p] \in raced
  BY <1>2, <1>9
<1> QED
  BY <1>1, <1>3, <1>5, <1>6, <1>8, <1>10, QuietStep

\* remove_temp_if_present has nothing to remove, or fails.
LEMMA PassedStep ==
    ASSUME IInv, NEW p \in Procs, pc[p] \in {"rbClean", "discard"}, k[p] <= ready[p], k' = [k EXCEPT ![p] = k[p] + 1],
           UNCHANGED <<fs, pc, op, orig, ready, published, error, outcome, owner, applied>>,
           \/ temp[p][k[p]] = None /\ UNCHANGED complete
           \/ complete' = [complete EXCEPT ![p] = FALSE]
    PROVE  IInv'
<1>1. Holds(p)
  BY DEF Holds, Working
<1>2. N \in Nat /\ N > 0 /\ Files = 1 .. N /\ k[p] \in 0 .. N + 1 /\ ready[p] \in 0 .. N /\ Phase(p)
  BY <1>1, HolderFacts
<1>3. pc[p] \in Labels \ {"rbAct", "rbVerify"} /\ k[p] + 1 \in 0 .. N + 1 /\ StillFiles /\ Step(p, pc[p], k[p] + 1)
      /\ UNCHANGED <<marker, syncedMark, moved, op, orig, ready, published, error>>
  <2>1. pc' = [pc EXCEPT ![p] = pc[p]]
    BY DEF IInv, Plans
  <2>2. StillFiles /\ UNCHANGED <<marker, syncedMark, moved, op, orig, ready, published, error>>
    BY SameStill DEF fs
  <2>3. Step(p, pc[p], k[p] + 1)
    BY <2>1 DEF Step, Goto
  <2> QED
    BY <1>2, <2>2, <2>3 DEF Labels, Working
<1>4. pc'[p] = pc[p] /\ k'[p] = k[p] + 1
  BY <1>2, <1>3, Stepped
<1>5. complete' \in [Procs -> BOOLEAN] /\ (\A q \in Procs : q # p => complete'[q] = complete[q])
      /\ (complete'[p] => complete[p] /\ temp[p][k[p]] = None)
  BY DEF IInv, TypeOK
<1>6. Phase(p)'
  BY <1>2, <1>3, <1>4 DEF Phase, Holds, Working
<1>7. ASSUME NEW f \in 1 .. N PROVE Private(p, f)' /\ Intact(p, f)' /\ Durable(p, f)'
  <2>1. f \in Files /\ published[p] = {}
    BY <1>2 DEF Phase
  <2>2. Private(p, f)'
    <3>1. f < k[p] + 1 => f < k[p] \/ f = k[p]
      BY <1>2
    <3> QED
      BY <1>1, <1>2, <1>3, <1>4, <1>5, <2>1, <3>1, QuietFacts DEF Private, Confirmed, BackupGone
  <2>3. Intact(p, f)'
    BY <1>1, <1>2, <1>3, <2>1, QuietFacts DEF Intact, Confirmed, BackupGone, Untouched, Reverting, SettledAt
  <2>4. Durable(p, f)'
    BY <1>1, <1>2, <1>3, <2>1, QuietFacts DEF Durable, fs
  <2> QED
    BY <2>2, <2>3, <2>4
<1>8. HolderSound(p)'
  BY <1>2, <1>7 DEF HolderSound
<1> QED
  BY <1>1, <1>3, <1>5, <1>6, <1>8, QuietStep

\* sync_unique_parents of a rollback or a cleanup that removed everything.
LEMMA CleanedStep ==
    ASSUME IInv, NEW p \in Procs, pc[p] \in {"rbClean", "discard"}, k[p] = ready[p] + 1, complete[p], Sync(1 .. ready[p]),
           Goto(p, IF pc[p] = "rbClean" THEN "rbRelease" ELSE "discardRelease"),
           UNCHANGED <<dest, temp, marker, syncedMark, moved, owner, applied, k, txn>>
    PROVE  IInv'
<1>1. Holds(p)
  BY DEF Holds, Working
<1>2. N \in Nat /\ N > 0 /\ Files = 1 .. N /\ k[p] \in 0 .. N + 1 /\ ready[p] \in 0 .. N /\ Phase(p)
  BY <1>1, HolderFacts
<1>3. PICK label : label = IF pc[p] = "rbClean" THEN "rbRelease" ELSE "discardRelease"
  OBVIOUS
<1>4. label \in {"rbRelease", "discardRelease"} /\ label \in Labels \ {"rbAct", "rbVerify"} /\ StillFiles /\ Step(p, label, k[p])
      /\ UNCHANGED <<marker, syncedMark, moved, op, orig, ready, published, complete, error>>
      /\ \A f \in Files : IF f \in 1 .. ready[p] THEN SyncedAt(f) ELSE synced'[f] = synced[f]
  BY <1>3, SyncStill, Gone DEF txn, Labels, Working
<1>5. pc'[p] = label /\ k'[p] = k[p]
  BY <1>2, <1>4, Stepped
<1>6. Phase(p)'
  BY <1>2, <1>3, <1>4, <1>5 DEF Phase, Holds, Working
<1>7. ASSUME NEW f \in 1 .. N PROVE Private(p, f)' /\ Intact(p, f)' /\ Durable(p, f)'
  <2>1. f \in Files /\ published[p] = {}
    BY <1>2 DEF Phase
  <2>2. Private(p, f)'
    BY <1>1, <1>2, <1>4, <2>1, QuietFacts DEF Private, Confirmed, BackupGone
  <2>3. Intact(p, f)'
    BY <1>1, <1>2, <1>4, <2>1, QuietFacts DEF Intact, Confirmed, BackupGone, Untouched, Reverting, SettledAt
  <2>4. f <= ready[p] => temp[p][f] = None
    BY <1>1, <1>2, <1>4, <2>1, QuietFacts DEF Private
  <2>5. Durable(p, f)'
    BY <1>1, <1>2, <1>4, <2>1, <2>4, QuietFacts DEF Durable, SyncedAt
  <2> QED
    BY <2>2, <2>3, <2>5
<1> QED
  BY <1>1, <1>2, <1>4, <1>6, <1>7, QuietGoes

(***************************************************************************)
(* Steps that move a file between the two names of one change              *)
(***************************************************************************)
\* X is at the path now, Y under the private name.
Moved(p, f, X, Y) ==
    /\ X \in File \union {None} /\ Y \in File \union {None}
    /\ dest' = [dest EXCEPT ![f] = X]
    /\ temp' = [temp EXCEPT ![p] = [temp[p] EXCEPT ![f] = Y]]
    /\ synced' \in SyncedTypes
    /\ \A g \in Files : \/ synced'[g] = synced[g]
                        \/ synced'[g].dest = dest'[g] /\ \A q \in Procs : synced'[g].temp[q] = temp'[q][g]

LEMMA MovedAt ==
    ASSUME IInv, NEW p \in Procs, NEW f \in Files, NEW X, NEW Y, Moved(p, f, X, Y)
    PROVE  /\ dest' \in [Files -> File \union {None}] /\ temp' \in [Procs -> [Files -> File \union {None}]]
           /\ dest'[f] = X /\ temp'[p][f] = Y
           /\ \A g \in Files : g # f => dest'[g] = dest[g] /\ temp'[p][g] = temp[p][g]
           /\ \A q \in Procs, g \in Files : q # p => temp'[q][g] = temp[q][g]
BY DEF IInv, TypeOK, Moved

LEMMA SyncedSame == ASSUME IInv, UNCHANGED synced PROVE synced' \in SyncedTypes
BY DEF IInv, TypeOK, SyncedTypes

\* What is known of a path of the process that moves a file, but for its place in the code and its plan.
LEMMA MoveFacts ==
    ASSUME IInv, NEW p \in Procs, Holds(p), NEW f \in Files, NEW X, NEW Y, Moved(p, f, X, Y),
           UNCHANGED <<owner, applied, op>>, NEW g \in Files
    PROVE  /\ g # f => dest'[g] = dest[g] /\ temp'[p][g] = temp[p][g]
           /\ g = f => dest'[g] = X /\ temp'[p][g] = Y
           /\ op'[p][g] = op[p][g] /\ Settled(g)' = Settled(g)
           /\ (g \in touched'[p]) <=> (g \in touched[p])
           /\ (g \in touched'[applied']) <=> (g \in touched[applied])
           /\ Prep(p, g)' = Prep(p, g) /\ Result(p, g)' = Result(p, g) /\ Staged(p, g)' = Staged(p, g)
           /\ \A q \in Procs : q # p => temp'[q][g] = None /\ synced'[g].temp[q] = None
           /\ Private(p, g) /\ Intact(p, g) /\ Durable(p, g)
<1>1. Private(p, g) /\ Intact(p, g) /\ Durable(p, g)
  BY DEF IInv, HolderSound
<1>2. \A q \in Procs : q # p => temp[q][g] = None /\ synced[g].temp[q] = None
  BY <1>1 DEF Private
<1>3. \A q \in Procs : q # p => temp'[q][g] = None /\ synced'[g].temp[q] = None
  BY <1>2, MovedAt DEF Moved
<1>4. Settled(g)' = Settled(g)
  BY SettledSame DEF owner
<1>5. Prep(p, g)' = Prep(p, g) /\ Result(p, g)' = Result(p, g) /\ Staged(p, g)' = Staged(p, g) /\ op'[p][g] = op[p][g]
  BY DEF Prep, Result, Staged
<1>6. touched'[p] = touched[p] /\ touched'[applied'] = touched[applied]
  BY DEF owner
<1> QED
  BY <1>1, <1>3, <1>4, <1>5, <1>6, MovedAt

LEMMA MoveFresh ==
    ASSUME IInv, NEW p \in Procs, NEW f \in Files, NEW X, NEW Y, Moved(p, f, X, Y), UNCHANGED edits, Fresh(X), Fresh(Y),
           \A q \in Procs, g \in Files : Fresh(orig'[q][g])
    PROVE  AllFresh'
<1> SUFFICES ASSUME NEW g \in Files
             PROVE  Fresh(dest[g])' /\ Fresh(synced[g].dest)'
                    /\ \A q \in Procs : Fresh(temp[q][g])' /\ Fresh(synced[g].temp[q])' /\ Fresh(orig[q][g])'
  BY DEF AllFresh
<1>1. Fresh(dest[g]) /\ Fresh(synced[g].dest) /\ \A q \in Procs : Fresh(temp[q][g]) /\ Fresh(synced[g].temp[q])
  BY DEF IInv, AllFresh
<1>2. Fresh(dest'[g]) /\ \A q \in Procs : Fresh(temp'[q][g])
  <2>1. dest'[g] = X \/ dest'[g] = dest[g]
    BY MovedAt
  <2>2. \A q \in Procs : temp'[q][g] = Y \/ temp'[q][g] = temp[q][g]
    BY MovedAt
  <2> HIDE DEF Fresh
  <2> QED
    BY <1>1, <2>1, <2>2
<1>3. Fresh(synced'[g].dest) /\ \A q \in Procs : Fresh(synced'[g].temp[q])
  <2> HIDE DEF Fresh
  <2> QED
    BY <1>1, <1>2 DEF Moved
<1> QED
  BY <1>2, <1>3 DEF Fresh

\* What the owner wrote is still at the path or under the private name.
LEMMA MoveWork ==
    ASSUME IInv, NEW p \in Procs, NEW f \in Files, NEW X, NEW Y, Moved(p, f, X, Y), UNCHANGED <<work, raced>>,
           work[f] # None /\ f \notin raced /\ (HasData(dest[f], work[f]) \/ HasData(temp[p][f], work[f]))
           => HasData(X, work[f]) \/ HasData(Y, work[f]),
           \A q \in Procs, g \in Files : work[g] # None => ~HasData(orig'[q][g], work[g]),
           \A q \in Procs :
               /\ pc'[q] = "rbAct" => pc[q] = "rbAct" /\ k'[q] = k[q]
               /\ pc'[q] = "rbVerify" /\ q # p => pc[q] = "rbVerify" /\ k'[q] = k[q]
               /\ pc'[q] = "rbVerify" /\ q = p => pc[q] = "rbAct" /\ k'[q] = k[q]
    PROVE  AllKept'
<1> SUFFICES ASSUME NEW g \in Files, work[g] # None PROVE WorkKept(g)'
  BY DEF AllKept, WorkKept
<1>1. WorkKept(g)
  BY DEF IInv, AllKept
<1>2. work[g][1] = "user" /\ (g \in raced \/ (Here(g, work[g]) /\ Survives(g, work[g])))
  BY <1>1 DEF WorkKept
<1>3. ASSUME g \notin raced PROVE Here(g, work[g])'
  <2>1. CASE g = f
    <3>1. HasData(dest[f], work[f]) \/ \E q \in Procs : HasData(temp[q][f], work[f])
      BY <1>2, <1>3, <2>1 DEF Here
    <3>2. dest'[f] = X /\ temp'[p][f] = Y /\ \A q \in Procs : q # p => temp'[q][f] = temp[q][f]
      BY MovedAt
    <3> HIDE DEF HasData
    <3>3. HasData(dest'[f], work[f]) \/ \E q \in Procs : HasData(temp'[q][f], work[f])
      BY <1>3, <2>1, <3>1, <3>2
    <3> QED
      BY <2>1, <3>3 DEF Here, HasData
  <2>2. CASE g # f
    <3>1. dest'[g] = dest[g] /\ \A q \in Procs : temp'[q][g] = temp[q][g]
      BY <2>2, MovedAt
    <3> QED
      BY <1>2, <1>3, <3>1 DEF Here, HasData
  <2> QED
    BY <2>1, <2>2
<1>4. ASSUME g \notin raced PROVE Survives(g, work[g])'
  <2>1. Here(g, work[g])' /\ Survives(g, work[g])
    BY <1>2, <1>3, <1>4
  <2>2. CASE synced'[g] = synced[g]
    BY <2>1, <2>2 DEF Survives, HasData
  <2>3. CASE synced'[g].dest = dest'[g] /\ \A q \in Procs : synced'[g].temp[q] = temp'[q][g]
    BY <2>1, <2>3 DEF Survives, Here, HasData
  <2> QED
    BY <2>2, <2>3 DEF Moved
<1>5. ASSUME NEW q \in Procs
      PROVE  /\ ~HasData(orig[q][g], work[g])'
             /\ (pc[q] = "rbAct" /\ k[q] = g => g \in raced)'
             /\ (pc[q] = "rbVerify" /\ k[q] = g => g \in raced \/ ~HasData(temp[q][g], work[g]))'
  <2>1. /\ pc[q] = "rbAct" /\ k[q] = g => g \in raced
        /\ pc[q] = "rbVerify" /\ k[q] = g => g \in raced \/ ~HasData(temp[q][g], work[g])
    BY <1>1 DEF WorkKept
  <2>2. q # p => temp'[q][g] = temp[q][g]
    BY MovedAt
  <2> QED
    BY <2>1, <2>2 DEF HasData
<1> QED
  BY <1>2, <1>3, <1>4, <1>5 DEF WorkKept

\* The rest of a step that moves a file: the types, and what is asked of all publishers together.
LEMMA MoveGoes ==
    ASSUME IInv, NEW p \in Procs, Holds(p), NEW f \in Files, NEW X, NEW Y, Moved(p, f, X, Y),
           UNCHANGED <<marker, syncedMark, moved, owner, applied, op>>,
           NEW label \in Labels \ {"rbAct"}, NEW n \in 0 .. N + 1, Step(p, label, n),
           label = "rbVerify" => pc[p] = "rbAct" /\ n = k[p],
           orig' \in [Procs -> [Files -> File \union {None}]], ready' \in [Procs -> 0 .. N],
           published' \in [Procs -> SUBSET Files], complete' \in [Procs -> BOOLEAN],
           \A q \in Procs : q # p => /\ orig'[q] = orig[q] /\ ready'[q] = ready[q]
                                     /\ published'[q] = published[q] /\ complete'[q] = complete[q],
           \A g \in Files : g # f => orig'[p][g] = orig[p][g],
           orig'[p][f] \in {orig[p][f], dest[f]}, Fresh(X), Fresh(Y),
           work[f] # None => ~HasData(orig'[p][f], work[f]),
           work[f] # None /\ f \notin raced /\ (HasData(dest[f], work[f]) \/ HasData(temp[p][f], work[f]))
           => HasData(X, work[f]) \/ HasData(Y, work[f]),
           Phase(p)', PlanFits(p)', label \in Working => \A g \in Files : Private(p, g)' /\ Intact(p, g)' /\ Durable(p, g)'
    PROVE  IInv'
<1>1. /\ pc' \in [Procs -> Labels] /\ k' \in [Procs -> 0 .. N + 1] /\ pc'[p] = label /\ k'[p] = n
      /\ \A q \in Procs : q # p => pc'[q] = pc[q] /\ k'[q] = k[q]
  BY Stepped
<1>2. OnlyBy(p)
  BY <1>1 DEF OnlyBy
<1>3. TypeOK'
  BY <1>1, MovedAt DEF IInv, TypeOK, Moved, SyncedTypes, owner
<1>4. \A q \in Procs, g \in Files : orig'[q][g] = orig[q][g] \/ (q = p /\ g = f)
  OBVIOUS
<1>5. AllFresh'
  <2>1. \A q \in Procs, g \in Files : Fresh(orig[q][g]) /\ Fresh(dest[g])
    BY DEF IInv, AllFresh
  <2>2. \A q \in Procs, g \in Files : Fresh(orig'[q][g])
    <3> HIDE DEF Fresh
    <3> QED
      BY <1>4, <2>1
  <2> QED
    BY <2>2, MoveFresh DEF owner
<1>6. AllKept'
  <2>1. \A q \in Procs, g \in Files : work[g] # None => ~HasData(orig[q][g], work[g])
    BY DEF IInv, AllKept, WorkKept
  <2>2. \A q \in Procs, g \in Files : work[g] # None => ~HasData(orig'[q][g], work[g])
    <3> HIDE DEF HasData
    <3> QED
      BY <1>4, <2>1
  <2>3. \A q \in Procs : Holds(q) => q = p
    BY DEF IInv, Exclusive
  <2>4. \A q \in Procs :
           /\ pc'[q] = "rbAct" => pc[q] = "rbAct" /\ k'[q] = k[q]
           /\ pc'[q] = "rbVerify" /\ q # p => pc[q] = "rbVerify" /\ k'[q] = k[q]
           /\ pc'[q] = "rbVerify" /\ q = p => pc[q] = "rbAct" /\ k'[q] = k[q]
    BY <1>1
  <2> QED
    BY <2>2, <2>4, MoveWork DEF owner
<1>7. Holds(p)' => HolderSound(p)'
  BY <1>1 DEF Holds, HolderSound
<1> QED
  BY <1>1, <1>2, <1>3, <1>5, <1>6, <1>7, HolderStep

\* The parts of the invariant about the data of the owner, for one path of a process.
LEMMA DataFacts ==
    ASSUME IInv, NEW p \in Procs, NEW f \in Files
    PROVE  /\ Fresh(dest[f]) /\ Fresh(temp[p][f]) /\ Fresh(orig[p][f]) /\ Fresh(None)
           /\ work[f] # None => ~HasData(orig[p][f], work[f]) /\ ~HasData(Staged(p, f), work[f]) /\ ~HasData(None, work[f])
           /\ work[f] # None /\ pc[p] = "rbAct" /\ k[p] = f => f \in raced
           /\ work[f] # None /\ pc[p] = "rbVerify" /\ k[p] = f => f \in raced \/ ~HasData(temp[p][f], work[f])
<1>1. Fresh(dest[f]) /\ Fresh(temp[p][f]) /\ Fresh(orig[p][f]) /\ WorkKept(f)
  BY DEF IInv, AllFresh, AllKept
<1>2. work[f] # None => ~HasData(Staged(p, f), work[f])
  BY <1>1, StagedTyped DEF WorkKept
<1> QED
  BY <1>1, <1>2 DEF Fresh, HasData, WorkKept

\* publish_one: the staged file and what was at the path change their names.
LEMMA RenameStep ==
    ASSUME IInv, NEW p \in Procs, pc[p] = "rename", NEW f \in Files, f = k[p],
           op[p][f] = "create" => dest[f] = None, op[p][f] # "create" => dest[f] # None,
           UNCHANGED <<marker, synced, syncedMark, moved, owner, applied, k, op, orig, ready, complete, error, outcome>>,
           dest' = [dest EXCEPT ![f] = temp[p][f]], temp' = [temp EXCEPT ![p][f] = dest[f]],
           published' = [published EXCEPT ![p] = published[p] \union {f}], Goto(p, "mode")
    PROVE  IInv'
<1>1. Holds(p)
  BY DEF Holds, Working
<1>2. N \in Nat /\ N > 0 /\ Files = 1 .. N /\ k[p] \in 1 .. N /\ ready[p] = N /\ published[p] = 1 .. f - 1 /\ complete[p]
  BY <1>1, HolderFacts DEF Phase
<1>3. Moved(p, f, temp[p][f], dest[f])
  BY FieldsTyped, SyncedSame DEF Moved
<1>4. Step(p, "mode", f) /\ "mode" \in Labels \ {"rbAct"} /\ f \in 0 .. N + 1
  BY <1>2, Gone DEF Labels, Working
<1>5. pc'[p] = "mode" /\ k'[p] = f
  BY <1>4, Stepped
<1>6. /\ orig' \in [Procs -> [Files -> File \union {None}]] /\ ready' \in [Procs -> 0 .. N]
      /\ published' \in [Procs -> SUBSET Files] /\ complete' \in [Procs -> BOOLEAN]
      /\ published'[p] = 1 .. f /\ \A q \in Procs : q # p => published'[q] = published[q]
  <2>1. published' \in [Procs -> SUBSET Files] /\ published'[p] = published[p] \union {f}
        /\ \A q \in Procs : q # p => published'[q] = published[q]
    BY DEF IInv, TypeOK
  <2>2. published'[p] = 1 .. f
    BY <1>2, <2>1
  <2> QED
    BY <2>1, <2>2 DEF IInv, TypeOK
<1>7. Phase(p)'
  BY <1>2, <1>5, <1>6 DEF Phase, Holds, Working
<1>8. PlanFits(p)'
  BY DEF IInv, Plans, PlanFits
<1>9. ASSUME NEW g \in 1 .. N PROVE Private(p, g)' /\ Intact(p, g)' /\ Durable(p, g)'
  <2>1. g \in Files /\ (g \in published'[p] <=> g <= f) /\ (g \in published[p] <=> g < f) /\ g <= ready[p]
    BY <1>2, <1>6
  <2>2. Private(p, g)'
    BY <1>1, <1>2, <1>3, <1>5, <2>1, MoveFacts DEF Private, Confirmed, BackupGone
  <2>3. Intact(p, g)'
    <3>1. IsStaged(Staged(p, g), p, g)
      BY <2>1, StagedTyped
    <3> QED
      BY <1>1, <1>2, <1>3, <1>5, <2>1, <3>1, MoveFacts DEF Private, Intact, Confirmed, BackupGone, Untouched, Reverting, SettledAt, Prep, IsStaged
  <2>4. Durable(p, g)'
    BY <1>1, <1>2, <1>3, <1>5, <2>1, MoveFacts DEF Durable
  <2> QED
    BY <2>2, <2>3, <2>4
<1>10. /\ orig'[p][f] \in {orig[p][f], dest[f]} /\ Fresh(dest[f]) /\ Fresh(temp[p][f])
       /\ work[f] # None => ~HasData(orig'[p][f], work[f])
  BY DataFacts
<1>11. \A g \in Files : Private(p, g)' /\ Intact(p, g)' /\ Durable(p, g)'
  BY <1>2, <1>9
<1> QED
  BY <1>1, <1>3, <1>4, <1>6, <1>7, <1>8, <1>10, <1>11, MoveGoes

\* set_published_mode: the staged file, at its path, has its final permissions.
LEMMA SetModeStep ==
    ASSUME IInv, NEW p \in Procs, pc[p] = "mode", NEW f \in Files, f = k[p], dest[f] # None,
           UNCHANGED <<temp, marker, synced, syncedMark, moved, owner, applied, k, txn>>,
           dest' = [dest EXCEPT ![f].mode = "final"], Goto(p, "confirm")
    PROVE  IInv'
<1>1. Holds(p)
  BY DEF Holds, Working
<1>2. N \in Nat /\ N > 0 /\ Files = 1 .. N /\ k[p] \in 1 .. N /\ ready[p] = N /\ published[p] = 1 .. f /\ complete[p]
  BY <1>1, HolderFacts DEF Phase
<1>3. PICK X : X = [dest[f] EXCEPT !.mode = "final"]
  OBVIOUS
<1>4. X \in File /\ X # None /\ X.ino = dest[f].ino /\ X.data = dest[f].data
  BY <1>3, FieldsTyped, ConstantsTyped DEF File
<1>5. Moved(p, f, X, temp[p][f])
  <2>1. dest' = [dest EXCEPT ![f] = X]
    BY <1>3
  <2>2. temp' = [temp EXCEPT ![p] = [temp[p] EXCEPT ![f] = temp[p][f]]]
    BY DEF IInv, TypeOK
  <2> QED
    BY <1>4, <2>1, <2>2, FieldsTyped, SyncedSame DEF Moved
<1>6. Step(p, "confirm", f) /\ "confirm" \in Labels \ {"rbAct"} /\ f \in 0 .. N + 1
      /\ UNCHANGED <<op, orig, ready, published, complete, error>>
  BY <1>2, Gone DEF Labels, Working, txn
<1>7. pc'[p] = "confirm" /\ k'[p] = f
  BY <1>6, Stepped
<1>8. /\ orig' \in [Procs -> [Files -> File \union {None}]] /\ ready' \in [Procs -> 0 .. N]
      /\ published' \in [Procs -> SUBSET Files] /\ complete' \in [Procs -> BOOLEAN]
  BY <1>6 DEF IInv, TypeOK
<1>9. Phase(p)' /\ PlanFits(p)'
  <2>1. Phase(p)'
    BY <1>2, <1>6, <1>7 DEF Phase, Holds, Working
  <2> QED
    BY <1>6, <2>1 DEF IInv, Plans, PlanFits
<1>10. ASSUME NEW g \in 1 .. N PROVE Private(p, g)' /\ Intact(p, g)' /\ Durable(p, g)'
  <2>1. g \in Files /\ (g \in published[p] <=> g <= f) /\ g <= ready[p]
    BY <1>2
  <2>2. Private(p, g)'
    BY <1>1, <1>2, <1>5, <1>6, <1>7, <2>1, MoveFacts DEF Private, Confirmed, BackupGone
  <2>3. Intact(p, g)'
    BY <1>1, <1>2, <1>4, <1>5, <1>6, <1>7, <2>1, MoveFacts DEF Intact, Confirmed, BackupGone, Untouched, Reverting, SettledAt, IsStaged
  <2>4. Durable(p, g)'
    BY <1>1, <1>2, <1>5, <1>6, <1>7, <2>1, MoveFacts DEF Durable
  <2> QED
    BY <2>2, <2>3, <2>4
<1>11. /\ Fresh(X) /\ Fresh(temp[p][f]) /\ (HasData(dest[f], work[f]) => HasData(X, work[f]))
       /\ work[f] # None => ~HasData(orig'[p][f], work[f])
  <2>1. Fresh(dest[f]) /\ Fresh(temp[p][f]) /\ (work[f] # None => ~HasData(orig[p][f], work[f]))
    BY DataFacts
  <2>2. Fresh(X) /\ (HasData(dest[f], work[f]) => HasData(X, work[f]))
    BY <1>4, <2>1 DEF Fresh, HasData
  <2> QED
    BY <1>6, <2>1, <2>2
<1>12. \A g \in Files : Private(p, g)' /\ Intact(p, g)' /\ Durable(p, g)'
  BY <1>2, <1>10
<1> QED
  BY <1>1, <1>5, <1>6, <1>8, <1>9, <1>11, <1>12, MoveGoes

\* remove_backup: the original of a confirmed change goes.
LEMMA RemoveBackupStep ==
    ASSUME IInv, NEW p \in Procs, pc[p] = "backups", NEW f \in Files, f = k[p],
           UNCHANGED <<dest, marker, synced, syncedMark, moved, owner, applied, txn>>,
           temp' = [temp EXCEPT ![p][f] = None], Step(p, "backups", f + 1)
    PROVE  IInv'
<1>1. Holds(p)
  BY DEF Holds, Working
<1>2. N \in Nat /\ N > 0 /\ Files = 1 .. N /\ k[p] \in 1 .. N /\ ready[p] = N /\ published[p] = 1 .. N
  BY <1>1, HolderFacts DEF Phase
<1>3. Moved(p, f, dest[f], None)
  <2>1. dest' = [dest EXCEPT ![f] = dest[f]]
    BY DEF IInv, TypeOK
  <2> QED
    BY <2>1, FieldsTyped, SyncedSame DEF Moved
<1>4. "backups" \in Labels \ {"rbAct"} /\ f + 1 \in 0 .. N + 1 /\ UNCHANGED <<op, orig, ready, published, complete, error>>
  BY <1>2 DEF Labels, Working, txn
<1>5. pc'[p] = "backups" /\ k'[p] = f + 1
  BY <1>4, Stepped
<1>6. /\ orig' \in [Procs -> [Files -> File \union {None}]] /\ ready' \in [Procs -> 0 .. N]
      /\ published' \in [Procs -> SUBSET Files] /\ complete' \in [Procs -> BOOLEAN]
  BY <1>4 DEF IInv, TypeOK
<1>7. Phase(p)' /\ PlanFits(p)'
  <2>1. Phase(p)'
    BY <1>2, <1>4, <1>5 DEF Phase, Holds, Working
  <2> QED
    BY <1>4, <2>1 DEF IInv, Plans, PlanFits
<1>8. ASSUME NEW g \in 1 .. N PROVE Private(p, g)' /\ Intact(p, g)' /\ Durable(p, g)'
  <2>1. g \in Files /\ g \in published[p] /\ g <= ready[p] /\ (g < f + 1 <=> g < f \/ g = f)
    BY <1>2
  <2>2. Private(p, g)'
    BY <1>1, <1>2, <1>3, <1>4, <1>5, <2>1, MoveFacts DEF Private, Confirmed, BackupGone
  <2>3. Intact(p, g)'
    BY <1>1, <1>2, <1>3, <1>4, <1>5, <2>1, MoveFacts DEF Intact, Confirmed, BackupGone, Untouched, Reverting, SettledAt, IsStaged
  <2>4. Durable(p, g)'
    BY <1>1, <1>2, <1>3, <1>4, <1>5, <2>1, MoveFacts DEF Durable
  <2> QED
    BY <2>2, <2>3, <2>4
<1>9. temp[p][f] = orig[p][f]
  <2>1. Private(p, f)
    BY <1>1 DEF IInv, HolderSound
  <2> QED
    BY <1>2, <2>1 DEF Private, Confirmed, BackupGone
<1>10. /\ Fresh(dest[f]) /\ Fresh(None) /\ (work[f] # None => ~HasData(temp[p][f], work[f]))
       /\ work[f] # None => ~HasData(orig'[p][f], work[f])
  BY <1>4, <1>9, DataFacts
<1>11. \A g \in Files : Private(p, g)' /\ Intact(p, g)' /\ Durable(p, g)'
  BY <1>2, <1>8
<1> QED
  BY <1>1, <1>3, <1>4, <1>6, <1>7, <1>10, <1>11, MoveGoes

\* The system call of rollback_one: the original is at the path again.
LEMMA RevertedStep ==
    ASSUME IInv, NEW p \in Procs, pc[p] = "rbAct", NEW f \in Files, f = k[p],
           op[p][f] = "retire" => dest[f] = None,
           UNCHANGED <<marker, synced, syncedMark, moved, owner, applied, k, txn>>,
           dest' = [dest EXCEPT ![f] = temp[p][f]],
           temp' = IF op[p][f] = "create" THEN temp ELSE [temp EXCEPT ![p][f] = dest[f]], Goto(p, "rbVerify")
    PROVE  IInv'
<1>1. Holds(p)
  BY DEF Holds, Working
<1>2. N \in Nat /\ N > 0 /\ Files = 1 .. N /\ f \in 1 .. N /\ ready[p] = N /\ f \in published[p] /\ published[p] \subseteq 1 .. N
      /\ (complete[p] => \A g \in published[p] : g <= f)
  BY <1>1, HolderFacts DEF Phase
<1>3. PICK Y : Y = IF op[p][f] = "create" THEN None ELSE dest[f]
  OBVIOUS
<1>4. Private(p, f) /\ Intact(p, f) /\ PlanFits(p)
  BY <1>1 DEF IInv, HolderSound, Plans
<1>5. (op[p][f] = "create" => temp[p][f] = None /\ orig[p][f] = None) /\ (op[p][f] = "retire" => Y = None)
  BY <1>2, <1>3, <1>4 DEF Private, PlanFits
<1>6. Moved(p, f, temp[p][f], Y)
  <2>1. temp' = [temp EXCEPT ![p] = [temp[p] EXCEPT ![f] = Y]]
    BY <1>3, <1>5 DEF IInv, TypeOK
  <2> QED
    BY <1>3, <2>1, FieldsTyped, SyncedSame DEF Moved
<1>7. Step(p, "rbVerify", f) /\ "rbVerify" \in Labels \ {"rbAct"} /\ f \in 0 .. N + 1
      /\ UNCHANGED <<op, orig, ready, published, complete, error>>
  BY <1>2, Gone DEF Labels, Working, txn
<1>8. pc'[p] = "rbVerify" /\ k'[p] = f
  BY <1>7, Stepped
<1>9. /\ orig' \in [Procs -> [Files -> File \union {None}]] /\ ready' \in [Procs -> 0 .. N]
      /\ published' \in [Procs -> SUBSET Files] /\ complete' \in [Procs -> BOOLEAN]
  BY <1>7 DEF IInv, TypeOK
<1>10. Phase(p)' /\ PlanFits(p)'
  <2>1. Phase(p)'
    BY <1>2, <1>7, <1>8 DEF Phase, Holds, Working
  <2> QED
    BY <1>7, <2>1 DEF IInv, Plans, PlanFits
<1>11. ASSUME NEW g \in 1 .. N PROVE Private(p, g)' /\ Intact(p, g)' /\ Durable(p, g)'
  <2>1. g \in Files /\ g <= ready[p] /\ (f <= g <=> f < g \/ g = f)
    BY <1>2
  <2>2. Private(p, g)'
    BY <1>1, <1>2, <1>3, <1>5, <1>6, <1>7, <1>8, <2>1, MoveFacts DEF Private, Confirmed, BackupGone
  <2>3. Intact(p, g)'
    BY <1>1, <1>2, <1>5, <1>6, <1>7, <1>8, <2>1, MoveFacts DEF Intact, Confirmed, BackupGone, Untouched, Reverting, SettledAt, IsStaged
  <2>4. Durable(p, g)'
    BY <1>1, <1>2, <1>6, <1>7, <1>8, <2>1, MoveFacts DEF Durable
  <2> QED
    BY <2>2, <2>3, <2>4
<1>12. /\ Fresh(temp[p][f]) /\ Fresh(Y) /\ (work[f] # None => f \in raced)
       /\ work[f] # None => ~HasData(orig'[p][f], work[f])
  BY <1>3, <1>7, DataFacts
<1>13. \A g \in Files : Private(p, g)' /\ Intact(p, g)' /\ Durable(p, g)'
  BY <1>2, <1>11
<1> QED
  BY <1>1, <1>6, <1>7, <1>9, <1>10, <1>12, <1>13, MoveGoes

\* The rest of rollback_one: the change is forgotten; whether its parent is durable is asked later.
Forgets(p, f) ==
    /\ temp' = IF op[p][f] = "edit" THEN Unlinked(p, f) ELSE temp
    /\ published' = [published EXCEPT ![p] = published[p] \ {f}]
    /\ complete' \in {complete, [complete EXCEPT ![p] = FALSE]}
    /\ synced' \in {synced, [synced EXCEPT ![f] = [dest |-> dest[f], temp |-> [q \in Procs |-> temp'[q][f]]]]}

LEMMA ForgetStep ==
    ASSUME IInv, NEW p \in Procs, pc[p] = "rbVerify", NEW f \in Files, f = k[p],
           op[p][f] # "create" => dest[f] = orig[p][f],
           UNCHANGED <<dest, marker, syncedMark, moved, owner, applied, op, orig, ready, error>>,
           Forgets(p, f), Step(p, "rbCheck", f - 1)
    PROVE  IInv'
<1>1. Holds(p)
  BY DEF Holds, Working
<1>2. N \in Nat /\ N > 0 /\ Files = 1 .. N /\ f \in 1 .. N /\ ready[p] = N /\ f \in published[p] /\ published[p] \subseteq 1 .. N
      /\ (complete[p] => \A g \in published[p] : g <= f)
  BY <1>1, HolderFacts DEF Phase
<1>3. PICK Y : Y = IF op[p][f] = "edit" THEN None ELSE temp[p][f]
  OBVIOUS
<1>4. Private(p, f) /\ PlanFits(p) /\ op[p][f] \in {"create", "edit", "retire"}
  BY <1>1, FieldsTyped DEF IInv, HolderSound, Plans
<1>5. Y = None
  BY <1>2, <1>3, <1>4 DEF Private
<1>6. Moved(p, f, dest[f], Y)
  <2>a. dest \in [Files -> File \union {None}] /\ temp \in [Procs -> [Files -> File \union {None}]]
    BY DEF IInv, TypeOK
  <2>b. dest' = [dest EXCEPT ![f] = dest[f]]
    BY <2>a
  <2>c. temp = [temp EXCEPT ![p] = [temp[p] EXCEPT ![f] = temp[p][f]]]
    BY <2>a
  <2>1. temp' = [temp EXCEPT ![p] = [temp[p] EXCEPT ![f] = Y]]
    BY <1>3, <2>c DEF Forgets, Unlinked
  <2>2. dest' \in [Files -> File \union {None}] /\ temp' \in [Procs -> [Files -> File \union {None}]]
    BY <1>5, <2>a, <2>1
  <2>3. PICK r : r = [dest |-> dest[f], temp |-> [q \in Procs |-> temp'[q][f]]]
    OBVIOUS
  <2>4. r \in [dest : File \union {None}, temp : [Procs -> File \union {None}]]
        /\ r.dest = dest'[f] /\ \A q \in Procs : r.temp[q] = temp'[q][f]
    BY <2>2, <2>3
  <2>5. synced \in SyncedTypes /\ synced' \in {synced, [synced EXCEPT ![f] = r]}
    BY <2>3 DEF Forgets, IInv, TypeOK, SyncedTypes
  <2>6. synced' \in SyncedTypes /\ \A g \in Files : synced'[g] = synced[g] \/ (g = f /\ synced'[g] = r)
    BY <2>4, <2>5 DEF SyncedTypes
  <2>7. \A g \in Files : \/ synced'[g] = synced[g]
                         \/ synced'[g].dest = dest'[g] /\ \A q \in Procs : synced'[g].temp[q] = temp'[q][g]
    BY <2>4, <2>6
  <2>8. dest[f] \in File \union {None} /\ Y \in File \union {None}
    BY <1>5, <2>a
  <2> QED
    BY <2>b, <2>1, <2>6, <2>7, <2>8 DEF Moved
<1>7. "rbCheck" \in Labels \ {"rbAct"} /\ f - 1 \in 0 .. N + 1
  BY <1>2 DEF Labels, Working
<1>8. pc'[p] = "rbCheck" /\ k'[p] = f - 1
  BY <1>7, Stepped
<1>9. /\ orig' \in [Procs -> [Files -> File \union {None}]] /\ ready' \in [Procs -> 0 .. N]
      /\ published' \in [Procs -> SUBSET Files] /\ complete' \in [Procs -> BOOLEAN]
      /\ published'[p] = published[p] \ {f} /\ (complete'[p] => complete[p])
      /\ \A q \in Procs : q # p => published'[q] = published[q] /\ complete'[q] = complete[q]
  BY DEF Forgets, IInv, TypeOK
<1>10. Phase(p)' /\ PlanFits(p)'
  <2>1. Phase(p)'
    BY <1>2, <1>8, <1>9 DEF Phase, Holds, Working
  <2> QED
    BY <1>4, <2>1 DEF PlanFits
<1>11. ASSUME NEW g \in 1 .. N PROVE Private(p, g)' /\ Intact(p, g)' /\ Durable(p, g)'
  <2>1. g \in Files /\ g <= ready[p] /\ (g \in published'[p] <=> g \in published[p] /\ g # f)
        /\ (f - 1 < g <=> f <= g) /\ (g # f => (f <= g <=> f < g))
    BY <1>2, <1>9
  <2>2. Private(p, g)'
    BY <1>1, <1>2, <1>5, <1>6, <1>8, <2>1, MoveFacts DEF Private, Confirmed, BackupGone
  <2>3. Intact(p, g)'
    BY <1>1, <1>2, <1>5, <1>6, <1>8, <2>1, MoveFacts DEF Intact, Confirmed, BackupGone, Untouched, Reverting, SettledAt, IsStaged
  <2>4. Durable(p, g)'
    BY <1>1, <1>2, <1>6, <1>8, <2>1, MoveFacts DEF Durable
  <2> QED
    BY <2>2, <2>3, <2>4
<1>12. /\ Fresh(dest[f]) /\ Fresh(Y) /\ (work[f] # None => f \in raced \/ ~HasData(temp[p][f], work[f]))
       /\ work[f] # None => ~HasData(orig'[p][f], work[f])
  BY <1>5, DataFacts
<1>13. \A g \in Files : Private(p, g)' /\ Intact(p, g)' /\ Durable(p, g)'
  BY <1>2, <1>11
<1>14. /\ \A q \in Procs : q # p => /\ orig'[q] = orig[q] /\ ready'[q] = ready[q]
                                    /\ published'[q] = published[q] /\ complete'[q] = complete[q]
       /\ \A g \in Files : g # f => orig'[p][g] = orig[p][g]
       /\ orig'[p][f] \in {orig[p][f], dest[f]}
       /\ work[f] # None /\ f \notin raced /\ (HasData(dest[f], work[f]) \/ HasData(temp[p][f], work[f]))
          => HasData(dest[f], work[f]) \/ HasData(Y, work[f])
  BY <1>9, <1>12
<1>15. UNCHANGED <<marker, syncedMark, moved, owner, applied, op>>
  OBVIOUS
<1> QED
  BY <1>1, <1>6, <1>7, <1>9, <1>10, <1>12, <1>13, <1>14, <1>15, MoveGoes

\* remove_temp_if_present: a staged file that was never published goes.
LEMMA CleanTempStep ==
    ASSUME IInv, NEW p \in Procs, pc[p] \in {"rbClean", "discard"}, NEW f \in Files, f = k[p], f <= ready[p],
           UNCHANGED <<dest, marker, synced, syncedMark, moved, owner, applied, pc, op, orig, ready, published, complete, error>>,
           temp' = [temp EXCEPT ![p][f] = None], k' = [k EXCEPT ![p] = f + 1]
    PROVE  IInv'
<1>1. Holds(p)
  BY DEF Holds, Working
<1>2. N \in Nat /\ N > 0 /\ Files = 1 .. N /\ k[p] \in 1 .. N /\ ready[p] \in 0 .. N /\ published[p] = {}
      /\ (pc[p] = "rbClean" => ready[p] = N)
  BY <1>1, HolderFacts DEF Phase
<1>3. Moved(p, f, dest[f], None)
  <2>1. dest' = [dest EXCEPT ![f] = dest[f]]
    BY DEF IInv, TypeOK
  <2> QED
    BY <2>1, FieldsTyped, SyncedSame DEF Moved
<1>a. PICK label : label = pc[p]
  OBVIOUS
<1>4. label \in Labels \ {"rbAct", "rbVerify"} /\ f + 1 \in 0 .. N + 1 /\ Step(p, label, f + 1)
  <2>1. pc' = [pc EXCEPT ![p] = label]
    BY <1>a DEF IInv, Plans
  <2>2. Step(p, label, f + 1)
    BY <2>1 DEF Step, Goto
  <2>3. label \in Labels \ {"rbAct", "rbVerify"}
    BY <1>a DEF Labels, Working
  <2> QED
    BY <1>2, <2>2, <2>3
<1>5. pc'[p] = pc[p] /\ k'[p] = f + 1
  BY <1>a, <1>4, Stepped
<1>6. /\ orig' \in [Procs -> [Files -> File \union {None}]] /\ ready' \in [Procs -> 0 .. N]
      /\ published' \in [Procs -> SUBSET Files] /\ complete' \in [Procs -> BOOLEAN]
  BY DEF IInv, TypeOK
<1>7. Phase(p)' /\ PlanFits(p)'
  <2>1. Phase(p)'
    BY <1>2, <1>5 DEF Phase, Holds, Working
  <2> QED
    BY <2>1 DEF IInv, Plans, PlanFits
<1>8. ASSUME NEW g \in 1 .. N PROVE Private(p, g)' /\ Intact(p, g)' /\ Durable(p, g)'
  <2>1. g \in Files /\ (g < f + 1 <=> g < f \/ g = f)
    BY <1>2
  <2>2. Private(p, g)'
    BY <1>1, <1>2, <1>3, <1>5, <2>1, MoveFacts DEF Private, Confirmed, BackupGone
  <2>3. Intact(p, g)'
    BY <1>1, <1>2, <1>3, <1>5, <2>1, MoveFacts DEF Intact, Confirmed, BackupGone, Untouched, Reverting, SettledAt, IsStaged
  <2>4. Durable(p, g)'
    BY <1>1, <1>2, <1>3, <1>5, <2>1, MoveFacts DEF Durable
  <2> QED
    BY <2>2, <2>3, <2>4
<1>9. /\ Fresh(dest[f]) /\ Fresh(None) /\ (work[f] # None => ~HasData(temp[p][f], work[f]))
      /\ work[f] # None => ~HasData(orig'[p][f], work[f])
  <2>1. Private(p, f)
    BY <1>1 DEF IInv, HolderSound
  <2>2. temp[p][f] \in {None, Staged(p, f)}
    BY <1>2, <2>1 DEF Private
  <2> QED
    BY <2>2, DataFacts
<1>10. \A g \in Files : Private(p, g)' /\ Intact(p, g)' /\ Durable(p, g)'
  BY <1>2, <1>8
<1>11. UNCHANGED <<marker, syncedMark, moved, owner, applied, op, orig, ready, published, complete>>
  OBVIOUS
<1> QED
  BY <1>1, <1>3, <1>4, <1>6, <1>7, <1>9, <1>10, <1>11, MoveGoes

\* prepare_changes: what is there is observed, and the change is staged.
Stages(p, f) == temp' = IF op[p][f] # "retire" THEN [temp EXCEPT ![p][f] = Staged(p, f)] ELSE temp
LEMMA PrepareStep ==
    ASSUME IInv, NEW p \in Procs, pc[p] = "prepare", NEW f \in Files, f = k[p], StillAsPlanned(p, f),
           UNCHANGED <<dest, marker, synced, syncedMark, moved, owner, applied, op, published, complete, error>>,
           orig' = [orig EXCEPT ![p][f] = dest[f]],
           Stages(p, f), ready' = [ready EXCEPT ![p] = f], Step(p, "prepare", f + 1)
    PROVE  IInv'
<1>1. Holds(p)
  BY DEF Holds, Working
<1>2. N \in Nat /\ N > 0 /\ Files = 1 .. N /\ k[p] \in 1 .. N /\ ready[p] \in 0 .. N /\ ready[p] = f - 1 /\ published[p] = {} /\ complete[p]
  BY <1>1, HolderFacts DEF Phase
<1>3. PICK Y : Y = Prep(p, f)
  OBVIOUS
<1>4. Private(p, f) /\ Intact(p, f) /\ PlanFits(p)
  BY <1>1 DEF IInv, HolderSound, Plans
<1>5. temp[p][f] = None /\ SettledAt(f)
  BY <1>2, <1>4 DEF Private, Intact
<1>6. Moved(p, f, dest[f], Y)
  <2>1. dest \in [Files -> File \union {None}] /\ temp \in [Procs -> [Files -> File \union {None}]]
    BY DEF IInv, TypeOK
  <2>2. dest' = [dest EXCEPT ![f] = dest[f]]
    BY <2>1
  <2>3. temp = [temp EXCEPT ![p] = [temp[p] EXCEPT ![f] = temp[p][f]]]
    BY <2>1
  <2>4. temp' = [temp EXCEPT ![p] = [temp[p] EXCEPT ![f] = Y]]
    BY <1>3, <1>5, <2>3 DEF Prep, Stages
  <2>5. Y \in File \union {None}
    BY <1>3, StagedTyped DEF Prep
  <2> QED
    BY <2>2, <2>4, <2>5, FieldsTyped, SyncedSame DEF Moved
<1>7. "prepare" \in Labels \ {"rbAct"} /\ f + 1 \in 0 .. N + 1
  BY <1>2 DEF Labels, Working
<1>8. pc'[p] = "prepare" /\ k'[p] = f + 1
  BY <1>7, Stepped
<1>9. /\ orig' \in [Procs -> [Files -> File \union {None}]] /\ ready' \in [Procs -> 0 .. N]
      /\ published' \in [Procs -> SUBSET Files] /\ complete' \in [Procs -> BOOLEAN]
      /\ orig'[p][f] = dest[f] /\ ready'[p] = f
      /\ \A q \in Procs : q # p => orig'[q] = orig[q] /\ ready'[q] = ready[q]
      /\ \A g \in Files : g # f => orig'[p][g] = orig[p][g]
  BY <1>2 DEF IInv, TypeOK
<1>10. Phase(p)'
  BY <1>2, <1>8, <1>9 DEF Phase, Holds, Working
<1>11. PlanFits(p)'
  <2>1. op[p][f] = "create" <=> dest[f] = None
    BY DEF StillAsPlanned
  <2> QED
    BY <1>4, <1>9, <2>1 DEF PlanFits
<1>12. ASSUME NEW g \in 1 .. N PROVE Private(p, g)' /\ Intact(p, g)' /\ Durable(p, g)'
  <2>1. g \in Files /\ (g <= f <=> g <= ready[p] \/ g = f) /\ ~(f <= ready[p]) /\ (g > f => g > ready[p])
    BY <1>2
  <2>a. ~Confirmed(p, g)' /\ published'[p] = {} /\ g \notin published[p]
    BY <1>2, <1>8 DEF Confirmed
  <2>b. /\ g = f => dest'[g] = dest[f] /\ temp'[p][g] = Y
        /\ g # f => dest'[g] = dest[g] /\ temp'[p][g] = temp[p][g]
        /\ Prep(p, g)' = Prep(p, g) /\ Staged(p, g)' = Staged(p, g)
        /\ \A q \in Procs : q # p => temp'[q][g] = None /\ synced'[g].temp[q] = None
        /\ (Untouched(p, g)' <=> Untouched(p, g)) /\ Private(p, g) /\ Intact(p, g)
    BY <1>1, <1>6, <2>1, MoveFacts DEF Untouched
  <2>2. Private(p, g)'
    <3>1. temp'[p][g] \in {None, Staged(p, g)} /\ (g > f => temp'[p][g] = None) /\ (g <= f => temp'[p][g] = Prep(p, g))
      BY <1>2, <1>3, <2>1, <2>a, <2>b DEF Private, Prep
    <3> QED
      BY <1>2, <1>8, <1>9, <2>a, <2>b, <3>1 DEF Private
  <2>3. Intact(p, g)'
    <3>1. ~Confirmed(p, g)' /\ published'[p] = {}
      BY <2>a
    <3>2. (g > ready[p] => SettledAt(g))'
      BY <1>1, <1>2, <1>6, <1>9, <2>1, MoveFacts DEF Intact, SettledAt
    <3>3. (g <= ready[p] /\ g \notin touched[applied] => orig[p][g] = Settled(g))'
      BY <1>1, <1>2, <1>5, <1>6, <1>9, <2>1, MoveFacts DEF Intact, SettledAt
    <3>4. (Untouched(p, g) /\ g <= ready[p] => dest[g] = orig[p][g])'
      BY <1>9, <2>1, <2>a, <2>b DEF Intact
    <3> QED
      BY <3>1, <3>2, <3>3, <3>4 DEF Intact
  <2>4. Durable(p, g)'
    BY <1>1, <1>2, <1>6, <1>8, <1>9, <2>1, MoveFacts DEF Durable
  <2> QED
    BY <2>2, <2>3, <2>4
<1>13. /\ Fresh(dest[f]) /\ Fresh(Y) /\ (work[f] # None => ~HasData(temp[p][f], work[f]))
       /\ work[f] # None => ~HasData(orig'[p][f], work[f])
  <2>1. Fresh(dest[f]) /\ Fresh(None) /\ (work[f] # None => ~HasData(orig[p][f], work[f]) /\ ~HasData(None, work[f]))
    BY DataFacts
  <2>2. Fresh(Y)
    BY <1>3, <2>1, StagedTyped DEF Prep
  <2>3. work[f] # None => ~HasData(dest[f], work[f])
    BY <1>4, <2>1 DEF StillAsPlanned, PlanFits, HasData
  <2> QED
    BY <1>5, <1>9, <2>1, <2>2, <2>3
<1>14. \A g \in Files : Private(p, g)' /\ Intact(p, g)' /\ Durable(p, g)'
  BY <1>2, <1>12
<1>15. UNCHANGED <<marker, syncedMark, moved, owner, applied, op, published, complete>>
  OBVIOUS
<1> QED
  BY <1>1, <1>6, <1>7, <1>9, <1>10, <1>11, <1>13, <1>14, <1>15, MoveGoes

\* What a rollback will report and what publish returns.
Reports ==
    {None, "Ok", "UnsafeRoot", "UnsupportedPlatform", "PreconditionFailed", "PublicationFailed", "RecoveryRequired", "RollbackIncomplete"}
ReportsTyped == error \in [Procs -> Reports] /\ outcome \in [Procs -> Reports]

\* A staging that fails and cannot remove its own file: it stays, and so does the marker.
LEMMA LeftoverStep ==
    ASSUME IInv, ReportsTyped, NEW p \in Procs, pc[p] = "prepare", NEW f \in Files, f = k[p],
           UNCHANGED <<dest, marker, synced, syncedMark, moved, owner, applied>>, Abandon(p, "RecoveryRequired"),
           temp' = [temp EXCEPT ![p][f] = Staged(p, f)]
    PROVE  IInv'
<1>1. Holds(p)
  BY DEF Holds, Working
<1>2. N \in Nat /\ N > 0 /\ Files = 1 .. N /\ k[p] \in 1 .. N /\ ready[p] \in 0 .. N /\ ready[p] = f - 1 /\ published[p] = {} /\ complete[p]
  BY <1>1, HolderFacts DEF Phase
<1>3. PICK Y : Y = Staged(p, f)
  OBVIOUS
<1>4. Moved(p, f, dest[f], Y)
  <2>1. dest' = [dest EXCEPT ![f] = dest[f]] /\ temp' = [temp EXCEPT ![p] = [temp[p] EXCEPT ![f] = Y]]
    BY <1>3 DEF IInv, TypeOK
  <2> QED
    BY <1>3, <2>1, StagedTyped, FieldsTyped, SyncedSame DEF Moved
<1>5. Step(p, "discard", 1) /\ "discard" \in Labels \ {"rbAct"} /\ 1 \in 0 .. N + 1
      /\ UNCHANGED <<orig, ready, published, complete, op>> /\ error'[p] = "RecoveryRequired"
  BY <1>2 DEF Abandon, Labels, Working, ReportsTyped
<1>6. pc'[p] = "discard" /\ k'[p] = 1
  BY <1>5, Stepped
<1>7. /\ orig' \in [Procs -> [Files -> File \union {None}]] /\ ready' \in [Procs -> 0 .. N]
      /\ published' \in [Procs -> SUBSET Files] /\ complete' \in [Procs -> BOOLEAN]
  BY <1>5 DEF IInv, TypeOK
<1>8. Phase(p)' /\ PlanFits(p)'
  <2>1. Phase(p)'
    BY <1>2, <1>5, <1>6 DEF Phase, Holds, Working
  <2> QED
    BY <1>5, <2>1 DEF IInv, Plans, PlanFits
<1>9. ASSUME NEW g \in 1 .. N PROVE Private(p, g)' /\ Intact(p, g)' /\ Durable(p, g)'
  <2>1. g \in Files /\ g \notin published'[p] /\ ~(g < 1) /\ ~Confirmed(p, g)'
    BY <1>2, <1>5, <1>6 DEF Confirmed
  <2>2. Private(p, g)'
    BY <1>1, <1>2, <1>3, <1>4, <1>5, <1>6, <2>1, MoveFacts DEF Private
  <2>3. Intact(p, g)'
    BY <1>1, <1>2, <1>4, <1>5, <1>6, <2>1, MoveFacts DEF Intact, Untouched, SettledAt
  <2>4. Durable(p, g)'
    BY <1>1, <1>2, <1>4, <1>5, <1>6, <2>1, MoveFacts DEF Durable
  <2> QED
    BY <2>2, <2>3, <2>4
<1>10. /\ Fresh(dest[f]) /\ Fresh(Y) /\ (work[f] # None => ~HasData(temp[p][f], work[f]))
       /\ work[f] # None => ~HasData(orig'[p][f], work[f])
  <2>1. temp[p][f] \in {None, Staged(p, f)}
    BY <1>1, <1>2 DEF IInv, HolderSound, Private
  <2> QED
    BY <1>3, <1>5, <2>1, DataFacts, StagedTyped
<1>11. \A g \in Files : Private(p, g)' /\ Intact(p, g)' /\ Durable(p, g)'
  BY <1>2, <1>9
<1> QED
  BY <1>1, <1>4, <1>5, <1>7, <1>8, <1>10, <1>11, MoveGoes

(***************************************************************************)
(* The steps of the publisher that has the marker                          *)
(***************************************************************************)
LEMMA ReturnStep ==
    ASSUME IInv, NEW p \in Procs, Holds(p), UNCHANGED <<fs, owner, applied>>, NEW result, Return(p, result)
    PROVE  IInv'
<1>1. Goto(p, "done") /\ UNCHANGED <<op, orig, ready, published, complete, k>>
  BY DEF Return
<1> QED
  BY <1>1, LeaveStep

LEMMA StagingKeeps == ASSUME IInv, ReportsTyped, NEW p \in Procs, Prepare(p) \/ Prepared(p) PROVE IInv'
<1>1. Holds(p) /\ pc[p] = "prepare" /\ N \in Nat /\ Files = 1 .. N /\ published[p] = {} /\ complete[p]
  <2>1. Holds(p) /\ pc[p] = "prepare"
    BY DEF Prepare, Prepared, Holds, Working
  <2> QED
    BY <2>1, HolderFacts DEF Phase
<1>2. CASE UNCHANGED <<fs, owner, applied>> /\ \E kind : Abandon(p, kind)
  <2>1. Step(p, "discard", 1) /\ UNCHANGED <<op, orig, ready, published, complete>> /\ Moves(p, "discard", 1)
    BY <1>1, <1>2 DEF Abandon, Moves
  <2>2. StillFiles /\ UNCHANGED <<marker, syncedMark, moved, owner, applied>>
    BY <1>2, SameStill DEF fs
  <2> QED
    BY <1>1, <2>1, <2>2, QuietMove
<1>3. CASE Prepare(p)
  <2>1. PICK f : f = k[p]
    OBVIOUS
  <2>2. f \in Files /\ UNCHANGED <<dest, marker, synced, syncedMark, moved, owner, applied>>
    BY <1>3, <2>1 DEF Prepare
  <2>3. CASE Abandon(p, "RecoveryRequired") /\ temp' = [temp EXCEPT ![p][f] = Staged(p, f)]
    BY <1>1, <2>1, <2>2, <2>3, LeftoverStep
  <2>4. CASE /\ StillAsPlanned(p, f) /\ orig' = [orig EXCEPT ![p][f] = dest[f]]
             /\ temp' = IF op[p][f] # "retire" THEN [temp EXCEPT ![p][f] = Staged(p, f)] ELSE temp
             /\ ready' = [ready EXCEPT ![p] = f] /\ Step(p, "prepare", f + 1) /\ UNCHANGED <<op, published, complete, error>>
    BY <1>1, <2>1, <2>2, <2>4, PrepareStep DEF Stages
  <2>5. UNCHANGED temp /\ (\E kind : Abandon(p, kind)) => UNCHANGED <<fs, owner, applied>>
    BY <2>2 DEF fs
  <2> QED
    BY <1>2, <1>3, <2>1, <2>3, <2>4, <2>5 DEF Prepare
<1>4. CASE Prepared(p)
  <2>1. UNCHANGED <<dest, temp, marker, syncedMark, moved, owner, applied>> /\ k[p] = N + 1
    BY <1>4 DEF Prepared
  <2>2. CASE Abandon(p, "PublicationFailed") /\ UNCHANGED synced
    BY <1>2, <2>1, <2>2 DEF fs
  <2>3. CASE Sync(Files) /\ Step(p, "preflight", 1) /\ UNCHANGED txn
    <3>1. StillFiles
      BY <2>1, <2>3, SyncStill
    <3>2. Moves(p, "preflight", 1) /\ UNCHANGED <<op, orig, ready, published, complete, error>>
      BY <1>1, <2>1, <2>3 DEF Moves, txn
    <3> QED
      BY <1>1, <2>1, <2>3, <3>1, <3>2, QuietMove
  <2> QED
    BY <1>4, <2>2, <2>3 DEF Prepared
<1> QED
  BY <1>3, <1>4

\* A move that only changes the place in the code.
LEMMA PlaceStep ==
    ASSUME IInv, NEW p \in Procs, Holds(p), UNCHANGED <<fs, owner, applied, txn>>, NEW label, NEW n,
           Moves(p, label, n), Step(p, label, n)
    PROVE  IInv'
<1>1. StillFiles /\ UNCHANGED <<marker, syncedMark, moved, op, orig, ready, published, complete, error>>
  BY SameStill DEF fs, txn
<1> QED
  BY <1>1, QuietMove

\* The reads before and after the changes.
LEMMA ChecksKeep ==
    ASSUME IInv, NEW p \in Procs, Preflight(p) \/ VerifyAll(p) \/ Check(p) \/ Confirm(p) PROVE IInv'
<1>1. /\ UNCHANGED <<fs, owner, applied>> /\ Holds(p) /\ pc[p] \in {"preflight", "verify", "check", "confirm"}
      /\ N \in Nat /\ Files = 1 .. N
  BY ConstantsTyped DEF Preflight, VerifyAll, Check, Confirm, Holds, Working
<1>2. CASE \E kind : Fail(p, kind)
  <2>1. StillFiles /\ UNCHANGED <<marker, syncedMark, moved>>
    BY <1>1, SameStill DEF fs
  <2> QED
    BY <1>1, <1>2, <2>1, FailStep
<1>3. CASE pc[p] = "preflight" /\ Step(p, "verify", 1) /\ UNCHANGED txn
  <2>1. Moves(p, "verify", 1)
    BY <1>3 DEF Moves
  <2> QED
    BY <1>1, <1>3, <2>1, PlaceStep
<1>4. CASE pc[p] = "verify" /\ Step(p, "check", 1) /\ UNCHANGED txn
  <2>1. Moves(p, "check", 1)
    BY <1>4 DEF Moves
  <2> QED
    BY <1>1, <1>4, <2>1, PlaceStep
<1>5. CASE pc[p] = "check" /\ Goto(p, "rename") /\ UNCHANGED <<k, txn>>
  <2>1. Moves(p, "rename", k[p]) /\ Step(p, "rename", k[p])
    BY <1>5, Gone DEF Moves
  <2> QED
    BY <1>1, <1>5, <2>1, PlaceStep
<1>6. CASE pc[p] = "confirm" /\ dest[k[p]] = Result(p, k[p]) /\ temp[p][k[p]] = orig[p][k[p]] /\ Goto(p, "settle") /\ UNCHANGED <<k, txn>>
  BY <1>1, <1>6, ConfirmStep
<1>7. CASE Preflight(p)
  BY <1>2, <1>3, <1>7 DEF Preflight
<1>8. CASE VerifyAll(p)
  BY <1>2, <1>4, <1>8 DEF VerifyAll
<1>9. CASE Check(p)
  BY <1>2, <1>5, <1>9 DEF Check
<1>10. CASE Confirm(p)
  BY <1>2, <1>6, <1>10 DEF Confirm
<1> QED
  BY <1>7, <1>8, <1>9, <1>10

\* The renames, the permissions and the fsync of a change.
LEMMA ChangesKeep == ASSUME IInv, NEW p \in Procs, Rename(p) \/ SetMode(p) \/ Settle(p) PROVE IInv'
<1>1. /\ Holds(p) /\ pc[p] \in {"rename", "mode", "settle"} /\ UNCHANGED <<marker, syncedMark, moved, owner, applied>>
      /\ N \in Nat /\ Files = 1 .. N /\ k[p] \in Files
  <2>1. Holds(p) /\ pc[p] \in {"rename", "mode", "settle"} /\ UNCHANGED <<marker, syncedMark, moved, owner, applied>>
    BY DEF Rename, SetMode, Settle, Holds, Working
  <2> QED
    BY <2>1, HolderFacts DEF Phase
<1>2. PICK f : f = k[p]
  OBVIOUS
<1>3. CASE UNCHANGED <<dest, temp>> /\ (UNCHANGED synced \/ Sync({k[p]})) /\ \E kind : Fail(p, kind)
  <2>1. StillFiles
    BY <1>3, SameStill, SyncStill
  <2> QED
    BY <1>1, <1>3, <2>1, FailStep
<1>4. CASE Rename(p)
  <2>1. UNCHANGED synced
    BY <1>4 DEF Rename
  <2>2. CASE /\ op[p][f] = "create" => dest[f] = None
             /\ op[p][f] # "create" => dest[f] # None
             /\ dest' = [dest EXCEPT ![f] = temp[p][f]] /\ temp' = [temp EXCEPT ![p][f] = dest[f]]
             /\ published' = [published EXCEPT ![p] = published[p] \union {f}] /\ Goto(p, "mode")
             /\ UNCHANGED <<k, op, orig, ready, complete, error, outcome>>
    BY <1>1, <1>2, <1>4, <2>1, <2>2, RenameStep DEF Rename
  <2> QED
    BY <1>2, <1>3, <1>4, <2>1, <2>2 DEF Rename
<1>5. CASE SetMode(p)
  <2>1. UNCHANGED <<temp, synced>>
    BY <1>5 DEF SetMode
  <2>2. CASE pc[p] = "mode" /\ Goto(p, "confirm") /\ UNCHANGED <<dest, k, txn>>
    <3>1. Moves(p, "confirm", k[p]) /\ Step(p, "confirm", k[p])
      BY <2>2, Gone DEF Moves
    <3> QED
      BY <1>1, <2>1, <2>2, <3>1, PlaceStep DEF fs
  <2>3. CASE dest[f] # None /\ dest' = [dest EXCEPT ![f].mode = "final"] /\ Goto(p, "confirm") /\ UNCHANGED <<k, txn>>
    BY <1>1, <1>2, <1>5, <2>1, <2>3, SetModeStep DEF SetMode
  <2> QED
    BY <1>2, <1>3, <1>5, <2>1, <2>2, <2>3 DEF SetMode
<1>6. CASE Settle(p)
  <2>1. UNCHANGED <<dest, temp>> /\ pc[p] = "settle"
    BY <1>6 DEF Settle
  <2>2. CASE Sync({k[p]}) /\ UNCHANGED txn /\ IF k[p] < N THEN Step(p, "check", k[p] + 1) ELSE Step(p, "backups", 1)
    <3>1. StillFiles /\ UNCHANGED <<op, orig, ready, published, complete, error>>
      BY <2>1, <2>2, SyncStill DEF txn
    <3>2. CASE k[p] < N
      <4>1. Moves(p, "check", k[p] + 1) /\ Step(p, "check", k[p] + 1)
        BY <2>1, <2>2, <3>2 DEF Moves
      <4> QED
        BY <1>1, <3>1, <4>1, QuietMove
    <3>3. CASE ~(k[p] < N)
      <4>1. Moves(p, "backups", 1) /\ Step(p, "backups", 1)
        BY <1>1, <2>1, <2>2, <3>3 DEF Moves
      <4> QED
        BY <1>1, <3>1, <4>1, QuietMove
    <3> QED
      BY <3>2, <3>3
  <2> QED
    BY <1>3, <1>6, <2>1, <2>2 DEF Settle
<1> QED
  BY <1>4, <1>5, <1>6

\* The end of a publication before its marker goes.
LEMMA BackupsKeep == ASSUME IInv, NEW p \in Procs, RemoveBackup(p) \/ SyncParents(p) PROVE IInv'
<1>1. /\ Holds(p) /\ pc[p] = "backups" /\ UNCHANGED <<dest, marker, syncedMark, moved, owner, applied>>
      /\ N \in Nat /\ Files = 1 .. N
  BY ConstantsTyped DEF RemoveBackup, SyncParents, Holds, Working
<1>2. CASE UNCHANGED <<temp, synced>> /\ \E result : Return(p, result)
  BY <1>1, <1>2, ReturnStep DEF fs
<1>3. CASE RemoveBackup(p)
  <2>1. PICK f : f = k[p]
    OBVIOUS
  <2>2. f \in Files /\ UNCHANGED synced
    BY <1>3, <2>1 DEF RemoveBackup
  <2>3. CASE op[p][f] = "create" /\ Step(p, "backups", f + 1) /\ UNCHANGED <<temp, txn>>
    <3>1. Moves(p, "backups", f + 1)
      BY <1>1, <2>1, <2>2, <2>3 DEF Moves
    <3> QED
      BY <1>1, <2>2, <2>3, <3>1, PlaceStep DEF fs
  <2>4. CASE temp' = [temp EXCEPT ![p][f] = None] /\ Step(p, "backups", f + 1) /\ UNCHANGED txn
    BY <1>1, <2>1, <2>2, <2>4, RemoveBackupStep
  <2> QED
    BY <1>2, <1>3, <2>1, <2>2, <2>3, <2>4 DEF RemoveBackup, Unlinked
<1>4. CASE SyncParents(p)
  <2>1. k[p] = N + 1 /\ UNCHANGED temp
    BY <1>4 DEF SyncParents
  <2>2. CASE Sync(Files) /\ Step(p, "unmark", 1) /\ UNCHANGED txn
    BY <1>1, <2>1, <2>2, SyncedStep
  <2> QED
    BY <1>2, <1>4, <2>1, <2>2 DEF SyncParents
<1> QED
  BY <1>3, <1>4

\* The rollback, change by change.
LEMMA RollbackKeeps ==
    ASSUME IInv, NEW p \in Procs, RollbackCheck(p) \/ RollbackAct(p) \/ RollbackVerify(p) \/ RollbackDone(p) PROVE IInv'
<1>1. /\ Holds(p) /\ pc[p] \in {"rbCheck", "rbAct", "rbVerify"} /\ UNCHANGED <<marker, syncedMark, moved, owner, applied>>
      /\ N \in Nat /\ Files = 1 .. N /\ published[p] \subseteq Files /\ (pc[p] \in {"rbAct", "rbVerify"} => k[p] \in Files)
  <2>1. Holds(p) /\ pc[p] \in {"rbCheck", "rbAct", "rbVerify"} /\ UNCHANGED <<marker, syncedMark, moved, owner, applied>>
    BY DEF RollbackCheck, RollbackAct, RollbackVerify, RollbackDone, fs, Holds, Working
  <2> QED
    BY <2>1, HolderFacts DEF Phase
<1>2. PICK f : f = k[p]
  OBVIOUS
<1>3. CASE UNCHANGED <<dest, temp, synced>> /\ k[p] \in Files /\ GiveUp(p)
  BY <1>1, <1>3, GiveUpStep DEF fs
<1>4. CASE RollbackCheck(p)
  <2>1. pc[p] = "rbCheck" /\ f \in Files /\ UNCHANGED fs
    BY <1>2, <1>4 DEF RollbackCheck
  <2>2. CASE f \notin published[p] /\ Step(p, "rbCheck", f - 1) /\ UNCHANGED txn
    <3>1. Moves(p, "rbCheck", f - 1)
      BY <1>2, <2>1, <2>2 DEF Moves
    <3> QED
      BY <1>1, <2>1, <2>2, <3>1, PlaceStep
  <2>3. CASE f \in published[p] /\ Revertible(p, f) /\ Goto(p, "rbAct") /\ UNCHANGED <<k, txn>>
    BY <1>1, <1>2, <2>1, <2>3, RevertStep
  <2> QED
    BY <1>2, <1>3, <1>4, <2>1, <2>2, <2>3 DEF RollbackCheck, fs
<1>5. CASE RollbackAct(p)
  <2>1. pc[p] = "rbAct" /\ f \in Files /\ UNCHANGED synced
    BY <1>1, <1>2, <1>5 DEF RollbackAct
  <2>2. CASE /\ op[p][f] = "retire" => dest[f] = None
             /\ dest' = [dest EXCEPT ![f] = temp[p][f]]
             /\ temp' = IF op[p][f] = "create" THEN temp ELSE [temp EXCEPT ![p][f] = dest[f]]
             /\ Goto(p, "rbVerify") /\ UNCHANGED <<k, txn>>
    BY <1>1, <1>2, <2>1, <2>2, RevertedStep
  <2> QED
    BY <1>2, <1>3, <1>5, <2>1, <2>2 DEF RollbackAct
<1>6. CASE RollbackVerify(p)
  <2>1. pc[p] = "rbVerify" /\ f \in Files /\ UNCHANGED dest
    BY <1>1, <1>2, <1>6 DEF RollbackVerify
  <2>2. CASE (op[p][f] # "create" => dest[f] = orig[p][f]) /\ Forgets(p, f) /\ Step(p, "rbCheck", f - 1) /\ UNCHANGED <<op, orig, ready, error>>
    BY <1>1, <1>2, <2>1, <2>2, ForgetStep
  <2> QED
    BY <1>2, <1>3, <1>6, <2>1, <2>2 DEF RollbackVerify, Forgets
<1>7. CASE RollbackDone(p)
  <2>1. CASE complete[p] /\ Step(p, "rbClean", 1) /\ UNCHANGED txn
    <3>1. Moves(p, "rbClean", 1)
      BY <1>7, <2>1 DEF RollbackDone, Moves
    <3> QED
      BY <1>1, <1>7, <2>1, <3>1, PlaceStep DEF RollbackDone
  <2>2. CASE Return(p, "RollbackIncomplete")
    BY <1>1, <1>7, <2>2, ReturnStep DEF RollbackDone
  <2> QED
    BY <1>7, <2>1, <2>2 DEF RollbackDone
<1> QED
  BY <1>4, <1>5, <1>6, <1>7

\* The staged files of what was not published go, and what is left is durable.
LEMMA CleaningKeeps == ASSUME IInv, NEW p \in Procs, CleanTemp(p) \/ CleanSync(p) PROVE IInv'
<1>1. /\ Holds(p) /\ pc[p] \in {"rbClean", "discard"} /\ UNCHANGED <<dest, marker, syncedMark, moved, owner, applied>>
      /\ N \in Nat /\ Files = 1 .. N /\ k[p] \in 1 .. ready[p] + 1 /\ ready[p] \in 0 .. N
  <2>1. Holds(p) /\ pc[p] \in {"rbClean", "discard"} /\ UNCHANGED <<dest, marker, syncedMark, moved, owner, applied>>
    BY DEF CleanTemp, CleanSync, Holds, Working
  <2> QED
    BY <2>1, HolderFacts DEF Phase
<1>2. CASE CleanTemp(p)
  <2>1. PICK f : f = k[p]
    OBVIOUS
  <2>2. /\ f \in Files /\ f <= ready[p] /\ k' = [k EXCEPT ![p] = f + 1]
        /\ UNCHANGED <<synced, pc, op, orig, ready, published, error, outcome>>
    BY <1>1, <1>2, <2>1 DEF CleanTemp
  <2>3. CASE UNCHANGED temp /\ ((temp[p][f] = None /\ UNCHANGED complete) \/ complete' = [complete EXCEPT ![p] = FALSE])
    BY <1>1, <2>1, <2>2, <2>3, PassedStep DEF fs
  <2>4. CASE temp' = [temp EXCEPT ![p][f] = None] /\ UNCHANGED complete
    BY <1>1, <2>1, <2>2, <2>4, CleanTempStep
  <2> QED
    BY <1>2, <2>1, <2>3, <2>4 DEF CleanTemp, Unlinked
<1>3. CASE CleanSync(p)
  <2>1. k[p] = ready[p] + 1 /\ UNCHANGED temp
    BY <1>3 DEF CleanSync
  <2>2. CASE UNCHANGED synced /\ \E result : Return(p, result)
    BY <1>1, <2>1, <2>2, ReturnStep DEF fs
  <2>3. CASE /\ complete[p] /\ Sync(1 .. ready[p]) /\ UNCHANGED <<k, txn>>
             /\ Goto(p, IF pc[p] = "rbClean" THEN "rbRelease" ELSE "discardRelease")
    BY <1>1, <2>1, <2>3, CleanedStep
  <2> QED
    BY <1>3, <2>2, <2>3 DEF CleanSync
<1> QED
  BY <1>2, <1>3

(***************************************************************************)
(* The marker                                                              *)
(***************************************************************************)
\* What is asked of a holder depends on its own state and on the files only.
LEMMA SoundSame ==
    ASSUME NEW q \in Procs, UNCHANGED <<dest, temp, synced, ready, published, complete, error, start, applied>>,
           pc'[q] = pc[q], k'[q] = k[q], op'[q] = op[q], orig'[q] = orig[q], touched'[q] = touched[q],
           touched'[applied] = touched[applied], applied # None => op'[applied] = op[applied], HolderSound(q)
    PROVE  HolderSound(q)'
<1> SUFFICES ASSUME NEW f \in Files PROVE Private(q, f)' /\ Intact(q, f)' /\ Durable(q, f)'
  BY DEF HolderSound
<1>1. Private(q, f) /\ Intact(q, f) /\ Durable(q, f)
  BY DEF HolderSound
<1>2. /\ Settled(f)' = Settled(f) /\ Result(q, f)' = Result(q, f) /\ Prep(q, f)' = Prep(q, f) /\ Staged(q, f)' = Staged(q, f)
      /\ (Confirmed(q, f)' <=> Confirmed(q, f)) /\ (BackupGone(q, f)' <=> BackupGone(q, f))
      /\ (Reverting(q, f)' <=> Reverting(q, f)) /\ (Untouched(q, f)' <=> Untouched(q, f))
      /\ (IsStaged(dest[f], q, f)' <=> IsStaged(dest[f], q, f))
  BY DEF Settled, Result, Prep, Staged, Confirmed, BackupGone, Reverting, Untouched, IsStaged
<1>3. Private(q, f)'
  BY <1>1, <1>2 DEF Private
<1>4. Intact(q, f)'
  BY <1>1, <1>2 DEF Intact, SettledAt
<1>5. Durable(q, f)'
  BY <1>1 DEF Durable
<1> QED
  BY <1>3, <1>4, <1>5

LEMMA WholeSame ==
    ASSUME UNCHANGED <<dest, temp, synced, applied, start>>, touched'[applied] = touched[applied], applied # None => op'[applied] = op[applied], Whole
    PROVE  Whole'
BY DEF Whole, CleanAt, SettledAt, Settled, Result, Staged

\* A process that has no marker ends; the marker changes as far as no holder and no unmarked tree is concerned.
LEMMA BesideStep ==
    ASSUME IInv, NEW p \in Procs, ~Holds(p), NEW label \in {"done", "crashed"}, Goto(p, label),
           UNCHANGED <<dest, temp, synced, moved, owner, applied, k, op, orig, ready, published, complete, error>>,
           marker' \in Procs \union {None, "foreign"}, syncedMark' \in Procs \union {None, "foreign"},
           ~Marked' => Whole, \A q \in Procs : Holds(q) => marker' \in {q, "foreign"} /\ syncedMark' # None
    PROVE  IInv'
<1>1. /\ pc' \in [Procs -> Labels] /\ pc'[p] = label /\ label \in Labels /\ label \notin Working
      /\ \A q \in Procs : q # p => pc'[q] = pc[q]
  BY DEF IInv, Plans, Goto, Labels, Working
<1>2. \A q \in Procs : Holds(q)' => Holds(q) /\ q # p
  BY <1>1 DEF Holds
<1>3. TypeOK'
  BY DEF IInv, TypeOK, owner
<1>4. Exclusive'
  BY <1>2 DEF IInv, Exclusive
<1>5. Plans'
  <2>1. \A q \in Procs : Phase(q)' /\ PlanFits(q)'
    <3> TAKE q \in Procs
    <3>1. Phase(q) /\ PlanFits(q)
      BY DEF IInv, Plans
    <3>2. Phase(q)'
      BY <1>1, <3>1 DEF Phase, Holds, Working
    <3> QED
      BY <3>1, <3>2 DEF PlanFits
  <2>2. applied' # None => pc'[applied'] \in {"syncRoot", "done", "crashed"}
    BY <1>1 DEF IInv, Plans, TypeOK
  <2> QED
    BY <1>1, <2>1, <2>2 DEF IInv, Plans, owner
<1>6. ~Marked' => Whole'
  BY WholeSame DEF owner
<1>7. \A q \in Procs : Holds(q)' => HolderSound(q)'
  BY <1>1, <1>2, SoundSame DEF IInv, owner
<1>8. AllFresh'
  BY DEF IInv, AllFresh, Fresh, owner
<1>9. AllKept'
  <2> SUFFICES ASSUME NEW f \in Files PROVE WorkKept(f)'
    BY DEF AllKept
  <2>1. WorkKept(f)
    BY DEF IInv, AllKept
  <2>2. \A q \in Procs : pc'[q] \in {"rbAct", "rbVerify"} => pc'[q] = pc[q]
    BY <1>1
  <2> QED
    BY <2>1, <2>2 DEF WorkKept, Here, Survives, HasData, owner
<1> QED
  BY <1>3, <1>4, <1>5, <1>6, <1>7, <1>8, <1>9 DEF IInv

\* A tree without a marker has no holder, and is whole.
LEMMA NoMarker == ASSUME IInv, marker = None PROVE Whole /\ \A q \in Procs : ~Holds(q)
BY ConstantsTyped DEF IInv, Exclusive, Marked

\* create_marker has made the marker: p begins with a whole tree.
LEMMA MarkerMade ==
    ASSUME IInv, NEW p \in Procs, pc[p] = "start", marker = None, marker' = p, syncedMark' = p, Step(p, "prepare", 1),
           UNCHANGED <<dest, temp, synced, moved, owner, applied, txn>>
    PROVE  IInv'
<1>1. N \in Nat /\ N > 0 /\ Files = 1 .. N /\ ready[p] = 0 /\ published[p] = {} /\ complete[p]
  BY ConstantsTyped DEF IInv, Plans, Phase
<1>2. /\ pc' \in [Procs -> Labels] /\ k' \in [Procs -> 0 .. N + 1] /\ pc'[p] = "prepare" /\ k'[p] = 1
      /\ \A q \in Procs : q # p => pc'[q] = pc[q] /\ k'[q] = k[q]
  <2>1. "prepare" \in Labels /\ 1 \in 0 .. N + 1
    BY <1>1 DEF Labels, Working
  <2> QED
    BY <2>1, Stepped
<1>3. Whole /\ \A q \in Procs : ~Holds(q)
  BY NoMarker
<1>4. \A q \in Procs : Holds(q)' => q = p
  BY <1>2, <1>3 DEF Holds
<1>5. p # None /\ p # "foreign"
  BY ConstantsTyped
<1>6. TypeOK'
  BY <1>2, <1>5 DEF IInv, TypeOK, owner, txn
<1>7. Plans'
  <2>1. \A q \in Procs : Phase(q)' /\ PlanFits(q)'
    <3> TAKE q \in Procs
    <3>1. Phase(q) /\ PlanFits(q)
      BY DEF IInv, Plans
    <3>2. CASE q = p
      BY <1>1, <1>2, <3>1, <3>2 DEF Phase, PlanFits, Holds, Working, txn
    <3>3. CASE q # p
      BY <1>2, <3>1, <3>3 DEF Phase, PlanFits, Holds, txn
    <3> QED
      BY <3>2, <3>3
  <2>2. applied' # None => pc'[applied'] \in {"syncRoot", "done", "crashed"}
    BY <1>2 DEF IInv, Plans, TypeOK
  <2> QED
    BY <1>2, <2>1, <2>2 DEF IInv, Plans, owner
<1>8. Exclusive' /\ Marked'
  BY <1>4, <1>5 DEF Exclusive, Marked
<1>9. HolderSound(p)'
  <2>1. Whole'
    BY <1>3, WholeSame DEF owner, txn
  <2> SUFFICES ASSUME NEW f \in Files PROVE Private(p, f)' /\ Intact(p, f)' /\ Durable(p, f)'
    BY DEF HolderSound
  <2>2. f \in Nat /\ f >= 1 /\ ready'[p] = 0 /\ published'[p] = {} /\ ~Confirmed(p, f)' /\ CleanAt(f)' /\ SettledAt(f)'
    BY <1>1, <1>2, <2>1 DEF txn, Confirmed, Whole
  <2>3. Private(p, f)'
    BY <1>2, <2>2 DEF Private, CleanAt
  <2>4. Intact(p, f)'
    BY <1>2, <2>2 DEF Intact
  <2>5. Durable(p, f)'
    BY <1>2, <2>2 DEF Durable, CleanAt
  <2> QED
    BY <2>3, <2>4, <2>5
<1>10. AllFresh'
  BY DEF IInv, AllFresh, Fresh, owner, txn
<1>11. AllKept'
  <2> SUFFICES ASSUME NEW f \in Files PROVE WorkKept(f)'
    BY DEF AllKept
  <2>1. WorkKept(f)
    BY DEF IInv, AllKept
  <2>2. \A q \in Procs : pc'[q] \notin {"rbAct", "rbVerify"}
    BY <1>2, <1>4 DEF Holds, Working
  <2> QED
    BY <2>1, <2>2 DEF WorkKept, Here, Survives, HasData, owner, txn
<1> QED
  BY <1>4, <1>6, <1>7, <1>8, <1>9, <1>10, <1>11 DEF IInv

\* The marker goes, and its holder with it: the tree is whole.
LEMMA MarkerGone ==
    ASSUME IInv, NEW p \in Procs, Holds(p), NEW label \in {"syncRoot", "done"}, Goto(p, label), marker' = None,
           syncedMark' \in {None, syncedMark}, applied' = applied \/ (applied' = p /\ label = "syncRoot"),
           UNCHANGED <<dest, temp, synced, moved, owner, k, op, orig, ready, published, complete>>, Whole'
    PROVE  IInv'
<1>1. /\ pc' \in [Procs -> Labels] /\ pc'[p] = label /\ label \in Labels /\ label \notin Working
      /\ \A q \in Procs : q # p => pc'[q] = pc[q]
  BY DEF IInv, Plans, Goto, Labels, Working
<1>2. \A q \in Procs : ~Holds(q)'
  BY <1>1 DEF Holds, IInv, Exclusive
<1>3. TypeOK'
  BY DEF IInv, TypeOK, owner
<1>4. Plans'
  <2>1. \A q \in Procs : Phase(q)' /\ PlanFits(q)'
    <3> TAKE q \in Procs
    <3>1. Phase(q) /\ PlanFits(q)
      BY DEF IInv, Plans
    <3>2. Phase(q)'
      BY <1>1, <3>1 DEF Phase, Holds, Working
    <3> QED
      BY <3>1, <3>2 DEF PlanFits
  <2>2. applied' # None => pc'[applied'] \in {"syncRoot", "done", "crashed"}
    BY <1>1 DEF IInv, Plans, TypeOK
  <2> QED
    BY <1>1, <2>1, <2>2 DEF IInv, Plans, owner
<1>5. Exclusive'
  BY <1>2 DEF Exclusive
<1>6. AllFresh'
  BY DEF IInv, AllFresh, Fresh, owner
<1>7. AllKept'
  <2> SUFFICES ASSUME NEW f \in Files PROVE WorkKept(f)'
    BY DEF AllKept
  <2>1. WorkKept(f)
    BY DEF IInv, AllKept
  <2>2. \A q \in Procs : pc'[q] \notin {"rbAct", "rbVerify"}
    BY <1>2 DEF Holds, Working
  <2> QED
    BY <2>1, <2>2 DEF WorkKept, Here, Survives, HasData, owner
<1> QED
  BY <1>2, <1>3, <1>4, <1>5, <1>6, <1>7 DEF IInv

\* A publication that was confirmed and made durable has left what it planned.
LEMMA PublishedWhole ==
    ASSUME IInv, NEW p \in Procs, pc[p] = "unmark", applied' = p, UNCHANGED <<dest, temp, synced, owner, op>>
    PROVE  Whole'
<1>1. Holds(p)
  BY DEF Holds, Working
<1>2. N \in Nat /\ Files = 1 .. N /\ ready[p] = N
  BY <1>1, HolderFacts DEF Phase
<1> SUFFICES ASSUME NEW f \in Files PROVE CleanAt(f)' /\ SettledAt(f)'
  BY DEF Whole
<1>3. f <= ready[p] /\ Confirmed(p, f) /\ Private(p, f) /\ Intact(p, f) /\ Durable(p, f)
  BY <1>1, <1>2 DEF IInv, HolderSound, Confirmed
<1>4. CleanAt(f)'
  BY <1>3 DEF Private, Durable, CleanAt
<1>5. f \notin touched[p] => dest[f] = Result(p, f)
  BY <1>3 DEF Intact, Untouched
<1>6. Settled(f)' = Result(p, f)
  BY ConstantsTyped DEF Settled, Result, Staged
<1>7. SettledAt(f)'
  BY <1>5, <1>6 DEF SettledAt, owner
<1> QED
  BY <1>4, <1>7

\* A publication that undid everything has left what it found.
LEMMA RestoredWhole ==
    ASSUME IInv, NEW p \in Procs, pc[p] \in {"rbRelease", "discardRelease"}, error[p] # "RecoveryRequired"
    PROVE  Whole /\ \A f \in 1 .. ready[p] : f \notin touched[p] => dest[f] = orig[p][f]
<1>1. Holds(p)
  BY DEF Holds, Working
<1>2. N \in Nat /\ Files = 1 .. N /\ ready[p] \in 0 .. N /\ published[p] = {}
  BY <1>1, HolderFacts DEF Phase
<1>3. ASSUME NEW f \in Files PROVE CleanAt(f) /\ SettledAt(f) /\ (f <= ready[p] /\ f \notin touched[p] => dest[f] = orig[p][f])
  <2>1. Private(p, f) /\ Intact(p, f) /\ Durable(p, f) /\ (f <= ready[p] \/ f > ready[p]) /\ f \notin published[p]
    BY <1>1, <1>2 DEF IInv, HolderSound
  <2>2. CleanAt(f)
    BY <2>1 DEF Private, Durable, CleanAt
  <2>3. Untouched(p, f) /\ f <= ready[p] => dest[f] = orig[p][f]
    BY <2>1 DEF Intact
  <2>4. SettledAt(f)
    BY <2>1, <2>3 DEF Intact, SettledAt, Untouched
  <2> QED
    BY <2>2, <2>3, <2>4 DEF Untouched
<1> QED
  BY <1>2, <1>3 DEF Whole

LEMMA CreateMarkerKeeps == ASSUME IInv, NEW p \in Procs, CreateMarker(p) PROVE IInv'
<1>1. pc[p] = "start" /\ ~Holds(p) /\ UNCHANGED <<dest, temp, synced, moved, owner, applied>> /\ p # None
  BY ConstantsTyped DEF CreateMarker, Holds, Working
<1>2. marker \in Procs \union {None, "foreign"} /\ syncedMark \in Procs \union {None, "foreign"}
  BY DEF IInv, TypeOK
<1>3. CASE (\E result : Return(p, result)) /\ UNCHANGED syncedMark /\ (UNCHANGED marker \/ (marker = None /\ marker' = p))
  <2>1. Goto(p, "done") /\ UNCHANGED <<k, op, orig, ready, published, complete, error>>
    BY <1>3 DEF Return
  <2>2. ~Marked' => Whole
    BY <1>1, <1>3 DEF IInv, Marked
  <2>3. \A q \in Procs : Holds(q) => marker' \in {q, "foreign"} /\ syncedMark' # None
    <3>1. CASE UNCHANGED marker
      BY <1>3, <3>1 DEF IInv, Exclusive
    <3>2. CASE marker = None
      BY <3>2, NoMarker
    <3> QED
      BY <1>3, <3>1, <3>2
  <2> QED
    BY <1>1, <1>2, <1>3, <2>1, <2>2, <2>3, BesideStep
<1>4. CASE marker = None /\ marker' = p /\ syncedMark' = p /\ Step(p, "prepare", 1) /\ UNCHANGED txn
  BY <1>1, <1>4, MarkerMade
<1> QED
  BY <1>3, <1>4 DEF CreateMarker

LEMMA SyncRootKeeps == ASSUME IInv, NEW p \in Procs, SyncRoot(p) PROVE IInv'
<1>1. /\ ~Holds(p) /\ Goto(p, "done") /\ syncedMark' \in {syncedMark, marker}
      /\ UNCHANGED <<dest, temp, marker, synced, moved, owner, applied, k, op, orig, ready, published, complete, error>>
  BY DEF SyncRoot, Return, Holds, Working
<1>2. marker \in Procs \union {None, "foreign"} /\ syncedMark \in Procs \union {None, "foreign"}
  BY DEF IInv, TypeOK
<1>3. ~Marked' => Whole
  BY <1>1 DEF IInv, Marked
<1>4. \A q \in Procs : Holds(q) => marker' \in {q, "foreign"} /\ syncedMark' # None
  BY <1>1, ConstantsTyped DEF IInv, Exclusive
<1> QED
  BY <1>1, <1>2, <1>3, <1>4, BesideStep

LEMMA RemoveMarkerKeeps == ASSUME IInv, NEW p \in Procs, RemoveMarker(p) PROVE IInv'
<1>1. Holds(p) /\ pc[p] = "unmark" /\ UNCHANGED <<dest, temp, synced, syncedMark, moved, owner>>
  BY DEF RemoveMarker, Holds, Working
<1>2. CASE (\E result : Return(p, result)) /\ UNCHANGED <<marker, applied>>
  BY <1>1, <1>2, ReturnStep DEF fs
<1>3. CASE marker' = None /\ applied' = p /\ Goto(p, "syncRoot") /\ UNCHANGED <<k, txn>>
  <2>1. UNCHANGED <<k, op, orig, ready, published, complete>>
    BY <1>3 DEF txn
  <2>2. Whole'
    BY <1>1, <1>3, <2>1, PublishedWhole
  <2> QED
    BY <1>1, <1>3, <2>1, <2>2, MarkerGone
<1> QED
  BY <1>2, <1>3 DEF RemoveMarker

LEMMA ReleaseKeeps == ASSUME IInv, NEW p \in Procs, Release(p) PROVE IInv'
<1>1. Holds(p) /\ pc[p] \in {"rbRelease", "discardRelease"} /\ UNCHANGED <<dest, temp, synced, moved, owner, applied>>
  BY DEF Release, Holds, Working
<1>2. CASE (\E result : Return(p, result)) /\ UNCHANGED <<marker, syncedMark>>
  BY <1>1, <1>2, ReturnStep DEF fs
<1>3. CASE error[p] # "RecoveryRequired" /\ marker' = None /\ syncedMark' \in {None, syncedMark} /\ Return(p, error[p])
  <2>1. Goto(p, "done") /\ UNCHANGED <<k, op, orig, ready, published, complete>>
    BY <1>3 DEF Return
  <2>2. Whole
    BY <1>1, <1>3, RestoredWhole
  <2>3. Whole'
    BY <1>1, <2>1, <2>2, WholeSame DEF owner
  <2> QED
    BY <1>1, <1>3, <2>1, <2>3, MarkerGone
<1> QED
  BY <1>2, <1>3 DEF Release

LEMMA CrashKeeps == ASSUME IInv, NEW p \in Procs, Crash(p) PROVE IInv'
<1>1. Goto(p, "crashed") /\ UNCHANGED <<fs, k, op, orig, ready, published, complete, error, applied, owner>>
  BY DEF Crash, txn
<1>2. CASE Holds(p)
  BY <1>1, <1>2, LeaveStep
<1>3. CASE ~Holds(p)
  <2>1. marker \in Procs \union {None, "foreign"} /\ syncedMark \in Procs \union {None, "foreign"}
        /\ UNCHANGED <<dest, temp, marker, synced, syncedMark, moved>>
    BY <1>1 DEF IInv, TypeOK, fs
  <2>2. (~Marked' => Whole) /\ \A q \in Procs : Holds(q) => marker' \in {q, "foreign"} /\ syncedMark' # None
    BY <2>1 DEF IInv, Marked, Exclusive
  <2> QED
    BY <1>1, <1>3, <2>1, <2>2, BesideStep
<1> QED
  BY <1>2, <1>3

(***************************************************************************)
(* The environment                                                         *)
(***************************************************************************)
LEMMA PlanKeeps == ASSUME IInv, NEW p \in Procs, Plan(p) PROVE IInv'
<1>1. PICK choice \in [Files -> {"edit", "retire"}] :
         op' = [op EXCEPT ![p] = [f \in Files |-> IF dest[f] = None THEN "create" ELSE choice[f]]]
  BY DEF Plan
<1>2. PICK mine : mine = [f \in Files |-> IF dest[f] = None THEN "create" ELSE choice[f]]
  OBVIOUS
<1>3. mine \in [Files -> {"create", "edit", "retire"}] /\ \A f \in Files : mine[f] = "create" <=> dest[f] = None
  BY <1>2
<1>4. /\ pc[p] = "idle" /\ orig' = [orig EXCEPT ![p] = dest] /\ work' = [f \in Files |-> None] /\ raced' = {}
      /\ touched' = [touched EXCEPT ![p] = {}] /\ Goto(p, "start") /\ op' = [op EXCEPT ![p] = mine]
      /\ UNCHANGED <<dest, temp, marker, synced, syncedMark, moved, start, k, ready, published, complete, error, applied, edits>>
  BY <1>1, <1>2 DEF Plan, fs
<1>5. /\ dest \in [Files -> File \union {None}] /\ pc \in [Procs -> Labels] /\ op \in [Procs -> [Files -> {"create", "edit", "retire"}]]
      /\ orig \in [Procs -> [Files -> File \union {None}]] /\ touched \in [Procs \union {None} -> SUBSET Files]
      /\ applied \in Procs \union {None} /\ (applied # None => pc[applied] \in {"syncRoot", "done", "crashed"})
  BY DEF IInv, TypeOK, Plans
<1>6. /\ pc' \in [Procs -> Labels] /\ pc'[p] = "start" /\ op'[p] = mine /\ orig'[p] = dest
      /\ op' \in [Procs -> [Files -> {"create", "edit", "retire"}]] /\ orig' \in [Procs -> [Files -> File \union {None}]]
      /\ touched' \in [Procs \union {None} -> SUBSET Files]
      /\ \A q \in Procs : q # p => pc'[q] = pc[q] /\ op'[q] = op[q] /\ orig'[q] = orig[q] /\ touched'[q] = touched[q]
  BY <1>3, <1>4, <1>5 DEF Goto, Labels
<1>7. applied # p /\ touched'[applied] = touched[applied] /\ (applied # None => op'[applied] = op[applied])
  BY <1>4, <1>5, ConstantsTyped
<1>8. TypeOK'
  BY <1>4, <1>6 DEF IInv, TypeOK
<1>9. Plans'
  <2>1. \A q \in Procs : Phase(q)' /\ PlanFits(q)'
    <3> TAKE q \in Procs
    <3>1. Phase(q) /\ PlanFits(q)
      BY DEF IInv, Plans
    <3>2. CASE q = p
      BY <1>3, <1>4, <1>6, <3>1, <3>2 DEF Phase, PlanFits, Holds, Working
    <3>3. CASE q # p
      BY <1>4, <1>6, <3>1, <3>3 DEF Phase, PlanFits, Holds
    <3> QED
      BY <3>2, <3>3
  <2>2. applied' # None => pc'[applied'] \in {"syncRoot", "done", "crashed"}
    BY <1>4, <1>5, <1>6, <1>7
  <2> QED
    BY <1>4, <1>6, <2>1, <2>2 DEF IInv, Plans
<1>10. \A q \in Procs : Holds(q)' => Holds(q) /\ q # p
  BY <1>6 DEF Holds, Working
<1>11. Exclusive'
  BY <1>4, <1>10 DEF IInv, Exclusive
<1>12. ~Marked' => Whole'
  BY <1>4, <1>7, WholeSame DEF IInv, Marked
<1>13. \A q \in Procs : Holds(q)' => HolderSound(q)'
  BY <1>4, <1>6, <1>7, <1>10, SoundSame DEF IInv
<1>14. AllFresh'
  <2>1. \A q \in Procs, f \in Files : orig'[q][f] = orig[q][f] \/ orig'[q][f] = dest[f]
    BY <1>6
  <2> QED
    BY <1>4, <2>1 DEF IInv, AllFresh, Fresh
<1>15. AllKept'
  BY <1>4 DEF AllKept, WorkKept
<1> QED
  BY <1>8, <1>9, <1>11, <1>12, <1>13, <1>14, <1>15 DEF IInv

\* Power is lost: an unmarked tree loses nothing, and of a marked one nobody relies on anything.
LEMMA PowerLossKeeps == ASSUME IInv, PowerLoss PROVE IInv'
<1>1. PICK S \in SUBSET Files :
         /\ dest' = [f \in Files |-> IF f \in S THEN synced[f].dest ELSE dest[f]]
         /\ temp' = [p \in Procs |-> [f \in Files |-> IF f \in S THEN synced[f].temp[p] ELSE temp[p][f]]]
         /\ synced' = [f \in Files |-> IF f \in S THEN synced[f] ELSE Names(f)]
  BY DEF PowerLoss
<1>2. /\ pc' = [p \in Procs |-> IF Live(p) THEN "crashed" ELSE pc[p]]
      /\ marker' \in {marker, syncedMark} /\ syncedMark' = marker'
      /\ UNCHANGED <<moved, k, op, orig, ready, published, complete, error, applied, work, touched, raced, start, edits>>
  BY DEF PowerLoss, txn, owner
<1>3. dest \in [Files -> File \union {None}] /\ temp \in [Procs -> [Files -> File \union {None}]] /\ synced \in SyncedTypes
      /\ pc \in [Procs -> Labels]
  BY DEF IInv, TypeOK, SyncedTypes, Plans
<1>4. \A f \in Files : \/ /\ dest'[f] = synced[f].dest /\ synced'[f] = synced[f]
                          /\ \A p \in Procs : temp'[p][f] = synced[f].temp[p]
                       \/ /\ dest'[f] = dest[f] /\ synced'[f].dest = dest[f]
                          /\ \A p \in Procs : temp'[p][f] = temp[p][f] /\ synced'[f].temp[p] = temp[p][f]
  <2> TAKE f \in Files
  <2>1. CASE f \in S
    BY <1>1, <2>1
  <2>2. CASE f \notin S
    <3>1. synced'[f] = Names(f)
      BY <1>1, <2>2
    <3> QED
      BY <1>1, <2>2, <3>1 DEF Names
  <2> QED
    BY <2>1, <2>2
<1>5. dest' \in [Files -> File \union {None}] /\ temp' \in [Procs -> [Files -> File \union {None}]] /\ synced' \in SyncedTypes
  <2>1. \A f \in Files : synced[f] \in [dest : File \union {None}, temp : [Procs -> File \union {None}]]
                         /\ Names(f) \in [dest : File \union {None}, temp : [Procs -> File \union {None}]]
    BY <1>3 DEF Names, SyncedTypes
  <2>2. synced' \in SyncedTypes
    <3> HIDE DEF Names
    <3> QED
      BY <1>1, <2>1 DEF SyncedTypes
  <2>3. dest' \in [Files -> File \union {None}]
    BY <1>1, <1>3 DEF SyncedTypes
  <2>4. temp' \in [Procs -> [Files -> File \union {None}]]
    BY <1>1, <1>3 DEF SyncedTypes
  <2> QED
    BY <2>2, <2>3, <2>4
<1>6. pc' \in [Procs -> Labels] /\ \A p \in Procs : ~Holds(p)' /\ (pc'[p] = pc[p] \/ pc'[p] = "crashed")
  BY <1>2, <1>3 DEF Holds, Labels, Working, Live
<1>7. TypeOK'
  BY <1>2, <1>5 DEF IInv, TypeOK, SyncedTypes
<1>8. Plans'
  <2>1. \A q \in Procs : Phase(q)' /\ PlanFits(q)'
    <3> TAKE q \in Procs
    <3>1. Phase(q) /\ PlanFits(q)
      BY DEF IInv, Plans
    <3>2. Phase(q)'
      BY <1>2, <1>6, <3>1 DEF Phase, Holds, Working
    <3> QED
      BY <1>2, <3>1, <3>2 DEF PlanFits
  <2>2. applied' # None => pc'[applied'] \in {"syncRoot", "done", "crashed"}
    BY <1>2, <1>6 DEF IInv, Plans, TypeOK
  <2> QED
    BY <1>2, <1>6, <2>1, <2>2 DEF IInv, Plans
<1>9. Exclusive'
  BY <1>6 DEF Exclusive
<1>10. ~Marked' => Whole'
  <2>1. ~Marked' => Whole
    BY <1>2 DEF IInv, Marked
  <2>2. ASSUME Whole PROVE Whole'
    <3> SUFFICES ASSUME NEW f \in Files PROVE CleanAt(f)' /\ SettledAt(f)'
      BY DEF Whole
    <3>1. CleanAt(f) /\ SettledAt(f)
      BY <2>2 DEF Whole
    <3>2. dest'[f] = dest[f] /\ synced'[f].dest = dest[f] /\ \A p \in Procs : temp'[p][f] = None /\ synced'[f].temp[p] = None
      BY <1>4, <3>1 DEF CleanAt
    <3>3. Settled(f)' = Settled(f)
      BY <1>2, SettledSame
    <3> QED
      BY <1>2, <3>1, <3>2, <3>3 DEF CleanAt, SettledAt
  <2> QED
    BY <2>1, <2>2
<1>11. AllFresh'
  <2> SUFFICES ASSUME NEW f \in Files
               PROVE  Fresh(dest[f])' /\ Fresh(synced[f].dest)'
                      /\ \A p \in Procs : Fresh(temp[p][f])' /\ Fresh(synced[f].temp[p])' /\ Fresh(orig[p][f])'
    BY DEF AllFresh
  <2>1. Fresh(dest[f]) /\ Fresh(synced[f].dest) /\ \A p \in Procs : Fresh(temp[p][f]) /\ Fresh(synced[f].temp[p]) /\ Fresh(orig[p][f])
    BY DEF IInv, AllFresh
  <2> QED
    BY <1>2, <1>4, <2>1 DEF Fresh
<1>12. AllKept'
  <2> SUFFICES ASSUME NEW f \in Files, work[f] # None PROVE WorkKept(f)'
    BY <1>2 DEF AllKept, WorkKept
  <2>1. WorkKept(f)
    BY DEF IInv, AllKept
  <2>2. Here(f, work[f]) /\ Survives(f, work[f]) => Here(f, work[f])' /\ Survives(f, work[f])'
    <3>1. CASE /\ dest'[f] = synced[f].dest /\ synced'[f] = synced[f]
               /\ \A p \in Procs : temp'[p][f] = synced[f].temp[p]
      BY <1>2, <3>1 DEF Here, Survives, HasData
    <3>2. CASE /\ dest'[f] = dest[f] /\ synced'[f].dest = dest[f]
               /\ \A p \in Procs : temp'[p][f] = temp[p][f] /\ synced'[f].temp[p] = temp[p][f]
      BY <1>2, <3>2 DEF Here, Survives, HasData
    <3> QED
      BY <1>4, <3>1, <3>2
  <2>3. \A p \in Procs : pc'[p] \notin {"rbAct", "rbVerify"}
    BY <1>6 DEF Holds, Working
  <2> QED
    BY <1>2, <2>1, <2>2, <2>3 DEF WorkKept, HasData
<1> QED
  BY <1>6, <1>7, <1>8, <1>9, <1>10, <1>11, <1>12 DEF IInv

\* The owner writes to f, with data that nothing else has.
LEMMA OwnerKeeps ==
    ASSUME IInv, NEW f \in Files, NEW file \in File \union {None}, file # None => file.data = Written, OwnerChange(f, file)
    PROVE  IInv'
<1>1. /\ dest' = [dest EXCEPT ![f] = file] /\ synced' = [synced EXCEPT ![f].dest = file]
      /\ work' = [work EXCEPT ![f] = IF file = None THEN None ELSE file.data]
      /\ touched' = [p \in DOMAIN touched |-> touched[p] \union {f}]
      /\ raced' = IF \E p \in Procs : pc[p] = "rbAct" /\ k[p] = f THEN raced \union {f} ELSE raced
      /\ edits > 0 /\ edits' = edits - 1 /\ edits \in Nat
      /\ UNCHANGED <<temp, marker, syncedMark, moved, pc, k, op, orig, ready, published, complete, error, applied, start>>
  BY DEF OwnerChange, txn, IInv, Plans
<1>2. /\ dest \in [Files -> File \union {None}] /\ synced \in SyncedTypes /\ touched \in [Procs \union {None} -> SUBSET Files]
      /\ applied \in Procs \union {None} /\ raced \subseteq Files
  BY DEF IInv, TypeOK, SyncedTypes
<1>3. /\ dest' \in [Files -> File \union {None}] /\ synced' \in SyncedTypes /\ touched' \in [Procs \union {None} -> SUBSET Files]
      /\ dest'[f] = file /\ synced'[f].dest = file /\ (\A p \in Procs : synced'[f].temp[p] = synced[f].temp[p])
      /\ (\A g \in Files : g # f => dest'[g] = dest[g] /\ synced'[g] = synced[g])
      /\ \A p \in Procs \union {None} : touched'[p] = touched[p] \union {f}
  BY <1>1, <1>2 DEF SyncedTypes
<1>4. TypeOK' /\ Plans' /\ Exclusive' /\ (Marked' <=> Marked)
  <2>1. TypeOK'
    BY <1>1, <1>2, <1>3 DEF IInv, TypeOK, SyncedTypes
  <2>2. work' \in [Files -> Tags \union {None}]
    BY <1>1 DEF IInv, Plans, File
  <2>3. Plans'
    BY <1>1, <2>2 DEF IInv, Plans, Phase, PlanFits, Holds
  <2> QED
    BY <1>1, <2>1, <2>3 DEF IInv, Exclusive, Marked, Holds
<1>5. \A g \in Files : Settled(g)' = Settled(g)
  BY <1>1, SettledSame
<1>6. ASSUME Whole PROVE Whole'
  <2> SUFFICES ASSUME NEW g \in Files PROVE CleanAt(g)' /\ SettledAt(g)'
    BY DEF Whole
  <2>1. CleanAt(g) /\ SettledAt(g)
    BY <1>6 DEF Whole
  <2>2. CleanAt(g)'
    BY <1>1, <1>3, <2>1 DEF CleanAt
  <2>3. SettledAt(g)'
    <3>1. g # f => dest'[g] = dest[g]
      BY <1>3
    <3>2. touched'[applied'] = touched[applied] \union {f}
      BY <1>1, <1>2, <1>3
    <3> QED
      BY <1>5, <2>1, <3>1, <3>2 DEF SettledAt
  <2> QED
    BY <2>2, <2>3
<1>7. ASSUME NEW p \in Procs, HolderSound(p) PROVE HolderSound(p)'
  <2> SUFFICES ASSUME NEW g \in Files PROVE Private(p, g)' /\ Intact(p, g)' /\ Durable(p, g)'
    BY DEF HolderSound
  <2>1. Private(p, g) /\ Intact(p, g) /\ Durable(p, g)
    BY <1>7 DEF HolderSound
  <2>2. /\ Result(p, g)' = Result(p, g) /\ Prep(p, g)' = Prep(p, g) /\ Staged(p, g)' = Staged(p, g)
        /\ (Confirmed(p, g)' <=> Confirmed(p, g)) /\ (BackupGone(p, g)' <=> BackupGone(p, g))
        /\ (Reverting(p, g)' <=> Reverting(p, g))
    BY <1>1 DEF Result, Prep, Staged, Confirmed, BackupGone, Reverting
  <2>3. \A q \in Procs : temp'[q][g] = temp[q][g] /\ synced'[g].temp[q] = synced[g].temp[q]
    BY <1>1, <1>3
  <2>4. Private(p, g)'
    BY <1>1, <2>1, <2>2, <2>3 DEF Private
  <2>5. touched'[p] = touched[p] \union {f} /\ touched'[applied'] = touched[applied] \union {f}
    BY <1>1, <1>2, <1>3
  <2>6. Intact(p, g)'
    <3>1. CASE g = f
      BY <1>1, <2>5, <3>1 DEF Intact, SettledAt, Untouched
    <3>2. CASE g # f
      <4>1. dest'[g] = dest[g] /\ (Untouched(p, g)' <=> Untouched(p, g)) /\ (SettledAt(g)' <=> SettledAt(g))
            /\ (g \in touched'[applied'] <=> g \in touched[applied])
        BY <1>3, <1>5, <2>5, <3>2 DEF Untouched, SettledAt
      <4> QED
        BY <1>1, <1>5, <2>1, <2>2, <4>1 DEF Intact, IsStaged
    <3> QED
      BY <3>1, <3>2
  <2>7. Durable(p, g)'
    BY <1>1, <1>3, <2>1, <2>3 DEF Durable
  <2> QED
    BY <2>4, <2>6, <2>7
<1>8. \A q \in Procs : Holds(q)' => HolderSound(q)'
  BY <1>1, <1>7 DEF IInv, Holds
<1>9. ASSUME NEW x \in File \union {None}, Fresh(x)
      PROVE  (x # None /\ x.data[1] = "user" => x.data[2] > edits') /\ ~HasData(x, Written)
  <2>1. x # None => x.data \in Tags /\ x.data[2] \in Nat
    BY <1>9 DEF File, Tags
  <2>2. Written[1] = "user" /\ Written[2] = edits
    BY DEF Written
  <2> QED
    BY <1>1, <1>9, <2>1, <2>2 DEF Fresh, HasData
<1>10. /\ \A p \in Procs, g \in Files : temp[p][g] \in File \union {None} /\ orig[p][g] \in File \union {None}
       /\ \A p \in Procs, g \in Files : synced[g].temp[p] \in File \union {None} /\ synced[g].dest \in File \union {None}
       /\ AllFresh
  BY DEF IInv, TypeOK
<1>11. file # None /\ file.data[1] = "user" => file.data[2] > edits'
  BY <1>1 DEF Written
<1>12. AllFresh'
  <2> SUFFICES ASSUME NEW g \in Files
               PROVE  Fresh(dest[g])' /\ Fresh(synced[g].dest)'
                      /\ \A p \in Procs : Fresh(temp[p][g])' /\ Fresh(synced[g].temp[p])' /\ Fresh(orig[p][g])'
    BY DEF AllFresh
  <2>1. Fresh(dest[g])'
    BY <1>2, <1>3, <1>9, <1>10, <1>11 DEF AllFresh, Fresh
  <2>2. Fresh(synced[g].dest)'
    <3>1. synced[g].dest \in File \union {None}
      BY <1>2 DEF SyncedTypes
    <3> QED
      BY <1>3, <1>9, <1>10, <1>11, <3>1 DEF AllFresh, Fresh
  <2>3. ASSUME NEW p \in Procs PROVE Fresh(temp[p][g])' /\ Fresh(synced[g].temp[p])' /\ Fresh(orig[p][g])'
    <3>1. synced'[g].temp[p] = synced[g].temp[p] /\ Fresh(temp[p][g]) /\ Fresh(synced[g].temp[p]) /\ Fresh(orig[p][g])
      BY <1>3, <1>10 DEF AllFresh
    <3> QED
      BY <1>1, <1>9, <1>10, <3>1 DEF Fresh
  <2> QED
    BY <2>1, <2>2, <2>3
<1>13. ASSUME NEW g \in Files PROVE WorkKept(g)'
  <2>1. WorkKept(g)
    BY DEF IInv, AllKept
  <2>2. CASE g # f
    <3>1. work'[g] = work[g] \/ work'[g] = None
      BY <1>1, <2>2
    <3> QED
      BY <1>1, <1>3, <2>1, <2>2, <3>1 DEF WorkKept, Here, Survives, HasData
  <2>3. CASE g = f /\ work'[f] # None
    <3>1. file # None /\ work'[f] = Written
      BY <1>1, <2>3 DEF IInv, Plans
    <3>2. Written[1] = "user"
      BY DEF Written
    <3>3. Here(f, work[f])' /\ Survives(f, work[f])'
      BY <1>3, <3>1 DEF Here, Survives, HasData
    <3>4. \A p \in Procs : ~HasData(orig[p][f], Written) /\ ~HasData(temp[p][f], Written)
      BY <1>9, <1>10 DEF AllFresh
    <3>5. \A p \in Procs : pc[p] = "rbAct" /\ k[p] = f => f \in raced'
      BY <1>1
    <3> QED
      BY <1>1, <2>3, <3>1, <3>2, <3>3, <3>4, <3>5 DEF WorkKept, HasData
  <2> QED
    BY <2>2, <2>3 DEF WorkKept
<1>14. AllKept'
  BY <1>13 DEF AllKept
<1> QED
  BY <1>4, <1>6, <1>8, <1>12, <1>14 DEF IInv

\* The marker is replaced, or a directory is.
LEMMA DisturbedKeeps == ASSUME IInv, OwnerDisturbs PROVE IInv'
<1>1. /\ edits > 0 /\ edits' = edits - 1 /\ edits \in Nat /\ moved' \in BOOLEAN
      /\ UNCHANGED <<dest, temp, synced, pc, k, op, orig, ready, published, complete, error, applied, work, touched, raced, start>>
      /\ (UNCHANGED <<marker, syncedMark>> \/ (marker \in Procs /\ marker' = "foreign" /\ syncedMark' = "foreign"))
  BY DEF OwnerDisturbs, txn, IInv, TypeOK, Plans
<1>2. TypeOK' /\ Plans' /\ Exclusive' /\ (~Marked' => ~Marked)
  <2>1. TypeOK'
    BY <1>1 DEF IInv, TypeOK
  <2>2. Plans'
    BY <1>1 DEF IInv, Plans, Phase, PlanFits, Holds
  <2>3. Exclusive' /\ (~Marked' => ~Marked)
    BY <1>1, ConstantsTyped DEF IInv, Exclusive, Marked, Holds
  <2> QED
    BY <2>1, <2>2, <2>3
<1>3. ~Marked' => Whole'
  BY <1>1, <1>2, WholeSame DEF IInv
<1>4. \A q \in Procs : Holds(q)' => HolderSound(q)'
  BY <1>1, SoundSame DEF IInv, Holds
<1>5. ASSUME NEW x \in File \union {None}, Fresh(x) PROVE x # None /\ x.data[1] = "user" => x.data[2] > edits'
  <2>1. x # None => x.data \in Tags /\ x.data[2] \in Nat
    BY <1>5 DEF File, Tags
  <2> QED
    BY <1>1, <1>5, <2>1 DEF Fresh
<1>6. AllFresh'
  <2> SUFFICES ASSUME NEW g \in Files
               PROVE  Fresh(dest[g])' /\ Fresh(synced[g].dest)'
                      /\ \A p \in Procs : Fresh(temp[p][g])' /\ Fresh(synced[g].temp[p])' /\ Fresh(orig[p][g])'
    BY DEF AllFresh
  <2>1. dest[g] \in File \union {None} /\ synced[g].dest \in File \union {None} /\ Fresh(dest[g]) /\ Fresh(synced[g].dest)
    BY DEF IInv, TypeOK, AllFresh
  <2>2. ASSUME NEW p \in Procs PROVE Fresh(temp[p][g])' /\ Fresh(synced[g].temp[p])' /\ Fresh(orig[p][g])'
    <3>1. temp[p][g] \in File \union {None} /\ synced[g].temp[p] \in File \union {None} /\ orig[p][g] \in File \union {None}
          /\ Fresh(temp[p][g]) /\ Fresh(synced[g].temp[p]) /\ Fresh(orig[p][g])
      BY DEF IInv, TypeOK, AllFresh
    <3> QED
      BY <1>1, <1>5, <3>1 DEF Fresh
  <2> QED
    BY <1>1, <1>5, <2>1, <2>2 DEF Fresh
<1>7. AllKept'
  BY <1>1 DEF IInv, AllKept, WorkKept, Here, Survives, HasData
<1> QED
  BY <1>2, <1>3, <1>4, <1>6, <1>7 DEF IInv

(***************************************************************************)
(* What is reported                                                        *)
(***************************************************************************)
\* Every step but the end of a publication, and the failures on the way to it, keeps the reports.
LEMMA ReportsKeep == ASSUME ReportsTyped, [Next]_vars PROVE ReportsTyped'
<1>1. ASSUME NEW p \in Procs, NEW kind \in Reports, Fail(p, kind) \/ Abandon(p, kind) \/ Return(p, kind) PROVE ReportsTyped'
  BY <1>1 DEF ReportsTyped, Fail, Abandon, Return
<1>2. ASSUME UNCHANGED <<error, outcome>> PROVE ReportsTyped'
  BY <1>2 DEF ReportsTyped
<1>3. ASSUME NEW p \in Procs, Plan(p) \/ Crash(p) PROVE ReportsTyped'
  BY <1>2, <1>3 DEF Plan, Crash, txn
<1>4. ASSUME NEW p \in Procs, CreateMarker(p) \/ Prepare(p) \/ Prepared(p) \/ Preflight(p) PROVE ReportsTyped'
  BY <1>1, <1>2, <1>4 DEF CreateMarker, Prepare, Prepared, Preflight, txn, Reports
<1>5. ASSUME NEW p \in Procs, VerifyAll(p) \/ Check(p) \/ Confirm(p) \/ Settle(p) PROVE ReportsTyped'
  <2>1. \A S : Refusal(p, S) \in Reports
    BY DEF Refusal, Reports
  <2>2. "PreconditionFailed" \in Reports /\ "PublicationFailed" \in Reports
    BY DEF Reports
  <2> QED
    BY <1>1, <1>2, <1>5, <2>1, <2>2 DEF VerifyAll, Check, Confirm, Settle, txn
<1>6. ASSUME NEW p \in Procs, Rename(p) \/ SetMode(p) PROVE ReportsTyped'
  BY <1>1, <1>2, <1>6 DEF Rename, SetMode, txn, Reports
<1>7. ASSUME NEW p \in Procs, RemoveBackup(p) \/ SyncParents(p) \/ RemoveMarker(p) \/ SyncRoot(p) PROVE ReportsTyped'
  BY <1>1, <1>2, <1>7 DEF RemoveBackup, SyncParents, RemoveMarker, SyncRoot, txn, Reports
<1>8. ASSUME NEW p \in Procs, RollbackCheck(p) \/ RollbackAct(p) \/ RollbackVerify(p) PROVE ReportsTyped'
  BY <1>2, <1>8 DEF RollbackCheck, RollbackAct, RollbackVerify, GiveUp, txn
<1>9. ASSUME NEW p \in Procs, RollbackDone(p) \/ CleanTemp(p) \/ CleanSync(p) PROVE ReportsTyped'
  <2>1. Incomplete(p) \in Reports
    BY DEF Incomplete, Reports
  <2>2. "RollbackIncomplete" \in Reports
    BY DEF Reports
  <2> QED
    BY <1>1, <1>2, <1>9, <2>1, <2>2 DEF RollbackDone, CleanTemp, CleanSync, txn
<1>10. ASSUME NEW p \in Procs, Release(p) PROVE ReportsTyped'
  <2>1. Incomplete(p) \in Reports /\ error[p] \in Reports
    BY DEF Incomplete, Reports, ReportsTyped
  <2> QED
    BY <1>1, <1>10, <2>1 DEF Release
<1>11. ASSUME NEW f \in Files, OwnerWrites(f) \/ OwnerReplaces(f) \/ OwnerDeletes(f) PROVE ReportsTyped'
  BY <1>2, <1>11 DEF OwnerWrites, OwnerReplaces, OwnerDeletes, OwnerChange, txn
<1>12. ASSUME PowerLoss \/ OwnerDisturbs \/ UNCHANGED vars PROVE ReportsTyped'
  BY <1>2, <1>12 DEF PowerLoss, OwnerDisturbs, txn, vars
<1> QED
  BY <1>3, <1>4, <1>5, <1>6, <1>7, <1>8, <1>9, <1>10, <1>11, <1>12 DEF Next, Publish

\* Where publish returns, and with what.
LEMMA ReportOf ==
    ASSUME ReportsTyped, [Next]_vars, NEW p \in Procs, outcome'[p] # outcome[p]
    PROVE  \/ CreateMarker(p) \/ SyncParents(p) \/ Release(p)
           \/ outcome'[p] \in {"Ok", "RecoveryRequired", "RollbackIncomplete"}
<1>1. ASSUME NEW q \in Procs, NEW result, Return(q, result) PROVE q = p /\ outcome'[p] = result
  BY <1>1 DEF ReportsTyped, Return
<1>2. ~UNCHANGED outcome
  OBVIOUS
<1>3. ASSUME NEW q \in Procs, Plan(q) \/ Crash(q) PROVE FALSE
  BY <1>2, <1>3 DEF Plan, Crash, txn
<1>4. ASSUME NEW q \in Procs, CreateMarker(q) PROVE q = p
  BY <1>1, <1>2, <1>4 DEF CreateMarker, txn
<1>5. ASSUME NEW q \in Procs, Prepare(q) \/ Prepared(q) \/ Preflight(q) \/ Rename(q) \/ SetMode(q) PROVE FALSE
  BY <1>2, <1>5 DEF Prepare, Prepared, Preflight, Rename, SetMode, Abandon, Fail, txn
<1>6. ASSUME NEW q \in Procs, VerifyAll(q) \/ Check(q) \/ Confirm(q) \/ Settle(q) PROVE FALSE
  <2>1. \A kind : ~Fail(q, kind)
    BY <1>2 DEF Fail
  <2> QED
    BY <1>2, <1>6, <2>1 DEF VerifyAll, Check, Confirm, Settle, txn
<1>7. ASSUME NEW q \in Procs, SyncParents(q) PROVE q = p
  BY <1>1, <1>2, <1>7 DEF SyncParents, txn
<1>8. ASSUME NEW q \in Procs, RemoveBackup(q) \/ RemoveMarker(q) \/ SyncRoot(q) PROVE outcome'[p] \in {"Ok", "RecoveryRequired"}
  BY <1>1, <1>2, <1>8 DEF RemoveBackup, RemoveMarker, SyncRoot, txn
<1>9. ASSUME NEW q \in Procs, RollbackCheck(q) \/ RollbackAct(q) \/ RollbackVerify(q) PROVE FALSE
  BY <1>2, <1>9 DEF RollbackCheck, RollbackAct, RollbackVerify, GiveUp, txn
<1>10. ASSUME NEW q \in Procs, RollbackDone(q) \/ CleanTemp(q) \/ CleanSync(q) PROVE outcome'[p] \in {"RecoveryRequired", "RollbackIncomplete"}
  <2>1. Incomplete(q) \in {"RecoveryRequired", "RollbackIncomplete"}
    BY DEF Incomplete
  <2> QED
    BY <1>1, <1>2, <1>10, <2>1 DEF RollbackDone, CleanTemp, CleanSync, txn
<1>11. ASSUME NEW q \in Procs, Release(q) PROVE q = p
  BY <1>1, <1>11 DEF Release
<1>12. ASSUME NEW f \in Files, OwnerWrites(f) \/ OwnerReplaces(f) \/ OwnerDeletes(f) PROVE FALSE
  BY <1>2, <1>12 DEF OwnerWrites, OwnerReplaces, OwnerDeletes, OwnerChange, txn
<1>13. ~(PowerLoss \/ OwnerDisturbs \/ UNCHANGED vars)
  BY <1>2 DEF PowerLoss, OwnerDisturbs, txn, vars
<1> QED
  BY <1>3, <1>4, <1>5, <1>6, <1>7, <1>8, <1>9, <1>10, <1>11, <1>12, <1>13 DEF Next, Publish

(***************************************************************************)
(* The theorems                                                            *)
(***************************************************************************)
LEMMA Starts == ASSUME Init PROVE IInv /\ ReportsTyped
<1>1. N \in Nat /\ N > 0 /\ Files = 1 .. N /\ None \notin Procs /\ None \notin File
  BY ConstantsTyped
<1>2. \A f \in Files : Original(f) \in File /\ Original(f).data[1] = "app"
  BY <1>1 DEF Original, File, Tags
<1>3. /\ dest \in [Files -> File \union {None}] /\ \A f \in Files : dest[f] = None \/ dest[f] = Original(f)
  <2>1. \A f \in Files : dest[f] \in {None, Original(f)}
    BY DEF Init
  <2>2. dest \in [Files -> {None} \union {Original(f) : f \in Files}]
    BY DEF Init
  <2> QED
    BY <1>2, <2>1, <2>2
<1>4. PICK s \in Scenarios : /\ pc = [p \in Procs |-> IF p \in s.procs THEN "idle" ELSE "done"] /\ edits = s.edits
  BY DEF Init
<1>5. edits \in Nat /\ pc \in [Procs -> Labels] /\ \A p \in Procs : pc[p] \in {"idle", "done"}
  BY <1>4, ConstantsAssumption DEF Labels
<1>6. /\ temp = [p \in Procs |-> [f \in Files |-> None]] /\ synced = [f \in Files |-> Names(f)]
      /\ \A f \in Files : synced[f].dest = dest[f] /\ \A p \in Procs : temp[p][f] = None /\ synced[f].temp[p] = None
  BY DEF Init, Names
<1>7. synced \in SyncedTypes
  <2>1. \A f \in Files : Names(f) \in [dest : File \union {None}, temp : [Procs -> File \union {None}]]
    BY <1>3, <1>6 DEF Names
  <2> HIDE DEF Names
  <2> QED
    BY <1>6, <2>1 DEF SyncedTypes
<1>8. TypeOK
  <2>1. temp \in [Procs -> [Files -> File \union {None}]] /\ synced \in [Files -> [dest : File \union {None}, temp : [Procs -> File \union {None}]]]
    BY <1>6, <1>7 DEF SyncedTypes
  <2>2. /\ marker = None /\ syncedMark = None /\ moved = FALSE /\ applied = None /\ raced = {} /\ k = [p \in Procs |-> 1]
        /\ ready = [p \in Procs |-> 0] /\ published = [p \in Procs |-> {}] /\ complete = [p \in Procs |-> TRUE]
        /\ touched = [p \in Procs \union {None} |-> {}]
        /\ op = [p \in Procs |-> [f \in Files |-> "create"]] /\ orig = [p \in Procs |-> [f \in Files |-> None]]
    BY DEF Init
  <2>3. k \in [Procs -> 0 .. N + 1] /\ ready \in [Procs -> 0 .. N]
    BY <1>1, <2>2
  <2> QED
    BY <1>3, <2>1, <2>2, <2>3 DEF TypeOK
<1>9. Plans
  BY <1>1, <1>3, <1>5 DEF Init, Plans, Phase, PlanFits, Holds, Working
<1>10. \A p \in Procs : ~Holds(p)
  BY <1>5 DEF Holds, Working
<1>11. Whole
  BY <1>6 DEF Init, Whole, CleanAt, SettledAt, Settled
<1>12. AllFresh
  <2>1. \A f \in Files : Fresh(dest[f])
    BY <1>2, <1>3 DEF Fresh
  <2> QED
    BY <1>6, <2>1 DEF Init, AllFresh, Fresh
<1>13. AllKept
  BY DEF Init, AllKept, WorkKept
<1>14. ReportsTyped
  BY DEF Init, ReportsTyped, Reports
<1> QED
  BY <1>8, <1>9, <1>10, <1>11, <1>12, <1>13, <1>14 DEF IInv, Exclusive

LEMMA StepKeeps == ASSUME IInv, ReportsTyped, Next PROVE IInv'
<1>1. ASSUME NEW p \in Procs, Publish(p) PROVE IInv'
  BY <1>1, CreateMarkerKeeps, StagingKeeps, ChecksKeep, ChangesKeep, BackupsKeep, RemoveMarkerKeeps, SyncRootKeeps,
     RollbackKeeps, CleaningKeeps, ReleaseKeeps DEF Publish
<1>2. ASSUME NEW f \in Files, OwnerWrites(f) \/ OwnerReplaces(f) \/ OwnerDeletes(f) PROVE IInv'
  <2>1. edits \in Nat /\ Written \in Tags /\ dest[f] \in File \union {None} /\ None \notin File
    <3>1. edits \in Nat /\ dest[f] \in File \union {None}
      BY DEF IInv, Plans, TypeOK
    <3> QED
      BY <3>1, ConstantsTyped DEF Written, Tags
  <2>2. CASE OwnerWrites(f)
    <3>1. PICK file : file = [dest[f] EXCEPT !.data = Written]
      OBVIOUS
    <3>2. file \in File /\ file.data = Written /\ OwnerChange(f, file)
      BY <2>1, <2>2, <3>1 DEF OwnerWrites, File
    <3> QED
      BY <3>2, OwnerKeeps
  <2>3. CASE OwnerReplaces(f)
    <3>1. PICK file : file = [ino |-> Written, data |-> Written, mode |-> "final"]
      OBVIOUS
    <3>2. file \in File /\ file.data = Written /\ OwnerChange(f, file)
      BY <2>1, <2>3, <3>1 DEF OwnerReplaces, File
    <3> QED
      BY <3>2, OwnerKeeps
  <2>4. CASE OwnerDeletes(f)
    BY <2>4, OwnerKeeps DEF OwnerDeletes
  <2> QED
    BY <1>2, <2>2, <2>3, <2>4
<1> QED
  BY <1>1, <1>2, PlanKeeps, CrashKeeps, PowerLossKeeps, DisturbedKeeps DEF Next

LEMMA StutterKeeps == ASSUME IInv, UNCHANGED vars PROVE IInv'
<1>1. TypeOK' /\ Plans' /\ Exclusive' /\ (Marked' <=> Marked)
  BY DEF IInv, TypeOK, Plans, Phase, PlanFits, Exclusive, Marked, Holds, vars
<1>2. ~Marked' => Whole'
  BY <1>1, WholeSame DEF IInv, vars
<1>3. \A q \in Procs : Holds(q)' => HolderSound(q)'
  BY SoundSame DEF IInv, Holds, vars
<1>4. AllFresh' /\ AllKept'
  BY DEF IInv, AllFresh, Fresh, AllKept, WorkKept, Here, Survives, HasData, vars
<1> QED
  BY <1>1, <1>2, <1>3, <1>4 DEF IInv

\* The inductive invariant holds of every behaviour of the publishers.
THEOREM Inductive == Spec => [](IInv /\ ReportsTyped)
<1>1. Init => IInv /\ ReportsTyped
  BY Starts
<1>2. IInv /\ ReportsTyped /\ [Next]_vars => (IInv /\ ReportsTyped)'
  BY StepKeeps, StutterKeeps, ReportsKeep
<1> QED
  BY <1>1, <1>2, PTL DEF Spec

\* Every name holds a whole file or nothing, and every process works on a change of its plan.
THEOREM TypeCorrect == Spec => []TypeOK
<1>1. IInv => TypeOK
  BY DEF IInv
<1> QED
  BY <1>1, Inductive, PTL

\* Without a marker and a running publisher the tree is what the last whole publication left, with what the
\* owner has made of it since: crashes, power losses and failures of any number of others have left nothing.
THEOREM UnmarkedIsWhole == Spec => []UnmarkedMeansWhole
<1>1. IInv => UnmarkedMeansWhole
  <2> SUFFICES ASSUME IInv, Quiet PROVE (\A p \in Procs, f \in Files : temp[p][f] = None)
                                        /\ \A f \in Files \ touched[applied] : dest[f] = Settled(f)
    BY DEF UnmarkedMeansWhole
  <2>1. Whole
    BY NoMarker DEF Quiet
  <2> QED
    BY <2>1 DEF Whole, CleanAt, SettledAt
<1> QED
  BY <1>1, Inductive, PTL

\* What the owner writes while plans are published, rolled back or abandoned is not lost.
THEOREM OwnerWorkIsKept == Spec => []OwnerWorkSurvives
<1>1. IInv => OwnerWorkSurvives
  <2> SUFFICES ASSUME IInv, NEW f \in Files, work[f] # None, f \notin raced
               PROVE  \E file \in {dest[f]} \union {temp[p][f] : p \in Procs} : file # None /\ file.data = work[f]
    BY DEF OwnerWorkSurvives
  <2>1. Here(f, work[f])
    BY DEF IInv, AllKept, WorkKept
  <2> QED
    BY <2>1 DEF Here, HasData
<1> QED
  BY <1>1, Inductive, PTL

\* publish only reports a failure without a marker when every path it had prepared is as it was found.
THEOREM FailureHasRestored == Spec => FailureRestores
<1>1. ASSUME IInv, ReportsTyped, [Next]_vars, NEW p \in Procs, outcome[p] = None,
             outcome'[p] \notin {None, "Ok", "RecoveryRequired", "RollbackIncomplete"}, marker' = None,
             NEW f \in 1 .. ready[p], f \notin touched[p]
      PROVE  dest'[f] = orig[p][f]
  <2>1. CreateMarker(p) \/ SyncParents(p) \/ Release(p)
    BY <1>1, ReportOf
  <2>2. CASE CreateMarker(p)
    <3>1. ready[p] = 0
      BY <1>1, <2>2 DEF CreateMarker, IInv, Plans, Phase
    <3> QED
      BY <1>1, <3>1
  <2>3. CASE SyncParents(p)
    <3>1. Holds(p) /\ UNCHANGED marker
      BY <2>3 DEF SyncParents, Holds, Working
    <3> QED
      BY <1>1, <3>1, NoMarker
  <2>4. CASE Release(p)
    <3>1. Holds(p) /\ pc[p] \in {"rbRelease", "discardRelease"} /\ UNCHANGED dest
      BY <2>4 DEF Release, Holds, Working
    <3>2. error[p] # "RecoveryRequired"
      <4>1. CASE error[p] = "RecoveryRequired"
        <5>1. UNCHANGED marker
          BY <2>4, <4>1 DEF Release
        <5> QED
          BY <1>1, <3>1, <5>1, NoMarker
      <4> QED
        BY <4>1
    <3> QED
      BY <1>1, <3>1, <3>2, RestoredWhole
  <2> QED
    BY <2>1, <2>2, <2>3, <2>4
<1>2. IInv /\ ReportsTyped /\ [Next]_vars =>
      [\A p \in Procs :
         outcome[p] = None /\ outcome'[p] \notin {None, "Ok", "RecoveryRequired", "RollbackIncomplete"}
           /\ marker' = None
         => \A f \in (1 .. ready[p]) \ touched[p] : dest'[f] = orig[p][f]]_vars
  BY <1>1
<1> QED
  BY <1>2, Inductive, PTL DEF Spec, FailureRestores
=============================================================================
