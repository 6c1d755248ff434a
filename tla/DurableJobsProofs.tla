------------------------- MODULE DurableJobsProofs -------------------------
(***************************************************************************)
(* Proofs about DurableJobs for every set of messages and workers, every   *)
(* lease length and every number of faults.                                *)
(***************************************************************************)
EXTENDS DurableJobs, FiniteSetTheorems, TLAPS

USE DEF Unlocked, MaxWait

\* The back-off of mark_failed stays inside the range the type invariant allows.
LEMMA RetrySecondsBounded ==
    ASSUME NEW n \in Nat
    PROVE  RetrySeconds(n) \in 0 .. MaxWait
<1> DEFINE e == IF n < 1 THEN 1 ELSE IF n > 8 THEN 8 ELSE n
<1>1. e \in 1 .. 8
    OBVIOUS
<1>2. \A i \in 1 .. 8 : PowersOfTwo[i] \in 2 .. 256
    BY DEF PowersOfTwo
<1>3. PowersOfTwo[e] \in 2 .. 256
    BY <1>1, <1>2
<1> QED
    BY <1>3 DEF RetrySeconds

\* The shape of the worker records that the pc determines.
WorkerOK ==
    \A w \in Workers :
        /\ pc[w] \in {"idle", "panicked"} => batch[w] = {}
        /\ pc[w] \in {"handle", "complete", "fail"} => current[w] \in Claims

\* Every claim in flight is of a row that exists.
HeldQueued == \A w \in Workers : \A c \in Held(w) : c.id \in queued

TypeInv == TypeOK /\ WorkerOK /\ HeldQueued

\* Only claim hands out claims; every other step keeps or drops them.
LEMMA HeldShrinks ==
    ASSUME TypeInv, [Next]_vars, NEW v \in Workers, ~ \E w \in Workers : Claim(w)
    PROVE  Held(v)' \subseteq Held(v)
<1> USE DEF TypeInv, TypeOK, WorkerOK, Held
<1>1. CASE EnqueueAny
    BY <1>1 DEF EnqueueAny, Enqueue, loops
<1>2. ASSUME NEW n \in Names, NEW k \in Keys, EnqueueDuplicate(n, k)
      PROVE  Held(v)' \subseteq Held(v)
    BY <1>2 DEF EnqueueDuplicate, vars
<1>3. CASE Tick
    BY <1>3 DEF Tick, loops
<1>4. ASSUME NEW w \in Workers, ProcessNext(w)
      PROVE  Held(v)' \subseteq Held(v)
    BY <1>4 DEF ProcessNext, Disposition
<1>5. ASSUME NEW w \in Workers, FinishBatch(w) \/ DatabaseError(w) \/ HandlerPanic(w) \/ Crash(w)
      PROVE  Held(v)' \subseteq Held(v)
    BY <1>5 DEF FinishBatch, DatabaseError, HandlerPanic, Crash, Drop
<1>6. ASSUME NEW w \in Workers, HandlerOk(w) \/ HandlerErr(w)
      PROVE  Held(v)' \subseteq Held(v)
    BY <1>6 DEF HandlerOk, HandlerErr
<1>7. ASSUME NEW w \in Workers, MarkCompleted(w) \/ MarkFailed(w)
      PROVE  Held(v)' \subseteq Held(v)
    BY <1>7 DEF MarkCompleted, MarkFailed, AfterMark, Drop
<1>8. CASE UNCHANGED vars
    BY <1>8 DEF vars
<1> QED
    BY <1>1, <1>2, <1>3, <1>4, <1>5, <1>6, <1>7, <1>8 DEF Next, WorkerStep

\* What a claim changes: the claimer holds the new batch, everybody else what
\* they held before.
LEMMA HeldAfterClaim ==
    ASSUME TypeInv, NEW w \in Workers, Claim(w)
    PROVE  /\ \A v \in Workers : v # w => Held(v)' = Held(v)
           /\ \A c \in Held(w)' : /\ c \in Claims
                                  /\ Claimable(c.id)
                                  /\ c.attempts = attempts[c.id] + 1
                                  /\ attempts'[c.id] = attempts[c.id] + 1
                                  /\ lockAge'[c.id] = 0
<1> USE DEF TypeInv, TypeOK, WorkerOK
<1>1. PICK S \in SUBSET Jobs :
        /\ FirstDue(S)
        /\ attempts' = [j \in Jobs |-> IF j \in S THEN attempts[j] + 1 ELSE attempts[j]]
        /\ lockAge' = [j \in Jobs |-> IF j \in S THEN 0 ELSE lockAge[j]]
        /\ pc' = [pc EXCEPT ![w] = "next"]
        /\ batch' = [batch EXCEPT ![w] = {[id |-> j, attempts |-> attempts[j] + 1] : j \in S}]
        /\ current' = current
    BY DEF Claim
<1>2. \A j \in S : Claimable(j)
    BY <1>1 DEF FirstDue
<1>3. \A v \in Workers : v # w => Held(v)' = Held(v)
    BY <1>1 DEF Held
<1>4. Held(w)' = {[id |-> j, attempts |-> attempts[j] + 1] : j \in S}
    BY <1>1 DEF Held
<1>5. ASSUME NEW c \in Held(w)'
      PROVE  /\ c \in Claims /\ Claimable(c.id) /\ c.attempts = attempts[c.id] + 1
             /\ attempts'[c.id] = attempts[c.id] + 1 /\ lockAge'[c.id] = 0
    <2>1. PICK j \in S : c = [id |-> j, attempts |-> attempts[j] + 1]
        BY <1>4
    <2> QED
        BY <2>1, <1>1, <1>2 DEF Claims
<1> QED
    BY <1>3, <1>5

\* The type invariant, together with what the program counters imply about the
\* claims a worker carries, is preserved by every step of the queue and worker.
LEMMA TypeInvariant == Spec => []TypeInv
<1> USE DEF TypeInv, TypeOK, WorkerOK
<1>1. Init => TypeInv
    <2> SUFFICES ASSUME Init PROVE TypeInv
        OBVIOUS
    <2>1. TypeOK
        BY ConstantsAssumption DEF Init, LockAges, Claims
    <2>2. WorkerOK /\ HeldQueued
        BY DEF Init, HeldQueued, Held
    <2> QED
        BY <2>1, <2>2
<1>2. TypeInv /\ [Next]_vars => TypeInv'
    <2> SUFFICES ASSUME TypeInv, [Next]_vars PROVE TypeInv'
        OBVIOUS
    <2>h. HeldQueued'
        <3>1. queued \subseteq queued'
            BY DEF Next, EnqueueAny, Enqueue, EnqueueDuplicate, WorkerStep, Claim, ProcessNext,
                   FinishBatch, HandlerOk, HandlerErr, MarkCompleted, MarkFailed, DatabaseError,
                   HandlerPanic, Crash, Tick, vars, rows
        <3>2. CASE \E w \in Workers : Claim(w)
            BY <3>1, <3>2, HeldAfterClaim DEF HeldQueued, Claimable
        <3>3. CASE ~ \E w \in Workers : Claim(w)
            BY <3>1, <3>3, HeldShrinks DEF HeldQueued
        <3> QED
            BY <3>2, <3>3
    <2>1. CASE EnqueueAny
        BY <2>1, <2>h, ConstantsAssumption DEF EnqueueAny, Enqueue, history, loops
    <2>2. ASSUME NEW n \in Names, NEW k \in Keys, EnqueueDuplicate(n, k)
          PROVE  TypeInv'
        BY <2>2, <2>h DEF EnqueueDuplicate, vars
    <2>3. CASE Tick
        <3>1. wait' \in [Jobs -> 0 .. MaxWait] /\ lockAge' \in [Jobs -> LockAges]
            BY <2>3, ConstantsAssumption DEF Tick, LockAges
        <3> QED
            BY <2>3, <2>h, <3>1 DEF Tick, loops
    <2>4. ASSUME NEW w \in Workers, Claim(w)
          PROVE  TypeInv'
        <3>1. attempts' \in [Jobs -> Nat] /\ lockAge' \in [Jobs -> LockAges]
            BY <2>4, ConstantsAssumption DEF Claim, LockAges
        <3>2. lockOwner' \in [Jobs -> (Workers \X Nat) \union {Null}]
            BY <2>4 DEF Claim, OwnerId
        <3> QED
            BY <2>4, <2>h, <3>1, <3>2 DEF Claim, Claims, history
    <2>5. ASSUME NEW w \in Workers, ProcessNext(w)
          PROVE  TypeInv'
        BY <2>5, <2>h DEF ProcessNext, Disposition, rows, Claims
    <2>6. ASSUME NEW w \in Workers, FinishBatch(w) \/ DatabaseError(w) \/ HandlerPanic(w) \/ Crash(w)
          PROVE  TypeInv'
        <3>1. /\ UNCHANGED <<rows, inbox, history>>
              /\ Drop(w, "idle") \/ Drop(w, "panicked")
              /\ life' \in [Workers -> Nat]
              /\ faults' \in 0 .. MaxFaults
            BY <2>6, ConstantsAssumption DEF FinishBatch, DatabaseError, HandlerPanic, Crash
        <3>2. UNCHANGED <<queued, name, key, attempts, max, wait, older, lockAge, lockOwner,
                          processed, errored, inbox, runs, succeeded, overran>>
            BY <3>1 DEF rows, history
        <3> QED
            BY <3>1, <3>2, <2>h DEF Drop
    <2>7. ASSUME NEW w \in Workers, HandlerOk(w) \/ HandlerErr(w)
          PROVE  TypeInv'
        BY <2>7, <2>h DEF HandlerOk, HandlerErr, rows, loops, history, HeldQueued, Held
    <2>8. ASSUME NEW w \in Workers, MarkCompleted(w)
          PROVE  TypeInv'
        <3>1. current[w].id \in queued /\ current[w] \in Claims
            BY <2>8 DEF MarkCompleted, HeldQueued, Held
        <3>l. Unlocked \in LockAges
            BY ConstantsAssumption DEF LockAges
        <3>a. /\ lockAge' \in [Jobs -> LockAges]
              /\ lockOwner' \in [Jobs -> (Workers \X Nat) \union {Null}]
            BY <2>8, <3>l DEF MarkCompleted
        <3>b. /\ inbox' \subseteq Names \X Jobs
              /\ processed' \subseteq queued'
              /\ errored' \subseteq queued'
            BY <2>8, <3>1 DEF MarkCompleted, Claims
        <3>c. /\ pc' \in [Workers -> {"idle", "next", "handle", "complete", "fail", "panicked"}]
              /\ batch' \in [Workers -> SUBSET Claims]
              /\ current' \in [Workers -> Claims \union {NoClaim}]
            BY <2>8 DEF MarkCompleted, AfterMark, Drop
        <3>2. TypeOK'
            BY <2>8, <3>a, <3>b, <3>c DEF MarkCompleted, history
        <3>3. WorkerOK'
            BY <2>8 DEF MarkCompleted, AfterMark, Drop
        <3> QED
            BY <2>h, <3>2, <3>3
    <2>9. ASSUME NEW w \in Workers, MarkFailed(w)
          PROVE  TypeInv'
        <3>1. current[w].id \in queued /\ current[w] \in Claims
            BY <2>9 DEF MarkFailed, HeldQueued, Held
        <3>2. RetrySeconds(current[w].attempts) \in 0 .. MaxWait
            BY <3>1, RetrySecondsBounded DEF Claims
        <3>l. Unlocked \in LockAges
            BY ConstantsAssumption DEF LockAges
        <3>a. /\ lockAge' \in [Jobs -> LockAges]
              /\ lockOwner' \in [Jobs -> (Workers \X Nat) \union {Null}]
            BY <2>9, <3>l DEF MarkFailed
        <3>b. /\ errored' \subseteq queued'
              /\ wait' \in [Jobs -> 0 .. MaxWait]
              /\ older' \subseteq Jobs \X Jobs
            BY <2>9, <3>1, <3>2 DEF MarkFailed, Claims
        <3>c. /\ pc' \in [Workers -> {"idle", "next", "handle", "complete", "fail", "panicked"}]
              /\ batch' \in [Workers -> SUBSET Claims]
              /\ current' \in [Workers -> Claims \union {NoClaim}]
            BY <2>9 DEF MarkFailed, AfterMark, Drop
        <3>3. TypeOK'
            BY <2>9, <3>a, <3>b, <3>c DEF MarkFailed, history
        <3>4. WorkerOK'
            BY <2>9 DEF MarkFailed, AfterMark, Drop
        <3> QED
            BY <2>h, <3>3, <3>4
    <2>10. CASE UNCHANGED vars
        BY <2>10, <2>h DEF vars
    <2> QED
        BY <2>1, <2>2, <2>3, <2>4, <2>5, <2>6, <2>7, <2>8, <2>9, <2>10 DEF Next, WorkerStep
<1> QED
    BY <1>1, <1>2, PTL DEF Spec

\* Every column and loop variable keeps its domain in every reachable state of
\* the queue: the instance of TypeInvariant that the runs check.
THEOREM TypeCorrect == Spec => []TypeOK
<1>1. TypeInv => TypeOK
    BY DEF TypeInv
<1> QED
    BY <1>1, TypeInvariant, PTL

-----------------------------------------------------------------------------
(* Completion.  ProcessedIffInbox and ProcessedOnlyAfterSuccess are not    *)
(* inductive: a worker that is about to mark a message completed must have *)
(* seen a handler succeed, and inbox rows must carry the name of their     *)
(* message.                                                                *)

\* An inbox row belongs to an existing message and carries its name.
InboxRows == \A p \in inbox : p[2] \in queued /\ p[1] = name[p[2]]

\* A worker about to complete a message knows that a handler returned Ok.
CompleteJustified == \A w \in Workers : pc[w] = "complete" => current[w].id \in succeeded

CompletionInv ==
    /\ InboxRows
    /\ ProcessedIffInbox
    /\ ProcessedOnlyAfterSuccess
    /\ CompleteJustified

\* Every step keeps completion atomic and justified: only mark_completed extends the
\* inbox, and a worker reaches it through a handler's Ok or an inbox record.
LEMMA CompletionStep ==
    ASSUME TypeInv, CompletionInv, [Next]_vars
    PROVE  CompletionInv'
<1> USE DEF TypeInv, TypeOK, WorkerOK, CompletionInv, InboxRows, ProcessedIffInbox,
            ProcessedOnlyAfterSuccess, CompleteJustified
<1>1. ASSUME NEW j \in Jobs, NEW n \in Names, NEW k \in Keys \union {Null},
             NEW m \in MaxAttemptsOptions, Enqueue(j, n, k, m)
      PROVE  CompletionInv'
    <2>1. \A p \in inbox : p[2] # j
        BY <1>1 DEF Enqueue
    <2>2. <<n, j>> \notin inbox /\ j \notin processed
        BY <1>1, <2>1 DEF Enqueue
    <2> QED
        BY <1>1, <2>1, <2>2 DEF Enqueue, loops, history
<1>2. ASSUME NEW n \in Names, NEW k \in Keys, EnqueueDuplicate(n, k)
      PROVE  CompletionInv'
    BY <1>2 DEF EnqueueDuplicate, vars
<1>3. CASE Tick
    BY <1>3 DEF Tick, loops
<1>4. ASSUME NEW w \in Workers, Claim(w)
      PROVE  CompletionInv'
    BY <1>4 DEF Claim, history
<1>5. ASSUME NEW w \in Workers, ProcessNext(w)
      PROVE  CompletionInv'
    <2>1. PICK c \in batch[w] :
            /\ pc' = [pc EXCEPT ![w] = Disposition(c)]
            /\ current' = [current EXCEPT ![w] = c]
        BY <1>5 DEF ProcessNext
    <2>2. c.id \in Jobs
        BY DEF Claims
    <2>3. pc'[w] = "complete" => c.id \in processed
        BY <2>1, <2>2 DEF Disposition
    <2> QED
        BY <1>5, <2>1, <2>2, <2>3 DEF ProcessNext, rows
<1>6. ASSUME NEW w \in Workers, FinishBatch(w) \/ DatabaseError(w) \/ HandlerPanic(w) \/ Crash(w)
      PROVE  CompletionInv'
    BY <1>6 DEF FinishBatch, DatabaseError, HandlerPanic, Crash, Drop, rows, history
<1>7. ASSUME NEW w \in Workers, HandlerOk(w) \/ HandlerErr(w)
      PROVE  CompletionInv'
    BY <1>7 DEF HandlerOk, HandlerErr, rows, history
<1>8. ASSUME NEW w \in Workers, MarkCompleted(w)
      PROVE  CompletionInv'
    <2> DEFINE j == current[w].id
    <2>0. current[w] \in Held(w)
        BY <1>8 DEF MarkCompleted, Held
    <2>1. j \in queued /\ j \in Jobs /\ j \in succeeded
        BY <1>8, <2>0 DEF MarkCompleted, HeldQueued
    <2>2. /\ inbox' = inbox \union {<<name[j], j>>}
          /\ processed' = processed \union {j}
          /\ UNCHANGED <<queued, name, succeeded>>
        BY <1>8 DEF MarkCompleted, history
    <2>3. /\ InboxRows'
          /\ \A i \in Jobs : i \in processed' <=> <<name[i], i>> \in inbox'
          /\ ProcessedOnlyAfterSuccess'
        BY <2>1, <2>2
    <2>4. CompleteJustified'
        BY <1>8, <2>2 DEF MarkCompleted, AfterMark, Drop
    <2> QED
        BY <2>2, <2>3, <2>4
<1>9. ASSUME NEW w \in Workers, MarkFailed(w)
      PROVE  CompletionInv'
    BY <1>9 DEF MarkFailed, AfterMark, Drop, history
<1>10. CASE UNCHANGED vars
    BY <1>10 DEF vars
<1> QED
    BY <1>1, <1>2, <1>3, <1>4, <1>5, <1>6, <1>7, <1>8, <1>9, <1>10
    DEF Next, EnqueueAny, WorkerStep

\* What completion rests on holds in every reachable state (mark_completed, process).
THEOREM CompletionInvariant == Spec => []CompletionInv
<1>1. Init => CompletionInv
    BY DEF Init, CompletionInv, InboxRows, ProcessedIffInbox, ProcessedOnlyAfterSuccess,
           CompleteJustified
<1>2. TypeInv /\ CompletionInv /\ [Next]_vars => CompletionInv'
    BY CompletionStep
<1> QED
    BY <1>1, <1>2, TypeInvariant, PTL DEF Spec

\* A message is marked processed exactly when its inbox record exists, and only
\* after a handler returned Ok for it, whatever crashes, lost leases and lost
\* answers happen in between (mark_completed, process).
THEOREM CompletionCorrect == Spec => [](ProcessedIffInbox /\ ProcessedOnlyAfterSuccess)
<1>1. CompletionInv => ProcessedIffInbox /\ ProcessedOnlyAfterSuccess
    BY DEF CompletionInv
<1> QED
    BY <1>1, CompletionInvariant, PTL

-----------------------------------------------------------------------------
(* Leases.                                                                 *)

\* A claim carries the attempt number its claim statement wrote, so no claim in
\* flight is ahead of its row.
TokensBehindRow == \A w \in Workers : \A c \in Held(w) : c.attempts <= attempts[c.id]

\* As long as no lease on j ran out under a live holder, a holder of j is
\* covered by a lock that no claim statement can take over.
LeaseCovers ==
    \A w \in Workers, j \in Jobs :
        HoldsJob(w, j) /\ j \notin overran => lockAge[j] \in 0 .. LockTimeout

\* A worker holds at most one claim of a message.
OneClaimEach ==
    \A w \in Workers :
        /\ \A c, d \in batch[w] : c.id = d.id => c = d
        /\ pc[w] \in {"handle", "complete", "fail"} =>
               \A c \in batch[w] : c.id # current[w].id

\* The attempt number a claim carries is a fencing token: two claims of one
\* message that are in flight at the same time never carry the same number.
ClaimTokensDistinct ==
    \A v, w \in Workers : v # w =>
        \A c \in Held(v), d \in Held(w) : c.id = d.id => c.attempts # d.attempts

LeaseInv ==
    /\ OneClaimEach
    /\ TokensBehindRow
    /\ ClaimTokensDistinct
    /\ LeaseCovers
    /\ OverlapOnlyAfterOverrun

\* Every step keeps a worker from holding two claims of one message: claim picks
\* each row once, and the message being processed has left the batch.
LEMMA OneClaimEachStep ==
    ASSUME TypeInv, OneClaimEach, [Next]_vars
    PROVE  OneClaimEach'
<1> USE DEF TypeInv, TypeOK, WorkerOK, OneClaimEach
<1>1. CASE EnqueueAny \/ Tick \/ UNCHANGED vars
    BY <1>1 DEF EnqueueAny, Enqueue, Tick, loops, vars
<1>2. ASSUME NEW n \in Names, NEW k \in Keys, EnqueueDuplicate(n, k)
      PROVE  OneClaimEach'
    BY <1>2 DEF EnqueueDuplicate, vars
<1>3. ASSUME NEW w \in Workers, Claim(w)
      PROVE  OneClaimEach'
    BY <1>3 DEF Claim
<1>4. ASSUME NEW w \in Workers, ProcessNext(w)
      PROVE  OneClaimEach'
    BY <1>4 DEF ProcessNext
<1>5. ASSUME NEW w \in Workers, FinishBatch(w) \/ DatabaseError(w) \/ HandlerPanic(w) \/ Crash(w)
      PROVE  OneClaimEach'
    BY <1>5 DEF FinishBatch, DatabaseError, HandlerPanic, Crash, Drop
<1>6. ASSUME NEW w \in Workers, HandlerOk(w) \/ HandlerErr(w)
      PROVE  OneClaimEach'
    BY <1>6 DEF HandlerOk, HandlerErr
<1>7. ASSUME NEW w \in Workers, MarkCompleted(w) \/ MarkFailed(w)
      PROVE  OneClaimEach'
    BY <1>7 DEF MarkCompleted, MarkFailed, AfterMark, Drop
<1> QED
    BY <1>1, <1>2, <1>3, <1>4, <1>5, <1>6, <1>7 DEF Next, WorkerStep

\* claim keeps the lease invariant: a row it takes is unlocked, so nobody holds it
\* unless its lease ran out, and its new attempt number exceeds every earlier one.
LEMMA LeaseClaimStep ==
    ASSUME TypeInv, LeaseInv, NEW w \in Workers, Claim(w)
    PROVE  LeaseInv'
<1>1. \A v \in Workers : v # w => Held(v)' = Held(v)
    BY HeldAfterClaim
<1>2. \A c \in Held(w)' : /\ c \in Claims /\ Claimable(c.id)
                          /\ c.attempts = attempts[c.id] + 1
                          /\ attempts'[c.id] = attempts[c.id] + 1
                          /\ lockAge'[c.id] = 0
    BY HeldAfterClaim
<1>3. /\ \A j \in Jobs : attempts'[j] \in {attempts[j], attempts[j] + 1}
      /\ \A j \in Jobs : lockAge'[j] \in {lockAge[j], 0}
      /\ overran' = overran
    BY DEF Claim, history, TypeInv, TypeOK
<1>4. \A v \in Workers : \A c \in Held(v) : c \in Claims
    BY DEF TypeInv, TypeOK, WorkerOK, Held
<1>5. TokensBehindRow'
    BY <1>1, <1>2, <1>3, <1>4 DEF LeaseInv, TokensBehindRow, TypeInv, TypeOK, Claims
<1>6. ClaimTokensDistinct'
    <2> SUFFICES ASSUME NEW u \in Workers, NEW v \in Workers, u # v,
                        NEW c \in Held(u)', NEW d \in Held(v)', c.id = d.id
                 PROVE  c.attempts # d.attempts
        BY DEF ClaimTokensDistinct
    <2>1. CASE u # w /\ v # w
        BY <2>1, <1>1 DEF LeaseInv, ClaimTokensDistinct
    <2>2. CASE u = w
        BY <2>2, <1>1, <1>2, <1>4 DEF LeaseInv, TokensBehindRow, TypeInv, TypeOK, Claims
    <2>3. CASE v = w
        BY <2>3, <1>1, <1>2, <1>4 DEF LeaseInv, TokensBehindRow, TypeInv, TypeOK, Claims
    <2> QED
        BY <2>1, <2>2, <2>3
<1>7. LeaseCovers'
    <2> SUFFICES ASSUME NEW v \in Workers, NEW j \in Jobs, HoldsJob(v, j)', j \notin overran
                 PROVE  lockAge'[j] \in 0 .. LockTimeout
        BY <1>3 DEF LeaseCovers
    <2>1. CASE v = w
        BY <2>1, <1>2, ConstantsAssumption DEF HoldsJob
    <2>2. CASE v # w
        <3>1. lockAge[j] \in 0 .. LockTimeout
            BY <2>2, <1>1 DEF LeaseInv, LeaseCovers, HoldsJob
        <3> QED
            BY <3>1, <1>3, ConstantsAssumption
    <2> QED
        BY <2>1, <2>2
<1>8. OverlapOnlyAfterOverrun'
    <2> SUFFICES ASSUME NEW u \in Workers, NEW v \in Workers, u # v, NEW j \in Jobs,
                        HoldsJob(u, j)', HoldsJob(v, j)', j \notin overran
                 PROVE  FALSE
        BY <1>3 DEF OverlapOnlyAfterOverrun
    <2>1. \A x \in Workers : x # w /\ HoldsJob(x, j)' => lockAge[j] \in 0 .. LockTimeout
        BY <1>1 DEF LeaseInv, LeaseCovers, HoldsJob
    <2>2. HoldsJob(w, j)' => Claimable(j)
        BY <1>2 DEF HoldsJob
    <2>3. CASE u # w /\ v # w
        BY <2>3, <1>1 DEF LeaseInv, OverlapOnlyAfterOverrun, HoldsJob
    <2>4. CASE u = w \/ v = w
        BY <2>1, <2>2, <2>4, ConstantsAssumption DEF Claimable
    <2> QED
        BY <2>3, <2>4
<1> QED
    BY <1>5, <1>6, <1>7, <1>8, OneClaimEachStep DEF LeaseInv, Next, WorkerStep

\* Steps that hand out no claim: claims only disappear, attempts do not change,
\* and a lock is only released by a worker that drops its claim on the message.
LEMMA LeaseOtherStep ==
    ASSUME TypeInv, LeaseInv, [Next]_vars, ~ \E w \in Workers : Claim(w)
    PROVE  LeaseInv'
<1>1. \A v \in Workers : Held(v)' \subseteq Held(v)
    BY HeldShrinks
<1>2. \A v \in Workers : \A c \in Held(v) : c \in Claims
    BY DEF TypeInv, TypeOK, WorkerOK, Held
<1>3. attempts' = attempts /\ overran \subseteq overran'
    BY DEF Next, EnqueueAny, Enqueue, EnqueueDuplicate, WorkerStep, ProcessNext, FinishBatch,
           HandlerOk, HandlerErr, MarkCompleted, MarkFailed, DatabaseError, HandlerPanic, Crash,
           Tick, vars, rows, history
<1>4. TokensBehindRow'
    BY <1>1, <1>3 DEF LeaseInv, TokensBehindRow
<1>5. ClaimTokensDistinct'
    BY <1>1 DEF LeaseInv, ClaimTokensDistinct
<1>6. OverlapOnlyAfterOverrun'
    BY <1>1, <1>3 DEF LeaseInv, OverlapOnlyAfterOverrun, HoldsJob
<1>7. LeaseCovers'
    <2> SUFFICES ASSUME NEW v \in Workers, NEW j \in Jobs, HoldsJob(v, j)', j \notin overran'
                 PROVE  lockAge'[j] \in 0 .. LockTimeout
        BY DEF LeaseCovers
    <2>1. HoldsJob(v, j) /\ j \notin overran
        BY <1>1, <1>3 DEF HoldsJob
    <2>2. lockAge[j] \in 0 .. LockTimeout
        BY <2>1 DEF LeaseInv, LeaseCovers
    <2>3. CASE Tick
        <3>1. lockAge[j] # LockTimeout
            BY <2>1, <2>3 DEF Tick
        <3> QED
            BY <2>2, <2>3, <3>1, ConstantsAssumption DEF Tick
    <2>4. ASSUME NEW w \in Workers, MarkCompleted(w) \/ MarkFailed(w)
          PROVE  lockAge'[j] \in 0 .. LockTimeout
        <3>1. HoldsJob(w, current[w].id)
            BY <2>4 DEF HoldsJob, Held, MarkCompleted, MarkFailed
        <3>2. CASE current[w].id # j
            BY <2>2, <2>4, <3>2 DEF MarkCompleted, MarkFailed, TypeInv, TypeOK
        <3>3. CASE current[w].id = j /\ v # w
            BY <2>1, <3>1, <3>3 DEF LeaseInv, OverlapOnlyAfterOverrun
        <3>4. CASE current[w].id = j /\ v = w
            <4>1. ~ HoldsJob(w, j)'
                BY <2>4, <3>4 DEF LeaseInv, OneClaimEach, HoldsJob, Held, MarkCompleted, MarkFailed,
                                  AfterMark, Drop, TypeInv, TypeOK
            <4> QED
                BY <3>4, <4>1
        <3> QED
            BY <3>2, <3>3, <3>4
    <2>5. CASE lockAge' = lockAge
        BY <2>2, <2>5
    <2> QED
        BY <2>3, <2>4, <2>5
        DEF Next, EnqueueAny, Enqueue, EnqueueDuplicate, WorkerStep, ProcessNext, FinishBatch,
            HandlerOk, HandlerErr, DatabaseError, HandlerPanic, Crash, vars, rows
<1> QED
    BY <1>4, <1>5, <1>6, <1>7, OneClaimEachStep DEF LeaseInv

\* Claims in flight carry distinct attempt numbers, and two workers work on one
\* message at the same time only after a lease on it ran out under a live
\* holder (claim, mark_completed and mark_failed).
THEOREM LeasesExclusive == Spec => [](ClaimTokensDistinct /\ OverlapOnlyAfterOverrun)
<1>1. Init => LeaseInv
    BY DEF Init, LeaseInv, OneClaimEach, TokensBehindRow, ClaimTokensDistinct, LeaseCovers,
           OverlapOnlyAfterOverrun, Held, HoldsJob
<1>2. TypeInv /\ LeaseInv /\ [Next]_vars => LeaseInv'
    BY LeaseClaimStep, LeaseOtherStep
<1>3. LeaseInv => ClaimTokensDistinct /\ OverlapOnlyAfterOverrun
    BY DEF LeaseInv
<1> QED
    BY <1>1, <1>2, <1>3, TypeInvariant, PTL DEF Spec

-----------------------------------------------------------------------------
(* Attempts.  Every handler run uses up one claim; the claims of a message *)
(* still waiting in batches are counted by the workers that hold them.     *)

Pending(j) == {w \in Workers : \E c \in batch[w] : c.id = j}

AttemptsInv ==
    /\ \A j \in Jobs : runs[j] + Cardinality(Pending(j)) <= attempts[j]
    /\ \A j \in Jobs : attempts[j] <= max[j]
    /\ \A j \in Jobs \ queued : attempts[j] = 0

\* The claims in flight on one message, at most one per worker, are finitely many.
LEMMA PendingFinite ==
    ASSUME NEW j
    PROVE  IsFiniteSet(Pending(j)) /\ Cardinality(Pending(j)) \in Nat
<1>1. Pending(j) \subseteq Workers
    BY DEF Pending
<1>2. IsFiniteSet(Pending(j))
    BY <1>1, ConstantsAssumption, FS_Subset
<1> QED
    BY <1>2, FS_CardinalityType

\* Batches that only lose claims cannot raise the count.
LEMMA PendingShrinks ==
    ASSUME NEW j, \A w \in Workers : batch'[w] \subseteq batch[w]
    PROVE  Cardinality(Pending(j)') <= Cardinality(Pending(j)) /\ Cardinality(Pending(j)') \in Nat
<1>1. Pending(j)' \subseteq Pending(j)
    BY DEF Pending
<1>2. IsFiniteSet(Pending(j)')
    BY <1>1, PendingFinite, FS_Subset
<1> QED
    BY <1>1, <1>2, PendingFinite, FS_Subset, FS_CardinalityType

\* claim raises the attempts of a row and its claims in flight by one each, and
\* only below max_attempts.
LEMMA AttemptsClaimStep ==
    ASSUME TypeInv, AttemptsInv, NEW w \in Workers, Claim(w)
    PROVE  AttemptsInv'
<1> USE DEF TypeInv, TypeOK, WorkerOK
<1>1. PICK S \in SUBSET Jobs :
        /\ FirstDue(S)
        /\ attempts' = [j \in Jobs |-> IF j \in S THEN attempts[j] + 1 ELSE attempts[j]]
        /\ batch' = [batch EXCEPT ![w] = {[id |-> j, attempts |-> attempts[j] + 1] : j \in S}]
    BY DEF Claim
<1>2. \A j \in S : Claimable(j)
    BY <1>1 DEF FirstDue
<1>3. runs' = runs /\ max' = max /\ queued' = queued /\ batch[w] = {}
    BY DEF Claim, history
<1>4. ASSUME NEW j \in Jobs
      PROVE  runs'[j] + Cardinality(Pending(j)') <= attempts'[j]
    <2>1. CASE j \in S
        <3>0. /\ [id |-> j, attempts |-> attempts[j] + 1] \in batch'[w]
              /\ \A v \in Workers : v # w => batch'[v] = batch[v]
            BY <1>1, <2>1
        <3>1. Pending(j)' = Pending(j) \union {w} /\ w \notin Pending(j)
            BY <1>3, <3>0 DEF Pending
        <3>2. Cardinality(Pending(j)') = Cardinality(Pending(j)) + 1
            <4>1. IsFiniteSet(Pending(j))
                BY PendingFinite
            <4>2. Cardinality(Pending(j) \union {w}) = Cardinality(Pending(j)) + 1
                BY <3>1, <4>1, FS_AddElement
            <4> QED
                BY <3>1, <4>2
        <3>3. attempts'[j] = attempts[j] + 1 /\ runs'[j] = runs[j]
            BY <1>1, <1>3, <2>1
        <3> QED
            BY <3>2, <3>3, PendingFinite DEF AttemptsInv
    <2>2. CASE j \notin S
        <3>1. Pending(j)' = Pending(j)
            BY <1>1, <1>3, <2>2 DEF Pending
        <3> QED
            BY <1>1, <1>3, <2>2, <3>1 DEF AttemptsInv
    <2> QED
        BY <2>1, <2>2
<1>5. \A j \in Jobs : attempts'[j] <= max'[j]
    BY <1>1, <1>2, <1>3 DEF AttemptsInv, Claimable
<1>6. \A j \in Jobs \ queued' : attempts'[j] = 0
    BY <1>1, <1>2, <1>3 DEF AttemptsInv, Claimable
<1> QED
    BY <1>4, <1>5, <1>6 DEF AttemptsInv

\* Starting a handler turns one claim that has not been run into a run.
LEMMA AttemptsProcessStep ==
    ASSUME TypeInv, OneClaimEach, AttemptsInv, NEW w \in Workers, ProcessNext(w)
    PROVE  AttemptsInv'
<1> USE DEF TypeInv, TypeOK
<1>1. PICK c \in batch[w] :
        /\ batch' = [batch EXCEPT ![w] = @ \ {c}]
        /\ runs' = IF Disposition(c) = "handle" THEN [runs EXCEPT ![c.id] = @ + 1] ELSE runs
    BY DEF ProcessNext
<1>2. attempts' = attempts /\ max' = max /\ queued' = queued
    BY DEF ProcessNext, rows
<1>3. c.id \in Jobs
    BY DEF Claims
<1>4. ASSUME NEW j \in Jobs
      PROVE  runs'[j] + Cardinality(Pending(j)') <= attempts[j]
    <2>1. CASE j = c.id
        <3>0. /\ \A d \in batch'[w] : d.id # j
              /\ \A v \in Workers : v # w => batch'[v] = batch[v]
            BY <1>1, <2>1 DEF OneClaimEach
        <3>1. w \in Pending(j) /\ Pending(j)' = Pending(j) \ {w}
            BY <2>1, <3>0 DEF Pending
        <3>2. Cardinality(Pending(j)') = Cardinality(Pending(j)) - 1
            BY <3>1, PendingFinite, FS_RemoveElement
        <3>3. runs'[j] <= runs[j] + 1 /\ runs'[j] \in Nat
            BY <1>1, <1>3, <2>1
        <3> QED
            BY <3>2, <3>3, PendingFinite DEF AttemptsInv
    <2>2. CASE j # c.id
        <3>1. \A v \in Workers : batch'[v] \subseteq batch[v]
            BY <1>1
        <3>2. runs'[j] = runs[j]
            BY <1>1, <2>2
        <3> QED
            BY <3>1, <3>2, PendingShrinks, PendingFinite DEF AttemptsInv
    <2> QED
        BY <2>1, <2>2
<1> QED
    BY <1>2, <1>4 DEF AttemptsInv

\* Runs and claims in flight stay within the attempts that were counted, and those
\* within max_attempts, in every reachable state (claim, process).
THEOREM AttemptsInvariant == Spec => [](AttemptsInv /\ OneClaimEach)
<1>1. Init => AttemptsInv /\ OneClaimEach
    <2> SUFFICES ASSUME Init PROVE AttemptsInv /\ OneClaimEach
        OBVIOUS
    <2>1. \A j \in Jobs : Pending(j) = {}
        BY DEF Init, Pending
    <2> QED
        BY <2>1, FS_EmptySet DEF Init, AttemptsInv, OneClaimEach
<1>2. TypeInv /\ OneClaimEach /\ AttemptsInv /\ [Next]_vars => AttemptsInv' /\ OneClaimEach'
    <2> SUFFICES ASSUME TypeInv, OneClaimEach, AttemptsInv, [Next]_vars
                 PROVE  AttemptsInv'
        BY OneClaimEachStep
    <2>1. CASE \E w \in Workers : Claim(w)
        BY <2>1, AttemptsClaimStep
    <2>2. CASE \E w \in Workers : ProcessNext(w)
        BY <2>2, AttemptsProcessStep
    <2>3. CASE EnqueueAny
        <3>1. PICK j \in Jobs, m \in MaxAttemptsOptions :
                /\ j \notin queued
                /\ queued' = queued \union {j}
                /\ max' = [max EXCEPT ![j] = IF m > 1 THEN m ELSE 1]
                /\ UNCHANGED <<attempts, runs, batch>>
            BY <2>3 DEF EnqueueAny, Enqueue, loops, history
        <3>2. \A i \in Jobs : Pending(i)' = Pending(i)
            BY <3>1 DEF Pending
        <3> QED
            BY <3>1, <3>2, ConstantsAssumption DEF AttemptsInv, TypeInv, TypeOK
    <2>4. CASE /\ UNCHANGED <<queued, attempts, max, runs>>
               /\ \A w \in Workers : batch'[w] \subseteq batch[w]
        BY <2>4, PendingShrinks, PendingFinite DEF AttemptsInv, TypeInv, TypeOK
    <2> QED
        <3>1. ASSUME NEW w \in Workers,
                     FinishBatch(w) \/ HandlerOk(w) \/ HandlerErr(w) \/ MarkCompleted(w)
                        \/ MarkFailed(w) \/ DatabaseError(w) \/ HandlerPanic(w) \/ Crash(w)
              PROVE  /\ UNCHANGED <<queued, attempts, max, runs>>
                     /\ \A v \in Workers : batch'[v] \subseteq batch[v]
            BY <3>1 DEF FinishBatch, HandlerOk, HandlerErr, MarkCompleted, MarkFailed, DatabaseError,
                        HandlerPanic, Crash, AfterMark, Drop, rows, history, TypeInv, TypeOK
        <3>2. ASSUME NEW n \in Names, NEW k \in Keys, EnqueueDuplicate(n, k)
              PROVE  UNCHANGED vars
            BY <3>2 DEF EnqueueDuplicate
        <3> QED
            BY <2>1, <2>2, <2>3, <2>4, <3>1, <3>2
            DEF Next, WorkerStep, Tick, vars, loops
<1> QED
    BY <1>1, <1>2, TypeInvariant, PTL DEF Spec

\* However often workers crash, lose leases or meet database errors, a message's
\* handler is invoked at most max_attempts times (claim, process).
THEOREM RunsBounded == Spec => []HandlerRunsBounded
<1>1. TypeInv /\ AttemptsInv => HandlerRunsBounded
    BY PendingFinite DEF AttemptsInv, HandlerRunsBounded, TypeInv, TypeOK
<1> QED
    BY <1>1, TypeInvariant, AttemptsInvariant, PTL

-----------------------------------------------------------------------------
(* The refinement.  A step of the loop is a step of JobQueue or leaves it  *)
(* alone: claim takes tries, process starts the handler, its Ok succeeds,  *)
(* and mark_completed settles the message.                                 *)

\* A worker inside the handler of a message was counted when it started it.
HandlerStarted == \A w \in Workers : pc[w] = "handle" => runs[current[w].id] > 0

\* Only process enters a handler, and runs are never taken back.
LEMMA HandlerStartedStep ==
    ASSUME TypeInv, HandlerStarted, [Next]_vars
    PROVE  HandlerStarted'
<1> USE DEF TypeInv, TypeOK, WorkerOK, HandlerStarted
<1>1. CASE EnqueueAny \/ Tick \/ UNCHANGED vars
    BY <1>1 DEF EnqueueAny, Enqueue, Tick, loops, history, vars
<1>2. ASSUME NEW n \in Names, NEW k \in Keys, EnqueueDuplicate(n, k)
      PROVE  HandlerStarted'
    BY <1>2 DEF EnqueueDuplicate, vars
<1>3. ASSUME NEW w \in Workers, Claim(w)
      PROVE  HandlerStarted'
    BY <1>3 DEF Claim, history
<1>4. ASSUME NEW w \in Workers, ProcessNext(w)
      PROVE  HandlerStarted'
    <2>1. PICK c \in batch[w] :
            /\ pc' = [pc EXCEPT ![w] = Disposition(c)]
            /\ current' = [current EXCEPT ![w] = c]
            /\ runs' = IF Disposition(c) = "handle" THEN [runs EXCEPT ![c.id] = @ + 1] ELSE runs
        BY <1>4 DEF ProcessNext
    <2>2. c.id \in Jobs /\ \A j \in Jobs : runs'[j] \in Nat /\ runs'[j] >= runs[j]
        BY <2>1 DEF Claims
    <2>3. pc'[w] = "handle" => runs'[c.id] = runs[c.id] + 1
        BY <2>1, <2>2
    <2>4. \A v \in Workers : v # w => pc'[v] = pc[v] /\ current'[v] = current[v]
        BY <2>1
    <2>5. \A v \in Workers : pc[v] = "handle" => current[v].id \in Jobs
        BY DEF Claims
    <2> QED
        BY <2>1, <2>2, <2>3, <2>4, <2>5
<1>5. ASSUME NEW w \in Workers, FinishBatch(w) \/ DatabaseError(w) \/ HandlerPanic(w) \/ Crash(w)
      PROVE  HandlerStarted'
    BY <1>5 DEF FinishBatch, DatabaseError, HandlerPanic, Crash, Drop, rows, history
<1>6. ASSUME NEW w \in Workers, HandlerOk(w) \/ HandlerErr(w)
      PROVE  HandlerStarted'
    BY <1>6 DEF HandlerOk, HandlerErr, rows, history
<1>7. ASSUME NEW w \in Workers, MarkCompleted(w) \/ MarkFailed(w)
      PROVE  HandlerStarted'
    BY <1>7 DEF MarkCompleted, MarkFailed, AfterMark, Drop, history
<1> QED
    BY <1>1, <1>2, <1>3, <1>4, <1>5, <1>6, <1>7 DEF Next, WorkerStep

\* The (name, key) of every message, as JobQueue sees it.
Addresses == [j \in Jobs |-> <<name[j], key[j]>>]

\* enqueue of a fresh (name, key) accepts the message.
LEMMA EnqueueAccepts ==
    ASSUME TypeInv, NEW j \in Jobs, NEW n \in Names, NEW k \in Keys \union {Null},
           NEW m \in MaxAttemptsOptions, Enqueue(j, n, k, m)
    PROVE  Queue!Accept(j)
<1> USE DEF TypeInv, TypeOK
<1>1. /\ \A i \in Jobs \ {j} : Addresses'[i] = Addresses[i] /\ max'[i] = max[i]
      /\ Addresses'[j] = <<n, k>>
    BY DEF Enqueue, Addresses
<1>2. k # Null => \A i \in queued : Addresses[i] # <<n, k>>
    BY DEF Enqueue, Conflicts, Addresses
<1>3. max'[j] > 0
    BY ConstantsAssumption DEF Enqueue
<1> QED
    BY <1>1, <1>2, <1>3 DEF Enqueue, history, Queue!Accept, Addresses

\* process starts the handler of a message only when the inbox has no record of it,
\* which is when it is not processed, and a claim of it was still to be run.
LEMMA ProcessStarts ==
    ASSUME TypeInv, CompletionInv, AttemptsInv, NEW w \in Workers, ProcessNext(w)
    PROVE  [Queue!Next]_(Queue!queue)
<1> USE DEF TypeInv, TypeOK
<1>1. PICK c \in batch[w] :
        runs' = IF Disposition(c) = "handle" THEN [runs EXCEPT ![c.id] = @ + 1] ELSE runs
    BY DEF ProcessNext
<1>2. /\ UNCHANGED <<queued, name, key, max, attempts, succeeded, processed>>
    BY DEF ProcessNext, rows
<1>3. c.id \in queued /\ c.id \in Jobs
    BY DEF Claims, HeldQueued, Held
<1>4. CASE Disposition(c) = "handle"
    <2>1. c.id \notin processed
        BY <1>3, <1>4 DEF Disposition, CompletionInv, ProcessedIffInbox
    <2>2. runs[c.id] < attempts[c.id]
        <3>1. w \in Pending(c.id)
            BY DEF Pending
        <3>2. Cardinality(Pending(c.id)) # 0 /\ Cardinality(Pending(c.id)) \in Nat
            BY <3>1, PendingFinite, FS_EmptySet
        <3>3. runs[c.id] + Cardinality(Pending(c.id)) <= attempts[c.id]
            BY <1>3 DEF AttemptsInv
        <3>4. runs[c.id] \in Nat /\ attempts[c.id] \in Nat
            BY <1>3
        <3> HIDE DEF TypeInv, TypeOK
        <3> QED
            BY <3>2, <3>3, <3>4
    <2>3. Queue!Start(c.id)
        BY <1>1, <1>2, <1>3, <1>4, <2>1, <2>2 DEF Queue!Start
    <2> QED
        BY <1>3, <2>3 DEF Queue!Next
<1>5. CASE Disposition(c) # "handle"
    BY <1>1, <1>2, <1>5 DEF Queue!queue
<1> QED
    BY <1>4, <1>5

\* Every step of the queue's code is a step of the promise or changes none of what
\* the promise speaks of.
LEMMA QueueStep ==
    ASSUME TypeInv, CompletionInv, AttemptsInv, HandlerStarted, [Next]_vars
    PROVE  [Queue!Next]_(Queue!queue)
<1> USE DEF TypeInv, TypeOK, WorkerOK
<1>1. ASSUME NEW j \in Jobs, NEW n \in Names, NEW k \in Keys \union {Null},
             NEW m \in MaxAttemptsOptions, Enqueue(j, n, k, m)
      PROVE  [Queue!Next]_(Queue!queue)
    BY <1>1, EnqueueAccepts DEF Queue!Next
<1>2. ASSUME NEW w \in Workers, Claim(w)
      PROVE  [Queue!Next]_(Queue!queue)
    <2>1. PICK S \in SUBSET Jobs :
            /\ FirstDue(S)
            /\ attempts' = [j \in Jobs |-> IF j \in S THEN attempts[j] + 1 ELSE attempts[j]]
        BY <1>2 DEF Claim
    <2>2. Queue!Take(S)
        BY <1>2, <2>1 DEF Claim, FirstDue, Claimable, history, Queue!Take
    <2> QED
        BY <2>2 DEF Queue!Next
<1>3. ASSUME NEW w \in Workers, ProcessNext(w)
      PROVE  [Queue!Next]_(Queue!queue)
    BY <1>3, ProcessStarts
<1>4. ASSUME NEW w \in Workers, HandlerOk(w)
      PROVE  [Queue!Next]_(Queue!queue)
    <2>1. Queue!Succeed(current[w].id) /\ current[w].id \in Jobs
        BY <1>4 DEF HandlerOk, HandlerStarted, Claims, rows, Queue!Succeed
    <2> QED
        BY <2>1 DEF Queue!Next
<1>5. ASSUME NEW w \in Workers, MarkCompleted(w)
      PROVE  [Queue!Next]_(Queue!queue)
    <2>1. Queue!Settle(current[w].id) /\ current[w].id \in Jobs
        BY <1>5 DEF MarkCompleted, CompletionInv, CompleteJustified, Claims, history, Queue!Settle
    <2> QED
        BY <2>1 DEF Queue!Next
<1>6. ASSUME NEW w \in Workers, FinishBatch(w) \/ HandlerErr(w) \/ MarkFailed(w) \/ DatabaseError(w)
                                   \/ HandlerPanic(w) \/ Crash(w)
      PROVE  [Queue!Next]_(Queue!queue)
    BY <1>6 DEF FinishBatch, HandlerErr, MarkFailed, DatabaseError, HandlerPanic, Crash, rows, history,
                Queue!queue
<1>7. CASE Tick
    BY <1>7 DEF Tick, Queue!queue
<1>8. ASSUME NEW n \in Names, NEW k \in Keys, EnqueueDuplicate(n, k)
      PROVE  [Queue!Next]_(Queue!queue)
    BY <1>8 DEF EnqueueDuplicate, vars, Queue!queue
<1>9. CASE UNCHANGED vars
    BY <1>9 DEF vars, Queue!queue
<1> QED
    BY <1>1, <1>2, <1>3, <1>4, <1>5, <1>6, <1>7, <1>8, <1>9 DEF Next, EnqueueAny, WorkerStep

\* The tables, the leases and the worker loop implement the promise of JobQueue, for
\* any number of workers and messages (enqueue, run_once, process).
THEOREM Implements == Spec => KeepsPromise
<1>1. Init => Queue!Init
    BY DEF Init, Queue!Init
<1>2. Init => HandlerStarted
    BY DEF Init, HandlerStarted
<1>3. TypeInv /\ HandlerStarted /\ [Next]_vars => HandlerStarted'
    BY HandlerStartedStep
<1>4. TypeInv /\ CompletionInv /\ AttemptsInv /\ HandlerStarted /\ [Next]_vars
        => [Queue!Next]_(Queue!queue)
    BY QueueStep
<1> QED
    BY <1>1, <1>2, <1>3, <1>4, TypeInvariant, CompletionInvariant, AttemptsInvariant, PTL
    DEF Spec, KeepsPromise, Queue!Spec

=============================================================================
