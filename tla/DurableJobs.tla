---------------------------- MODULE DurableJobs ----------------------------
(***************************************************************************)
(* The durable job queue of crates/background_jobs: the outbox_messages    *)
(* and inbox_messages tables, the enqueue statement, and the worker loop   *)
(* (claim a batch under a lease, look for the inbox record, run the        *)
(* handler, mark the message completed or failed).                         *)
(*                                                                         *)
(* Time is kept relative.  wait[j] is the number of seconds until          *)
(* available_at and lockAge[j] the number of seconds since locked_at, so   *)
(* that one Tick stands for one second passing and no clock has to be      *)
(* bounded.  `older' is the order of available_at among messages that are  *)
(* already due: <<i, j>> \in older when i became due first.                *)
(***************************************************************************)
EXTENDS Integers, FiniteSets

CONSTANTS
    Jobs,               \* message ids (Uuid::new_v4)
    Workers,            \* worker slots, each one tokio task of one process
    Names,              \* job names
    Registered,         \* the names that have a handler in the registry
    Keys,               \* idempotency keys
    Null,               \* a column that is NULL, a claim that is absent
    MaxAttemptsOptions, \* values of DurableJobOptions::max_attempts in use
    BatchSize,          \* jobs.durable.batch_size
    LockTimeout,        \* jobs.durable.lock_timeout_seconds
    MaxFaults           \* bound on process crashes plus handler panics

ASSUME ConstantsAssumption ==
    /\ IsFiniteSet(Workers)
    /\ Registered \subseteq Names
    /\ Null \notin Keys \union Names \union Jobs \union (Workers \X Nat)
    /\ MaxAttemptsOptions \subseteq Nat
    /\ BatchSize \in Nat \ {0}
    /\ LockTimeout \in Nat \ {0}
    /\ MaxFaults \in Nat

VARIABLES
    queued,     \* ids that have a row in outbox_messages
    name,       \* column name
    key,        \* column idempotency_key
    attempts,   \* column attempts
    max,        \* column max_attempts
    wait,       \* available_at, as seconds still to wait
    older,      \* available_at, as the order among the due rows
    lockAge,    \* locked_at, as seconds since; Unlocked for NULL
    lockOwner,  \* column lock_owner
    processed,  \* ids whose processed_at is set
    errored,    \* ids whose last_error is set
    inbox,      \* rows of inbox_messages, <<consumer, message_id>>
    pc,         \* where each worker loop stands
    life,       \* how often each worker was restarted, part of its worker_id
    batch,      \* the claimed messages a worker has still to process
    current,    \* the claimed message a worker is processing
    runs,       \* history: handler invocations per message
    succeeded,  \* history: ids whose handler returned Ok at least once
    overran,    \* history: ids whose lease expired under a live holder
    faults      \* crashes and panics so far

rows == <<queued, name, key, attempts, max, wait, older, lockAge, lockOwner,
          processed, errored>>
loops == <<pc, life, batch, current>>
history == <<runs, succeeded, overran>>
vars == <<queued, name, key, attempts, max, wait, older, lockAge, lockOwner,
          processed, errored, inbox, pc, life, batch, current, runs, succeeded,
          overran, faults>>

Unlocked == -1
LockAges == -1 .. (LockTimeout + 1)
Claims == [id : Jobs, attempts : Nat]
NoClaim == [id |-> Null, attempts |-> 0]

\* The seconds 2^n for the exponents 1..8 that mark_failed can use.
PowersOfTwo == <<2, 4, 8, 16, 32, 64, 128, 256>>

\* retry_seconds: 2^(attempts clamped to 1..8), at most 300.
RetrySeconds(n) ==
    LET e == IF n < 1 THEN 1 ELSE IF n > 8 THEN 8 ELSE n
    IN  IF PowersOfTwo[e] < 300 THEN PowersOfTwo[e] ELSE 300

MaxWait == 256

Init ==
    /\ queued = {}
    /\ name = [j \in Jobs |-> Null]
    /\ key = [j \in Jobs |-> Null]
    /\ attempts = [j \in Jobs |-> 0]
    /\ max = [j \in Jobs |-> 1]
    /\ wait = [j \in Jobs |-> 0]
    /\ older = {}
    /\ lockAge = [j \in Jobs |-> Unlocked]
    /\ lockOwner = [j \in Jobs |-> Null]
    /\ processed = {}
    /\ errored = {}
    /\ inbox = {}
    /\ pc = [w \in Workers |-> "idle"]
    /\ life = [w \in Workers |-> 0]
    /\ batch = [w \in Workers |-> {}]
    /\ current = [w \in Workers |-> NoClaim]
    /\ runs = [j \in Jobs |-> 0]
    /\ succeeded = {}
    /\ overran = {}
    /\ faults = 0

-----------------------------------------------------------------------------
(* The table. *)

\* ON CONFLICT (name, idempotency_key) WHERE idempotency_key IS NOT NULL
Conflicts(n, k) == k # Null /\ \E i \in queued : name[i] = n /\ key[i] = k

\* enqueue with a fresh (name, key): a row that is available at once.
Enqueue(j, n, k, m) ==
    /\ j \notin queued
    /\ ~Conflicts(n, k)
    /\ queued' = queued \union {j}
    /\ name' = [name EXCEPT ![j] = n]
    /\ key' = [key EXCEPT ![j] = k]
    /\ max' = [max EXCEPT ![j] = IF m > 1 THEN m ELSE 1]
    /\ older' = older \union {<<i, j>> : i \in {i \in queued : wait[i] = 0}}
    /\ UNCHANGED <<attempts, wait, lockAge, lockOwner, processed, errored,
                   inbox, loops, history, faults>>

\* enqueue of a (name, key) that has a row: the row keeps every column and its
\* id is returned, whatever became of it.
EnqueueDuplicate(n, k) ==
    /\ Conflicts(n, k)
    /\ UNCHANGED vars

\* Mutants of the claim condition: the lease is off by one second, a lock never expires.
ClaimableEarly(j) ==
    /\ j \in queued \ processed
    /\ wait[j] = 0
    /\ attempts[j] < max[j]
    /\ lockAge[j] = Unlocked \/ lockAge[j] >= LockTimeout
ClaimableUnlockedOnly(j) ==
    /\ j \in queued \ processed
    /\ wait[j] = 0
    /\ attempts[j] < max[j]
    /\ lockAge[j] = Unlocked

\* WHERE processed_at IS NULL AND available_at <= now AND attempts < max_attempts
\*   AND (locked_at IS NULL OR locked_at < now - lock_timeout)
Claimable(j) ==
    /\ j \in queued
    /\ j \notin processed
    /\ wait[j] = 0
    /\ attempts[j] < max[j]
    /\ lockAge[j] = Unlocked \/ lockAge[j] > LockTimeout

\* ORDER BY available_at, created_at LIMIT batch_size
FirstDue(S) ==
    LET candidates == {j \in Jobs : Claimable(j)}
    IN  /\ S \subseteq candidates
        /\ \/ S = candidates /\ Cardinality(S) <= BatchSize
           \/ Cardinality(S) = BatchSize
        /\ \A j \in S, i \in candidates \ S : <<i, j>> \notin older

-----------------------------------------------------------------------------
(* The worker loop.  pc: "idle" between two ticks of the poll interval,    *)
(* "next" inside run_once between two messages, "handle" while the handler *)
(* runs, "complete" and "fail" before the two marking statements,          *)
(* "panicked" when the tokio task has unwound.                             *)

OwnerId(w) == <<w, life[w]>>

\* The worker keeps no message: its iteration ends in `state'.
Drop(w, state) ==
    /\ pc' = [pc EXCEPT ![w] = state]
    /\ batch' = [batch EXCEPT ![w] = {}]
    /\ current' = [current EXCEPT ![w] = NoClaim]

\* claim: lock the batch, count the attempt, remember what was returned.
Claim(w) ==
    /\ pc[w] = "idle"
    /\ \E S \in SUBSET Jobs :
        /\ S # {}
        /\ FirstDue(S)
        /\ attempts' = [j \in Jobs |-> IF j \in S THEN attempts[j] + 1 ELSE attempts[j]]
        /\ lockAge' = [j \in Jobs |-> IF j \in S THEN 0 ELSE lockAge[j]]
        /\ lockOwner' = [j \in Jobs |-> IF j \in S THEN OwnerId(w) ELSE lockOwner[j]]
        /\ batch' = [batch EXCEPT ![w] = {[id |-> j, attempts |-> attempts[j] + 1] : j \in S}]
        /\ pc' = [pc EXCEPT ![w] = "next"]
    /\ UNCHANGED <<queued, name, key, max, wait, older, processed, errored,
                   inbox, life, current, history, faults>>

\* What process does with a claimed message: fail it for want of a handler,
\* complete it when the inbox knows it, or call the handler.
Disposition(c) ==
    IF name[c.id] \notin Registered THEN "fail"
    ELSE IF <<name[c.id], c.id>> \in inbox THEN "complete"
    ELSE "handle"

\* process: registry lookup, the inbox query, and the start of the handler.
ProcessNext(w) ==
    /\ pc[w] = "next"
    /\ \E c \in batch[w] :
        /\ pc' = [pc EXCEPT ![w] = Disposition(c)]
        /\ batch' = [batch EXCEPT ![w] = @ \ {c}]
        /\ current' = [current EXCEPT ![w] = c]
        /\ runs' = IF Disposition(c) = "handle" THEN [runs EXCEPT ![c.id] = @ + 1] ELSE runs
    /\ UNCHANGED <<rows, inbox, life, succeeded, overran, faults>>

\* run_once reaches the end of the batch.
FinishBatch(w) ==
    /\ pc[w] = "next"
    /\ batch[w] = {}
    /\ Drop(w, "idle")
    /\ UNCHANGED <<rows, inbox, life, history, faults>>

HandlerOk(w) ==
    /\ pc[w] = "handle"
    /\ pc' = [pc EXCEPT ![w] = "complete"]
    /\ succeeded' = succeeded \union {current[w].id}
    /\ UNCHANGED <<rows, inbox, life, batch, current, runs, overran, faults>>

\* Mutant: an Err result is completed like an Ok.
HandlerErrIgnored(w) ==
    /\ pc[w] = "handle"
    /\ pc' = [pc EXCEPT ![w] = "complete"]
    /\ UNCHANGED <<rows, inbox, life, batch, current, history, faults>>

HandlerErr(w) ==
    /\ pc[w] = "handle"
    /\ pc' = [pc EXCEPT ![w] = "fail"]
    /\ UNCHANGED <<rows, inbox, life, batch, current, history, faults>>

\* The marking statement answered Ok (go on with the batch), or its answer was
\* an error although it took effect (process returns Err, run_once gives up).
AfterMark(w) ==
    \/ /\ pc' = [pc EXCEPT ![w] = "next"]
       /\ current' = [current EXCEPT ![w] = NoClaim]
       /\ UNCHANGED batch
    \/ Drop(w, "idle")

\* mark_completed: one transaction over both tables, by message id alone.
MarkCompleted(w) ==
    LET j == current[w].id
    IN  /\ pc[w] = "complete"
        /\ inbox' = inbox \union {<<name[j], j>>}
        /\ processed' = processed \union {j}
        /\ lockAge' = [lockAge EXCEPT ![j] = Unlocked]
        /\ lockOwner' = [lockOwner EXCEPT ![j] = Null]
        /\ errored' = errored \ {j}
        /\ AfterMark(w)
        /\ UNCHANGED <<queued, name, key, attempts, max, wait, older, life, history, faults>>

\* mark_failed: release and postpone the message, by message id alone.
MarkFailed(w) ==
    LET j == current[w].id
    IN  /\ pc[w] = "fail"
        /\ lockAge' = [lockAge EXCEPT ![j] = Unlocked]
        /\ lockOwner' = [lockOwner EXCEPT ![j] = Null]
        /\ errored' = errored \union {j}
        /\ wait' = [wait EXCEPT ![j] = RetrySeconds(current[w].attempts)]
        /\ older' = {p \in older : p[1] # j /\ p[2] # j}
        /\ AfterMark(w)
        /\ UNCHANGED <<queued, name, key, attempts, max, processed, inbox, life, history, faults>>

\* A statement of process fails without effect: run_once returns Err and the
\* rest of the batch stays locked.  Right after a claim this is also the claim
\* whose answer was lost or whose payload did not parse: its rows stay locked.
DatabaseError(w) ==
    /\ pc[w] \in {"next", "complete", "fail"}
    /\ batch[w] # {} \/ pc[w] # "next"
    /\ Drop(w, "idle")
    /\ UNCHANGED <<rows, inbox, life, history, faults>>

\* The handler panics: the spawned task ends and nothing polls again.
HandlerPanic(w) ==
    /\ pc[w] = "handle"
    /\ faults < MaxFaults
    /\ faults' = faults + 1
    /\ Drop(w, "panicked")
    /\ UNCHANGED <<rows, inbox, life, history>>

\* The process dies and is started again with a fresh worker_id.
Crash(w) ==
    /\ faults < MaxFaults
    /\ faults' = faults + 1
    /\ Drop(w, "idle")
    /\ life' = [life EXCEPT ![w] = @ + 1]
    /\ UNCHANGED <<rows, inbox, history>>

\* The claims a worker still works on or will work on.
Held(w) == batch[w] \union
           (IF pc[w] \in {"handle", "complete", "fail"} THEN {current[w]} ELSE {})

HoldsJob(w, j) == \E c \in Held(w) : c.id = j

\* One second passes.
Tick ==
    LET due == {j \in queued : wait[j] = 0}
        becomesDue == {j \in queued : wait[j] = 1}
    IN  /\ wait' = [j \in Jobs |-> IF wait[j] > 0 THEN wait[j] - 1 ELSE 0]
        /\ older' = older \union (due \X becomesDue)
        /\ lockAge' = [j \in Jobs |->
                         IF lockAge[j] \in 0 .. LockTimeout THEN lockAge[j] + 1 ELSE lockAge[j]]
        /\ overran' = overran \union
                      {j \in Jobs : lockAge[j] = LockTimeout /\ \E w \in Workers : HoldsJob(w, j)}
        /\ UNCHANGED <<queued, name, key, attempts, max, lockOwner, processed, errored,
                       inbox, loops, runs, succeeded, faults>>

EnqueueAny == \E j \in Jobs, n \in Names, k \in Keys \union {Null}, m \in MaxAttemptsOptions :
                  Enqueue(j, n, k, m)

WorkerStep(w) ==
    \/ Claim(w)
    \/ ProcessNext(w)
    \/ FinishBatch(w)
    \/ HandlerOk(w)
    \/ HandlerErr(w)
    \/ MarkCompleted(w)
    \/ MarkFailed(w)
    \/ DatabaseError(w)

Next ==
    \/ EnqueueAny
    \/ \E n \in Names, k \in Keys : EnqueueDuplicate(n, k)
    \/ \E w \in Workers : WorkerStep(w) \/ HandlerPanic(w) \/ Crash(w)
    \/ Tick

\* The poll interval keeps ticking, handlers return, statements answer and the
\* clock advances; crashes, panics and enqueues are never obliged to happen.
Fairness ==
    /\ \A w \in Workers : WF_vars(WorkerStep(w))
    /\ WF_vars(Tick)

Spec == Init /\ [][Next]_vars /\ Fairness

-----------------------------------------------------------------------------
(* Properties. *)

\* Every column keeps its domain: in particular a stored max_attempts is at
\* least 1, delays stay within the back-off cap and a claim always names a row.
TypeOK ==
    /\ queued \subseteq Jobs
    /\ name \in [Jobs -> Names \union {Null}]
    /\ \A j \in queued : name[j] \in Names
    /\ key \in [Jobs -> Keys \union {Null}]
    /\ attempts \in [Jobs -> Nat]
    /\ max \in [Jobs -> Nat \ {0}]
    /\ wait \in [Jobs -> 0 .. MaxWait]
    /\ older \subseteq Jobs \X Jobs
    /\ lockAge \in [Jobs -> LockAges]
    /\ lockOwner \in [Jobs -> (Workers \X Nat) \union {Null}]
    /\ processed \subseteq queued
    /\ errored \subseteq queued
    /\ inbox \subseteq Names \X Jobs
    /\ pc \in [Workers -> {"idle", "next", "handle", "complete", "fail", "panicked"}]
    /\ life \in [Workers -> Nat]
    /\ batch \in [Workers -> SUBSET Claims]
    /\ current \in [Workers -> Claims \union {NoClaim}]
    /\ runs \in [Jobs -> Nat]
    /\ succeeded \subseteq queued
    /\ overran \subseteq Jobs
    /\ faults \in 0 .. MaxFaults

\* However often workers crash, lose leases or meet database errors, the handler
\* of one message is invoked at most max_attempts times (claim, process).
HandlerRunsBounded == \A j \in Jobs : runs[j] <= attempts[j] /\ attempts[j] <= max[j]

\* mark_completed is atomic over its two tables: a message is processed exactly
\* when its consumer has an inbox record for it.
ProcessedIffInbox == \A j \in Jobs : j \in processed <=> <<name[j], j>> \in inbox

\* A message is only ever marked processed on the strength of a handler that
\* returned Ok for it, also when a duplicate is short-circuited by the inbox.
ProcessedOnlyAfterSuccess == processed \subseteq succeeded

\* Two workers hold one message at the same time only if some lease on it ran
\* out under a live holder: handlers that stay within lock_timeout_seconds are
\* never executed concurrently for one message.
OverlapOnlyAfterOverrun ==
    \A v, w \in Workers : v # w =>
        \A j \in Jobs : HoldsJob(v, j) /\ HoldsJob(w, j) => j \in overran

\* Every message that is enqueued is eventually processed or has used up its
\* attempts, unless every worker loop has been ended by a panicking handler.
Settled(j) == j \in processed \/ attempts[j] = max[j]
EveryMessageSettles ==
    \A j \in Jobs : j \in queued ~> (Settled(j) \/ \A w \in Workers : pc[w] = "panicked")

\* The promise of the queue, read off the two tables and the history of the
\* handler: whatever leases run out, statements fail and workers die, no step of
\* the loop accepts a (name, key) twice, starts a handler more often than tries
\* were counted or after its message was marked processed, or marks a message
\* processed whose handler has not returned Ok (enqueue, run_once, process).
Queue == INSTANCE JobQueue WITH
    accepted <- queued,
    address <- [j \in Jobs |-> <<name[j], key[j]>>],
    limit <- max,
    tries <- attempts,
    started <- runs,
    effected <- succeeded,
    done <- processed
KeepsPromise == Queue!Spec

=============================================================================
