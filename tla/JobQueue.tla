------------------------------ MODULE JobQueue ------------------------------
(***************************************************************************)
(* What the durable job queue promises to the code that enqueues and to    *)
(* the code that registers handlers, with no table, lease, worker or clock *)
(* in it: a message is accepted once per (name, key), each of its at most  *)
(* max_attempts tries starts its handler at most once, the handler is not  *)
(* started again once the message is done, and a message is done only      *)
(* after its handler succeeded.  DurableJobs implements it.                *)
(***************************************************************************)
EXTENDS Naturals

CONSTANTS
    Jobs,   \* message ids
    Null    \* an absent idempotency key

VARIABLES
    accepted,   \* messages whose enqueue returned their id
    address,    \* <<name, key>> of each message
    limit,      \* tries each message may use
    tries,      \* tries each message has used
    started,    \* handler invocations of each message
    effected,   \* messages whose handler returned Ok
    done        \* messages that will not be handled again

queue == <<accepted, address, limit, tries, started, effected, done>>

Init ==
    /\ accepted = {}
    /\ address = [j \in Jobs |-> <<Null, Null>>]
    /\ limit = [j \in Jobs |-> 1]
    /\ tries = [j \in Jobs |-> 0]
    /\ started = [j \in Jobs |-> 0]
    /\ effected = {}
    /\ done = {}

\* A message is taken in whose (name, key) no accepted message has, and from
\* then on neither changes, nor the number of its tries.
Accept(j) ==
    /\ j \notin accepted
    /\ accepted' = accepted \union {j}
    /\ \A i \in Jobs \ {j} : address'[i] = address[i] /\ limit'[i] = limit[i]
    /\ address'[j][2] # Null => \A i \in accepted : address[i] # address'[j]
    /\ limit'[j] > 0
    /\ UNCHANGED <<tries, started, effected, done>>

\* Some messages that are not done use one more of their tries.
Take(S) ==
    /\ S \subseteq accepted \ done
    /\ \A j \in S : tries[j] < limit[j]
    /\ tries' = [j \in Jobs |-> IF j \in S THEN tries[j] + 1 ELSE tries[j]]
    /\ UNCHANGED <<accepted, address, limit, started, effected, done>>

\* A try starts the handler: never more often than tries were used, and never
\* for a message that is done.
Start(j) ==
    /\ j \in accepted \ done
    /\ started[j] < tries[j]
    /\ started' = [started EXCEPT ![j] = @ + 1]
    /\ UNCHANGED <<accepted, address, limit, tries, effected, done>>

Succeed(j) ==
    /\ started[j] > 0
    /\ effected' = effected \union {j}
    /\ UNCHANGED <<accepted, address, limit, tries, started, done>>

Settle(j) ==
    /\ j \in effected
    /\ done' = done \union {j}
    /\ UNCHANGED <<accepted, address, limit, tries, started, effected>>

Next ==
    \/ \E j \in Jobs : Accept(j) \/ Start(j) \/ Succeed(j) \/ Settle(j)
    \/ \E S \in SUBSET Jobs : Take(S)

Spec == Init /\ [][Next]_queue
=============================================================================
