----------------------------- MODULE RateLimits -----------------------------
(***************************************************************************)
(* The rate limiter in front of the HTTP interface (http_support:          *)
(* rate_limit.rs): a sliding window for each method, path and client       *)
(* address.  The memory of one process keeps the times of the requests it  *)
(* let through; Redis keeps them for all processes, in milliseconds.       *)
(***************************************************************************)
EXTENDS Integers, Sequences, FiniteSets, SequencesExt

CONSTANTS None,
          Second,    \* ticks of the clock in a second, by which the waiting time is rounded
          Trusted    \* addresses of the trusted proxies

ASSUME RateLimitsAssumption == Second \in Nat \ {0}

(***************************************************************************)
(* The client's address: the peer's, or, where a trusted proxy stands      *)
(* before it, the last of the forwarded addresses that no such proxy has.  *)
(* None is a list that does not parse.                                     *)
(***************************************************************************)
ResolveAddress(peer, forwarded) ==
    IF peer \notin Trusted THEN peer
    ELSE IF forwarded = None THEN None
    ELSE FoldRight(LAMBDA candidate, resolved : IF resolved \in Trusted THEN candidate ELSE resolved, forwarded, peer)

(***************************************************************************)
(* The check.  times are those of the requests let through, oldest first.  *)
(***************************************************************************)
\* Hence what is too old is in front (retain, ZREMRANGEBYSCORE).
Recent(times, now, window) ==
    SubSeq(times, Cardinality({i \in DOMAIN times : now - times[i] >= window}) + 1, Len(times))

\* What a client that is refused is told to wait: Redis rounds up, the memory rounds down.
Seconds(ticks, redis) == IF redis THEN (ticks + Second - 1) \div Second ELSE ticks \div Second
AtLeastOne(n) == IF n < 1 THEN 1 ELSE n
RetryAfter(times, now, window, redis) == AtLeastOne(Seconds(Head(times) + window - now, redis))

\* Mutant of Decision: the limit is passed by one.
DecisionLate(times, now, limit) ==
    LET recent == Recent(times, now, limit.window)
    IN  IF Len(recent) > limit.max THEN [allowed |-> FALSE, times |-> recent]
        ELSE [allowed |-> TRUE, times |-> Append(recent, now)]

Decision(times, now, limit) ==
    LET recent == Recent(times, now, limit.window)
    IN  IF Len(recent) >= limit.max THEN [allowed |-> FALSE, times |-> recent]
        ELSE [allowed |-> TRUE, times |-> Append(recent, now)]

\* Only POST is limited, and only where the limiter is on.
Limited(limit, method) == limit # None /\ method = "POST"
=============================================================================
