----------------------------- MODULE MCSessions -----------------------------
(* Sessions for TLC: the clients are interchangeable.                      *)
EXTENDS Sessions, TLC

Symmetry == Permutations(Clients)

\* Three tokens over the lifetime of a session in the table; two in Redis, where a
\* request takes more steps.
TableAndRedis == {[redis |-> FALSE, tokens |-> 3], [redis |-> TRUE, tokens |-> 2]}
=============================================================================
