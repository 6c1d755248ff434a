--------------------------- MODULE MCDurableJobs ---------------------------
(* One message and two workers; one of the two job names has no handler.    *)
EXTENDS DurableJobs
CONSTANTS j1, w1, w2, known, unknown, k1
=============================================================================
