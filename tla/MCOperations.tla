----------------------------- MODULE MCOperations -----------------------------
(* A check, an operation without a cache or a report, beside a check, a test *)
(* or a prune.                                                               *)
EXTENDS Operations
CONSTANTS c1, c2

MCStarts ==
    {<<c1, "run", "check">>, <<c1, "run", NoKind>>, <<c1, "report", NoKind>>,
     <<c2, "run", "check">>, <<c2, "run", "test">>, <<c2, "prune", NoKind>>}
=============================================================================
