------------------------- MODULE MCSearchProjection -------------------------
(* SearchProjection for TLC: workers and rebuilders are interchangeable.    *)
EXTENDS SearchProjection, TLC

Symmetry == Permutations(Workers) \cup Permutations(Rebuilders)

\* Three revisions of one user; a rebuild beside two; pages and two rebuilds; SQLite.
CommandsSetup == [postgres |-> TRUE, docs |-> 1, revisions |-> 3, attempts |-> 2, rebuilds |-> 0]
RebuildSetup == [postgres |-> TRUE, docs |-> 1, revisions |-> 2, attempts |-> 2, rebuilds |-> 1]
PagesSetup == [postgres |-> TRUE, docs |-> 2, revisions |-> 1, attempts |-> 1, rebuilds |-> 2]
SqliteSetup == [postgres |-> FALSE, docs |-> 1, revisions |-> 3, attempts |-> 3, rebuilds |-> 0]

AllSetups == {CommandsSetup, RebuildSetup, PagesSetup, SqliteSetup}
=============================================================================
