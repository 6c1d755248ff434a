----------------------------- MODULE MCPublisher -----------------------------
(* Scenarios for TLC: one publisher beside an owner at work, two publishers *)
(* with failing calls and a crash or power loss, two beside an owner, and   *)
(* one failing call.                                                        *)
EXTENDS Publisher

OwnerAtWork == [procs |-> {"p1"}, faults |-> 1, edits |-> 2, crashes |-> 0]
TwoWithCrashes == [procs |-> {"p1", "p2"}, faults |-> 2, edits |-> 0, crashes |-> 1]
TwoAndOwner == [procs |-> {"p1", "p2"}, faults |-> 0, edits |-> 1, crashes |-> 0]
OneFault == [procs |-> {"p1"}, faults |-> 1, edits |-> 0, crashes |-> 0]

AllScenarios == {OwnerAtWork, TwoWithCrashes, TwoAndOwner}
FaultScenario == {OneFault}
=============================================================================
