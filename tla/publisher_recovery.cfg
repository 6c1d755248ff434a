CONSTANTS
    Procs = {"p1"}
    N = 1
    None = None
    Scenarios <- FaultScenario
SPECIFICATION Spec
CHECK_DEADLOCK FALSE
INVARIANT
    RecoveryIsBlocked
