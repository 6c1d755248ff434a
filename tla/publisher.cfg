CONSTANTS
    Procs = {"p1", "p2"}
    N = 2
    None = None
    Scenarios <- AllScenarios
SPECIFICATION Spec
CHECK_DEADLOCK FALSE
INVARIANTS
    OwnerWorkSurvives
    UnmarkedMeansWhole
PROPERTIES
    FailureRestores
