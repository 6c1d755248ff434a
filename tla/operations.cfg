\* Two commands at once over two caches that together may exceed the budget; their children may
\* ignore every signal but SIGKILL.
SPECIFICATION Spec
CONSTANTS
    c1 = c1
    c2 = c2
    Clis = {c1, c2}
    Kinds = {"check", "test"}
    NoKind = NoKind
    Steps = 1
    Starts <- MCStarts
    Budget = 1
    MaxSize = 2
    MaxClock = 1
INVARIANTS
    CacheUsedByOne
PROPERTIES
    ActiveCachesKept
    UnclaimedNotAdopted
    SuccessIsTrue
    InterruptEnds
\* Every command has ended and every child too.
CHECK_DEADLOCK FALSE
