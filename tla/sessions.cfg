\* Two requests at once, on the sessions table and on Redis.
SPECIFICATION Spec
CONSTANTS
    Clients = {c1, c2}
    Stores <- TableAndRedis
    SlidingTtl = 2
    Lifetime = 3
    Percent = 50
    MaxTokens = 3
    MaxNow = 4
SYMMETRY Symmetry
INVARIANTS
    RenewalsDoNotFork
    ListedUnlessRaced
 
CHECK_DEADLOCK FALSE
