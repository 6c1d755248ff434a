\* One message, two workers: the batches of several messages are left to the proofs.
CONSTANTS
    j1 = j1
    w1 = w1
    w2 = w2
    known = known
    unknown = unknown
    k1 = k1
    Null = Null
    Jobs = {j1}
    Workers = {w1, w2}
    Names = {known, unknown}
    Registered = {known}
    Keys = {k1}
    MaxAttemptsOptions = {0, 3}
    BatchSize = 1
    LockTimeout = 2
    MaxFaults = 2
SPECIFICATION Spec
INVARIANTS
    OverlapOnlyAfterOverrun
PROPERTIES
    EveryMessageSettles
    
