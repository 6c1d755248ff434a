\* Two workers and two rebuilders, each setup with retries.
SPECIFICATION ProjectionSpec
CONSTANTS
    NumDocs = 2
    Workers = {w1, w2}
    Rebuilders = {b1, b2}
    Setups <- AllSetups
    MaxRevision = 3
    MaxAttempts = 3
    MaxRebuilds = 2
    BatchSize = 1
SYMMETRY Symmetry
INVARIANTS
    NoSupersededHit
    ConvergesWhenQuiet
CHECK_DEADLOCK FALSE
