\* Two concurrent requests, two enrolments, two batches of two codes, two login tokens.
SPECIFICATION Spec
CONSTANTS
    Clients = {c1, c2}
    CodeCount = 2
    MaxSecrets = 2
    MaxBatches = 2
    MaxTokens = 2
SYMMETRY Symmetry
INVARIANTS
    BackupCodeAcceptedOnce
    LoginTokenGrantsOnce
PROPERTY CheckedSecretInForce
