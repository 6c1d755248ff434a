SPECIFICATION Spec
CONSTANTS
    None = None
    Peer = Peer
    Proxy = Proxy
    Second = 2
    Trusted = {Proxy}
    Clients = {c1, c2}
    Addresses <- MCAddresses
    Names = {"a", "b", "c"}
    Protected = "b"
    Setups <- MCSetups
    VerifyTtl = 2
    ChangeTtl = 1
    MagicTtl = 1
    MaxTokens = 5
    MaxNow = 5
    Providers = {"google", "github"}
    Identities = {1}
    StateTtl = 1
    SignupTtl = 1
INVARIANTS
    AddressProven
    TokenUsedOnce
    
    ExternalOnlyKeepsConnection
    
CHECK_DEADLOCK FALSE
