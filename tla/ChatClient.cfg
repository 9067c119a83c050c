CONSTANTS
    None = None
    Client = {alice, bob, carol}
    KeyPair <- MCKeyPair
    MAX_SKIP_DISTANCE = 2
    MaxSkippedKeys = 1
    MaxReceivedIds = 2
    MaxStarts = 3
    MaxSent = 2
    MaxGenerated = 7
    MaxCrashes = 1
    MaxInterrupts = 1
    MaxRaw = 1
SPECIFICATION Spec
SYMMETRY Symmetry
INVARIANTS
    ShownIsAuthentic
    SealedForRecipient
    FileHoldsPeerSessionCalm
    NoKeyReuseCalm
CHECK_DEADLOCK FALSE
