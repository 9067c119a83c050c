CONSTANTS
    None = None
    Initiator = alice
    Responder = bob
    KeyPair <- MCKeyPair
    MAX_SKIP_DISTANCE = 2
    MaxSkippedKeys = 1
    MaxReceivedIds = 2
    MaxSent = 2
    MaxGenerated = 3
    MaxCrashes = 1
    MaxQuits = 2
    MaxInterrupts = 1
    MaxDiskErrors = 1
SPECIFICATION Spec
INVARIANTS
    TypeOK
    DisplayedOnce
    ArrivedIsShown
    RootsAgree
    NoKeyReuseUndisturbed
PROPERTIES
    FileNeverRollsBack
CHECK_DEADLOCK FALSE
