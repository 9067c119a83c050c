CONSTANTS
    None = None
    Initiator = alice
    Responder = bob
    KeyPair <- MCKeyPair
    MAX_SKIP_DISTANCE = 2
    MaxSkippedKeys = 2
    MaxReceivedIds = 1
    MaxSent = 4
    MaxGenerated = 4
SPECIFICATION Spec
INVARIANTS
    TypeOK
    AcceptedOnce
    KeysErased
    NoKeyReuse
    IdsNeverRecur
    StoresBounded
PROPERTIES
    SkipBounded
    ImplementsOnceChannel
CHECK_DEADLOCK FALSE
