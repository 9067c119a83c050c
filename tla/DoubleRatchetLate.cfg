CONSTANTS
    None = None
    Initiator = alice
    Responder = bob
    KeyPair <- MCKeyPair
    MAX_SKIP_DISTANCE = 3
    MaxSkippedKeys = 3
    MaxReceivedIds = 6
    MaxSent = 3
    MaxGenerated = 4
SPECIFICATION Spec
INVARIANTS
    DeliveredIsAccepted

CHECK_DEADLOCK FALSE
