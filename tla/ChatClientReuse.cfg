CONSTANTS
    None = None
    Client = {alice, bob, carol}
    KeyPair <- MCKeyPair
    MAX_SKIP_DISTANCE = 2
    MaxSkippedKeys = 1
    MaxReceivedIds = 2
    MaxStarts = 3
    MaxSent = 3
    MaxGenerated = 7
    MaxCrashes = 0
    MaxInterrupts = 0
    MaxRaw = 0
SPECIFICATION Spec
INVARIANT NoKeyReuse
CHECK_DEADLOCK FALSE
