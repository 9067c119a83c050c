CONSTANTS
    None = None
    alice = alice
    bob = bob
    carol = carol
    Endpoint <- MCEndpoint
    Link <- MCLink
    KeyPair <- MCKeyPair
    MaxSkippedKeys = 1
    MaxEntries = 2
    MaxSent = 3
    MaxDummies = 1
    MaxRepeats = 1
SPECIFICATION Spec
INVARIANTS
    CacheInStepWithRatchet
    AcceptedIsDecrypted
    ResetHasReason
    ShownFromPeer
    NoKeyReuse
CHECK_DEADLOCK FALSE
