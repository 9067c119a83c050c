CONSTANTS
    None = None
    alice = alice
    bob = bob
    carol = carol
    Endpoint <- MCEndpoint
    Link <- MCLink
    KeyPair <- MCKeyPair
    MaxSkippedKeys = 1
    MaxEntries = 2
    MaxSent = 3
    MaxDummies = 1
    MaxRepeats = 1
SPECIFICATION Spec
INVARIANT RealNeverDropped
CHECK_DEADLOCK FALSE
