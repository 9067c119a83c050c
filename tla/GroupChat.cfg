CONSTANTS
    None = None
    alice = alice
    bob = bob
    carol = carol
    Client = {alice, bob, carol}
    Creator = alice
    InitialMembers <- MCThree
    max_entries = 1
    MaxSent = 2
    MaxChanges = 3
    MaxCalls = 4
    MaxFaults = 1
SPECIFICATION Spec
INVARIANTS
    TypeOK
    DisplayedOnce
    TreeConsistent
    SameEpochSameKey
    RemovedCannotDerive
CHECK_DEADLOCK FALSE
