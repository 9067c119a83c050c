CONSTANTS
    None = None
    alice = alice
    bob = bob
    carol = carol
    Client = {alice, bob, carol, dave}
    Creator = alice
    InitialMembers <- MCThree
    max_entries = 4
    MaxSent = 2
    MaxChanges = 0
    MaxCalls = 2
    MaxFaults = 0
SPECIFICATION Spec
PROPERTIES
    AllPendingDecrypted
CHECK_DEADLOCK FALSE
