CONSTANTS
    None = None
    User = {alice, bob}
    LibraryUsers = {alice}
    MaxSockets = 3
    MaxFrames = 2
    MaxClosed = 1
SPECIFICATION FairSpec
INVARIANTS
    TypeOK
    RegisteredIsReachable
    InitNotDuplicated
    MessagesInOrder
PROPERTIES
    StartUpEnds
CHECK_DEADLOCK FALSE
