CONSTANTS
    None = None
    Client = {alice, bob, carol}
    Opk = {1000, 1001}
    MaxStarts = 4
SPECIFICATION Spec
INVARIANTS
    TypeOK
    OpkOncePerRun
    ResponderSharesRoot
    EngineIsOnDisk
CHECK_DEADLOCK FALSE
