SPECIFICATION FairSpec
CONSTANTS
    Agents = {"a1"}
    Tools = {"t1"}
    Threads = {"d1", "d2"}
    Settings <- MCSettings
    MaxRows = 3
    MaxMinutes = 2
INVARIANTS
    TypeOK
    FirstCallsAreFlagged
PROPERTIES
    BurstIsNoticed
    ImplementsAlertBook
    LockIsReleased
    EveryWriterEnds
