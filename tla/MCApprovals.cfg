SPECIFICATION FairSpec
CONSTANTS
    Ids = {i1}
    Threads = {d1, d2}
    MaxRestarts = 1
INVARIANTS
    TypeOK
    RunsAreApproved
    PolicyStillBinds
PROPERTIES
    ImplementsLedger
    EveryRequestServed
