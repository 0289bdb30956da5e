SPECIFICATION Spec
CONSTANTS
    Slugs = {s1}
    Tools = {t1, t2}
    Threads = {d1, d2}
    MaxProcesses = 2
CONSTRAINT BareUnlessHttp
SYMMETRY ThreadsAndTools
INVARIANTS
    TypeOK
    ToolsHaveTrust
    
    GhostsNeedARace
    CredentialsAreSent
PROPERTY
    ImplementsCatalogue
