SPECIFICATION Spec
CONSTANTS
    a1 = a1
    s1 = s1
    s2 = s2
    t1 = t1
    t2 = t2
    Agents <- MCOneAgent
    Servers <- MCOneServer
    Tools <- MCOneTool
    Params <- MCParams
    Values <- MCValues
    EndsWithRel <- MCEndsWithRel
    AllAgents = AllAgents
    Star = Star
    Missing = Missing
    None = None
    SessionIds = {g1, g2}
    Documents <- MCDocuments
    CallArgs <- MCExternal
    Discoveries <- MCDiscoveries
    MaxRequests = 3
    MaxRestarts = 1
INVARIANTS
    TypeOK
    AuditBracketsExecution
    OnlyAdmittedAgents
    DecisionIsCurrent
    ListingIsCurrent
PROPERTY
    ImplementsGovernedCalls
