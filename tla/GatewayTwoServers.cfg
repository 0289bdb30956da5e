SPECIFICATION FairSpec
CONSTANTS
    a1 = a1
    s1 = s1
    s2 = s2
    t1 = t1
    t2 = t2
    Agents <- MCOneAgent
    Servers <- MCTwoServers
    Tools <- MCOneTool
    Params <- MCParams
    Values <- MCValues
    EndsWithRel <- MCEndsWithRel
    AllAgents = AllAgents
    Star = Star
    Missing = Missing
    None = None
    SessionIds = {g1}
    Documents <- MCAllowAll
    CallArgs <- MCExternal
    Discoveries <- MCDiscoveries
    MaxRequests = 2
    MaxRestarts = 0
INVARIANT
    InitializedFirst
PROPERTY
    EveryRequestAnswered
