SPECIFICATION Spec
CONSTANTS
    a1 = a1
    a2 = a2
    s1 = s1
    t1 = t1
    t2 = t2
    Agents <- MCAgents
    Servers <- MCServers
    Tools <- MCTools
    Params <- MCParams
    Values <- MCValues
    EndsWithRel <- MCEndsWithRel
    AllAgents = AllAgents
    Star = Star
    Missing = Missing
    Consoles = {c1}
    HandWritten <- MCHandWritten
    Malformed <- MCMalformed
    NoReply <- MCNoReply
    BuilderOperators <- MCBuilderOperators
    BuilderValues <- MCBuilderValues
    Discoveries <- MCDiscoveries
    MaxEdits = 1
    MaxRefreshes = 1
INVARIANTS
    TypeOK
    CallableIsVisible
PROPERTIES
    SyncKeepsNamedEntries
    StagedRuleIsLocal
    DenyRuleTakesEffect
    ParamRuleMovesItsCalls
