SPECIFICATION Spec
CONSTANTS
    Names = {"admin", "dana"}
    Agents = {a1}
    MaxPasswords = 3
    Threads = {d1, d2}
    MaxTokens = 3
CONSTRAINTS
    OneBusyDatabase
    FewEvents
    FewSessions
SYMMETRY ThreadSymmetry
INVARIANT NoSessionOutlivesPassword
