SPECIFICATION Spec
CONSTANTS
    Ids = {i1}
    Threads = {d1, d2}
    MaxRestarts = 0
SYMMETRY ThreadSymmetry
PROPERTY
    DecisionIsFinal
