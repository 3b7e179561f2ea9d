SPECIFICATION MCSpec
CONSTANTS
    Queries = {q1, q2}
    Keys = {k1, k2}
    MaxRequests = 3
    BranchCount = 2
    MaxPasses = 2
INVARIANTS
    TurnsAreTheirs
    AnswersHold
PROPERTIES
    RequestEnds
CHECK_DEADLOCK FALSE
