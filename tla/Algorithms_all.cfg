SPECIFICATION Spec
CHECK_DEADLOCK FALSE
CONSTANTS
    Exclusive <- MCExclusive
    DeepCap = 2
    ConfidenceThreshold = 70
    SparseBelow = 3
    PairsAsked = 2
    PairsRun = 3
INVARIANTS
    EvidenceHolds
    RankingHolds
    CitationsHold
    AnswersAreGrounded
    SearchKeepsFinds
    ToldIsKept
    CallsAreAccounted
