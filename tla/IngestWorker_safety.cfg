SPECIFICATION Spec
CONSTANTS
    Job = {j1, j2, j3}
    Entity = {e1}
    MaxSize = 2
    MaxRetries = 2
    Retention = 0
    MaxTime = 2
    NoJob = NoJob
INVARIANTS
    JobsConsistent
    DoneIsStored
    FailureIsEarned
PROPERTIES
    LatestWins
    OutcomeRetained
    ImplementsService
SYMMETRY Symmetric
CHECK_DEADLOCK FALSE
