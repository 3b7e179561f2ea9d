SPECIFICATION FairStartup
CONSTANTS
    Caller = {c1, c2, c3}
    Threshold = 2
    ResetTimeout = 2
    MaxFailures = 6
    Instance = {i1, i2}
    Here = i1
    Versions = 3
    Unique = 3
INVARIANTS
    BreakerConsistent
    VersionsAreTrue
PROPERTIES
    BacksOff
    StopsRejecting
    StartEnds
