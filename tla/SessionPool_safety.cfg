SPECIFICATION MCSpec
CONSTANTS
    Callers = {c1, c2}
    MaxRespawns = 1
    MaxSessions = 3
    MaxRequests = 4
    MaxVersion = 2
INVARIANTS
    CallersAreTold
    CacheFresh
    NoOrphans
SYMMETRY Symmetric
CHECK_DEADLOCK FALSE
