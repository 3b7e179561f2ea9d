SPECIFICATION MCSpec
CONSTANTS
    q = q
    f = f
    Keys <- TheKeys
    Query = q
    Feedback = f
    Callers = {c1, c2}
    Tenants = {t1}
    Ciphers = {"plain", "k1"}
    OldKeys = {q}
    Capacity = 1
    MaxWrites = 3
    MaxRestarts = 1
    Limit = 1
    Window = 2
    MaxAsks = 4
    MaxDelay = 2
INVARIANTS
    CacheConsistent
    LimitHolds
PROPERTIES
    LegacyRetired
SYMMETRY Symmetric
CHECK_DEADLOCK FALSE
