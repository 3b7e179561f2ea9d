SPECIFICATION ListedSpec
CONSTANTS
    t1 = t1
    t2 = t2
    Request = {r1, r2, r3}
    Deleter = {r3}
    Thread = {t1, t2, t3}
    Key = {k1, k2}
    MaxTurns = 2
    MaxIndex = 2
    MaxRetries = 2
    OldIndex <- TwoOld
    OldOwner = k1
    Expiring = {t3, k1}
    Trouble = {"abandon", "lost_reply", "broken"}
INVARIANTS
    ListsAgree
    TurnsOnce
PROPERTIES
    ThreadsOnlyGrow
    ListedStays
SYMMETRY Symmetric
CHECK_DEADLOCK FALSE
