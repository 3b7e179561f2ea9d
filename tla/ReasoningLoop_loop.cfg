SPECIFICATION LoopSpec
CONSTANTS
    MaxLoops = 3
    MergeOrder <- ByName
INVARIANT LoopBounded
CHECK_DEADLOCK FALSE
