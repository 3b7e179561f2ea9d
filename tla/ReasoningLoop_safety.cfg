SPECIFICATION FairSpec
CONSTANTS
    MaxLoops = 3
    MergeOrder <- ByName
INVARIANTS InBudget
PROPERTIES SourcesStay Terminates
CHECK_DEADLOCK FALSE
