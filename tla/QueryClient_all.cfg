SPECIFICATION MCSpec
CONSTANTS
    QueryCount = 2
    MaxRetries = 1
    MaxTokens = 2
    MaxNews = 1
    MaxReloads = 1
INVARIANTS
    MessagesConsistent
    ConsoleConsistent
PROPERTIES
    QueryEnds
CHECK_DEADLOCK FALSE
