SPECIFICATION MCSpec
CONSTANTS
    Doc <- DocsAre
    Name <- Names
    NameOf <- NameOfDoc
    Text <- TextOfDoc
    Callers = {"w1", "w2"}
    Consumer = "consumer"
    Limit = 2
    MaxSize = 2
    MaxVersion = 2
    MaxFailures = 1
    MaxDeletes = 1
    Uri <- Uris
    Provider <- ProviderOf
    Listed <- ListedUris
    Long <- LongDocs
    Window = 1
    Keep = 1
    MaxStream = 2
INVARIANTS EdgesHold
PROPERTIES PollerCatchesUp
CHECK_DEADLOCK FALSE
