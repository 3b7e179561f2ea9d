SPECIFICATION FairSpec
CONSTANTS
    Job = {j1, j2}
    Entity = {e1}
    MaxSize = 1
    MaxRetries = 3
    Retention = 0
    MaxTime = 1
    NoJob = NoJob
PROPERTIES
    WorkerProgresses
CHECK_DEADLOCK FALSE
