SPECIFICATION Spec
CONSTANTS
    b1 = b1
    b2 = b2
    w1 = w1
    w2 = w2
    Builders <- TwoBuilders
    Workers <- TwoWorkers
    Versions <- AllVersions
    QueueCap = 1
    MaxTaskRetries = 1
    MaxRuns = 2
    MaxFaults = 1
INVARIANTS TypeOK LockExcludes OneAtATime LostOnlyIfSkipped
PROPERTIES VersionsUnique RequestsSettle
CHECK_DEADLOCK FALSE
