SPECIFICATION Spec
CONSTANTS
    MaxRetries = 1
    Ids = {1, 2}
    RecursionBudget = 10
    MaxRecursionCount = 1
    MaxTotalChunks = 3
    MaxChunksPerRecursion = 1
    MaxGroups = 1
    MaxSteps = 0
    Streaming = FALSE
    MemoryPacks = {TRUE}
    MaxForks = 0
    MaxRounds = 3
INVARIANT ReplansBounded
CHECK_DEADLOCK FALSE
