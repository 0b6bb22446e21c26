SPECIFICATION FairSpec
CONSTANTS
    MaxRetries = 1
    Ids = {1, 2}
    RecursionBudget = 11
    MaxRecursionCount = 2
    MaxTotalChunks = 3
    MaxChunksPerRecursion = 1
    MaxGroups = 2
    MaxSteps = 1
    Streaming = TRUE
    MemoryPacks = {TRUE, FALSE}
    MaxForks = 1
    MaxRounds = 2
INVARIANTS TypeOK PageInRange RecursionBounded RequestAccounted NoSpuriousFork
PROPERTY Termination
CHECK_DEADLOCK FALSE
