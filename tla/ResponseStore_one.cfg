SPECIFICATION Spec
CONSTANTS
    r1 = r1
    r2 = r2
    Replicas <- OnePod
    UniquePrompt = FALSE
    Deltas = 3
    MaxFaults = 2
INVARIANTS TypeOK PromptTextStored DeltasAppended FinalShown LogsOnceChecked
CHECK_DEADLOCK FALSE
