SPECIFICATION Spec
CONSTANTS
    r1 = r1
    r2 = r2
    Replicas <- TwoPods
    UniquePrompt = TRUE
    Deltas = 1
    MaxFaults = 1
SYMMETRY PodSymmetry
INVARIANTS PromptTextStored
CHECK_DEADLOCK FALSE
