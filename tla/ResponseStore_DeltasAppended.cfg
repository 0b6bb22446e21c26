SPECIFICATION Spec
CONSTANTS
    r1 = r1
    r2 = r2
    Replicas <- TwoPods
    UniquePrompt = TRUE
    Deltas = 2
    MaxFaults = 0
SYMMETRY PodSymmetry
INVARIANTS DeltasAppended
CHECK_DEADLOCK FALSE
