SPECIFICATION Spec
CONSTANTS
    s1 = s1
    s2 = s2
    Searchers <- OneSearcher
    Request <- Solo
    N <- SoloTwo
    MaxAttempts = 1
    MaxFaults = 1
INVARIANT NeverStuck
CHECK_DEADLOCK FALSE
