SPECIFICATION FairSpec
CONSTANTS
    s1 = s1
    s2 = s2
    Searchers <- TwoSearchers
    Request <- Strangers
    N <- TwoAndOne
    MaxAttempts = 1
    MaxFaults = 1
INVARIANTS TypeOK OwnRequest GatheredExactly StuckOnlyIfDisturbed NoResultLost
PROPERTY SearchesEnd
CHECK_DEADLOCK FALSE
