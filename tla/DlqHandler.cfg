SPECIFICATION FairSpec
CONSTANTS
    m1 = m1
    m2 = m2
    Msgs <- TwoMsgs
    MaxRetries = 2
    MaxCrashes = 1
    MaxReplays = 1
    CountCap = 4
INVARIANTS TypeOK NoSilentLoss RetriesBounded
PROPERTIES ImplementsDelivery EventuallySettled
CHECK_DEADLOCK FALSE
