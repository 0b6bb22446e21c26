SPECIFICATION Spec
CONSTANTS
    m1 = m1
    m2 = m2
    Models <- TwoModels
    Jobs = {1, 2}
    Chunks = 2
    BatchSize = 2
    MaxMerges = 1
    MaxFaults = 1
INVARIANTS TypeOK DatabaseFollowsTopic BuildingHasJob OneComplete VectorsArrive
PROPERTIES BuildingSettles
CHECK_DEADLOCK FALSE
