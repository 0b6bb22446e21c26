SPECIFICATION Spec
CONSTANTS
    MaxEpisodes = 2
    MaxPieces = 2
    MaxFaults = 0
INVARIANTS AllChunksAggregated
CHECK_DEADLOCK FALSE
