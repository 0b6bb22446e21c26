SPECIFICATION FairSpec
CONSTANTS
    MaxEpisodes = 3
    MaxPieces = 2
    MaxFaults = 2
INVARIANTS TypeOK ReadersAgree FinalIsTheAnswer AggregationsAgree
PROPERTY CompletionsSettle
CHECK_DEADLOCK FALSE
