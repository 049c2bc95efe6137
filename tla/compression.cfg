CONSTANTS
    KeepRecent = 1
    MaxGrowth = 1
    Budget = 3
    Results = 3
    MaxAsks = 3
    MaxSteps = 2
    MaxClears = 1
SPECIFICATION CompressionFairSpec
CHECK_DEADLOCK FALSE
INVARIANTS
    HistoryWellFormed
PROPERTIES
    ChainKeepsNewest
    EveryJobEnds
