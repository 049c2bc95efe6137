CONSTANTS
    MaxText = 1
    MaxCalls = 2
    MaxParts = 1
    MaxTurns = 2
    MaxSteps = 2
    MaxChunks <- ThreeThenOne
    Dangerous = {2}
    MaxFaults = 2
SPECIFICATION ViewFairSpec
INVARIANTS
    StreamedAsMeant
    BubbleTellsTheTurn

    
CHECK_DEADLOCK FALSE
