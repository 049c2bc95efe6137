CONSTANTS
    r1 = r1
    r2 = r2
    s1 = s1
    s2 = s2
    Runs = {r1, r2}
    Subagents = {s1, s2}
    MaxWorkers = 2
    MaxTurns = 2
    MaxStops = 0
    Serial = TRUE
    FactoryMayFail = TRUE
SPECIFICATION FairSpec
CHECK_DEADLOCK FALSE
INVARIANTS
    TurnsContiguous
    ToolCallsPaired

    
    
