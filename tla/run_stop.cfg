CONSTANTS
    r1 = r1
    r2 = r2
    s1 = s1
    Runs = {r1, r2}
    Subagents = {s1}
    MaxWorkers = 1
    MaxTurns = 1
    MaxStops = 2
    Serial = TRUE
    FactoryMayFail = TRUE
SPECIFICATION Spec
SYMMETRY Symmetry
CHECK_DEADLOCK FALSE
INVARIANTS
    SlotAccounting
    
    StoppedOnlyIfAsked
    StopWins
