CONSTANTS
    rm = rm
    rmdir = rmdir
    escalated = escalated
    other = other
    A = A
    B = B
    Calls = {rm, rmdir, escalated, other}
    Sessions = {A, B}
    SessionOf <- MCSessionOf
    OnceOnly = {escalated}
    Token <- MCToken
    Covered <- MCCovered
    MaxResolved = 1
    MaxAnswers = 2
    ShellMayFail = TRUE
SPECIFICATION FairSpec
CHECK_DEADLOCK FALSE
INVARIANTS
    TableExact
    RetrySafe
PROPERTIES
    EveryAskEnds
    ImplementsApproval
