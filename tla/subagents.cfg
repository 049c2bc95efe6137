CONSTANTS
    conversation = conversation
    first = first
    second = second
    nobody = nobody
    Parent = conversation
    Subs = {first, second}
    Owners = {conversation, first, second}
    Outsider = nobody
    Letters = {}
    Awaited = {first}
    MaxWorkers = 1
    MaxStops = 1
    MaxDeletes = 1
    AcquireMayRaise = TRUE
SPECIFICATION FairSpec
CHECK_DEADLOCK FALSE
INVARIANTS
    DoneMeansDecided
    EveryEndHasACause
PROPERTIES
    EverySubReports
