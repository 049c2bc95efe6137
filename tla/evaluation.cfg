CONSTANTS
    c1 = c1
    c2 = c2
    Old = Old
    Absent = Absent
    Capacity = 2
    Cases = {c1, c2}
    Seeded = {c1}
    Long = {c1}
    MaxFaults = 1
SPECIFICATION FairSpec
INVARIANTS
    CasesAreSerial
    CaseLeavesNoTrace
PROPERTIES
    EveryCaseIsCleanedUp
CHECK_DEADLOCK FALSE
