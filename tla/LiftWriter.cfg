SPECIFICATION FairSpec
CONSTANTS
    a = a
    b = b
    c = c
    Lift = {a, b}
    Absent = Absent
    Older = Older
    Path <- PlainPath
    TempOf <- MCTempOf
    Fenced <- MCFenced
    Requests <- MCRequests
    Emissions = {"Blocked", "Document"}
    Faults = {"open", "write", "rename"}
    Stuck = {b}
    Crashes = {b}
INVARIANTS
    TempsAreKept
PROPERTIES
    PairIsKept
    AtomicFinals
    EveryLiftEnds
CHECK_DEADLOCK FALSE
