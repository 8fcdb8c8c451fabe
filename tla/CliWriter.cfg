SPECIFICATION Spec
CONSTANTS
    a = a
    b = b
    c = c
    Run = {a, b, c}
    Absent = Absent
    Older = Older
    Path <- MCPath
    TempOf <- MCTempOf
    Requests <- MCRequests
    Longest = 3
    Found <- MCFound
    Serial <- Again
    Faulty = {a}
    Crashes = {a, b}
INVARIANTS
    LeftoversHarmless
PROPERTIES
    AtomicFinals
    OutputsAreKept
CHECK_DEADLOCK FALSE
