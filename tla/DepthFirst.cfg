CONSTANTS
    N = 3
    Graphs <- AllGraphs
    Walkers = {"first", "each", "cycle"}
SPECIFICATION Spec
INVARIANTS
    WalkIsSound
PROPERTY Ends
CHECK_DEADLOCK FALSE
