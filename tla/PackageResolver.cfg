CONSTANTS
    A = A
    B = B
    Root = R
    Package = {R, A, B}
    Version <- MCVersion
    Rank <- MCRank
    Constraint <- MCConstraint
    Satisfies <- MCSatisfies
    Unsupported = Unsupported
    NoEntry = NoEntry
    MaxNodes <- MCMaxNodes
    Worlds <- MCWorlds
SPECIFICATION FairSpec
INVARIANTS
    SelectionIsSound
PROPERTIES
    SelectionDescends
    Termination
    ImplementsContract
CHECK_DEADLOCK FALSE
