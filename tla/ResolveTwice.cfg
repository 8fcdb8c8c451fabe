CONSTANTS
    A = A
    B = B
    C = C
    D = D
    Root = R
    Package = {R, A, B, C, D}
    Version <- MCVersion
    Rank <- MCRank
    Constraint <- MCConstraint
    Satisfies <- MCSatisfies
    Unsupported = Unsupported
    NoEntry = NoEntry
    MaxNodes <- MCMaxNodes
    Worlds <- TwiceWorlds
    Rearranged <- MCRearranged
SPECIFICATION SpecTwice
INVARIANTS
    OrderIsImmaterial
CHECK_DEADLOCK FALSE
