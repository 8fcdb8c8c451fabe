CONSTANTS
    first = first
    second = second
    negative = negative
    change = change
    Unknown = Unknown
    Runs <- MCRuns
    Cases <- MCCases
    Adapters <- MCAdapters
    Compatibility <- MCCompatibility
    Verdict <- MCVerdict
    Prints <- MCPrints
    Worlds <- MCWorlds
SPECIFICATION Spec
INVARIANTS
    GreenIsEarned
    StagingIsWhole
PROPERTIES
    EveryRunEnds
CHECK_DEADLOCK FALSE
