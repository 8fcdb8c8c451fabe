SPECIFICATION Spec
CONSTANTS
    Possible <- MCPossible
    Limits <- MCLimits
    Paths <- MCPaths
    Outside <- MCOutside
INVARIANT ExitIsHonest
