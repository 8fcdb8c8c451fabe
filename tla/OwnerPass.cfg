CONSTANTS
    Artifacts = {1, 2, 3}
    Lost = {4}
    Bundles <- AllBundles
SPECIFICATION Spec
INVARIANTS
    PassIsSound
PROPERTY Ends
CHECK_DEADLOCK FALSE
