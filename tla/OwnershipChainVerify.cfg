SPECIFICATION OwnSpec
CONSTANTS
    Bodies <- ChainVerifyAlone
    Unguarded = {}
    LeftToFinalizer = {}
    MaxLaps = 2
CHECK_DEADLOCK FALSE
INVARIANTS
    NothingIsLeftToFinalizer
