SPECIFICATION FairSpec
CONSTANTS
    Calls = {a, b}
    MaxSelections = 2
INVARIANTS
    NothingLeaks
    ConnectionIsWhole
    ContextOutlivesConstruction
PROPERTIES
    ListenerCloseReturns
