SPECIFICATION FairSpec
CONSTANTS
    Callers = {c1, c2}
    Helper = Helper
    None = None
    Ops = {"handshake", "read", "write", "close"}
    MaxChunks = 2
    UserDeadlines = {"past"}
INVARIANTS
    NoDataBeforeVerdict
    CompleteIsTruthful
    NoHelperLeak
    ReadersSeeEOF
    CloseOrder
PROPERTIES
    VerdictIsFinal
    CancelEndsHandshake
    CloseEndsCalls
