SPECIFICATION Spec
CONSTANTS
    Threads = {t1, t2, t3}
    Bufs = {b1, b2}
    Empty = Empty
    None = None
    Ops = {"read", "write", "query", "close"}
    Settable = {"none", "past"}
SYMMETRY Symmetry
INVARIANTS
    ResourcesOutliveCalls
    CloseNotifyIsLast
    WriteSendsOwnBuffer
    ReleasedExactlyOnce
    ShutdownOnOwnDescriptor
PROPERTIES
    NoWriteAfterFailure
    ImplementsAdmission
