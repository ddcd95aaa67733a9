SPECIFICATION Spec
CONSTANTS
    Threads = {t1, t2}
    Bufs = {b1}
    Empty = Empty
    None = None
    Ops = {"stop", "close"}
    Settable = {"past"}
INVARIANT
    ShutdownOnOwnDescriptor
