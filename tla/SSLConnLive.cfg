SPECIFICATION FairSpec
CONSTANTS
    Threads = {t1, t2}
    Bufs = {b1}
    Empty = Empty
    None = None
    Ops = {"handshake", "read", "write", "stop", "close"}
    Settable = {"future"}
PROPERTIES
    StopEndsCalls
    DeadlineEndsCall
