SPECIFICATION FairSpec
CONSTANTS
    Callers = {c1}
    Helper = Helper
    None = None
    Ops = {"handshake"}
    MaxChunks = 1
    UserDeadlines = {"none"}
CHECK_DEADLOCK FALSE
PROPERTIES
    CancelEndsHandshake
