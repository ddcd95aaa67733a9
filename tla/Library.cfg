SPECIFICATION LibSpec
CONSTANTS
    Bodies <- AllBodies
    Unguarded <- NoClosedCheck
    LeftToFinalizer <- DroppedOnFailure
    MaxLaps = 2
    Exts = {"san", "ku", "ski"}
    Repeatable = {"san"}
    CopyAllowed = {"san", "ku"}
    KeyIdExts = {"ski"}
    CertSources = {"NewCertificate", "LoadCertificateDER", "PKCS12_Parse", "PeerCertificates"}
    ReqCalls = {"SetChallengePassword", "MarshalDER", "SignFails", "CopyExtensionTo"}
    MaxStaged = 2
    Names = {n1, n2}
    KeyIds = {k1, k2}
    NoId = NoId
    MaxPool = 2
    IDs = {i1, i2}
    Handles = {h1, h2, h3, h4}
    None = None
    VersionMod = 3
    MaxHistory = 3
    Kinds = {"bytes", "writer", "file", "stdout"}
    MaxChunk = 4
    MaxBytes = 7
    Callers = {c1, c2, c3}
    Algorithms = {d1, d2}
CHECK_DEADLOCK FALSE
INVARIANTS
    LibraryTypeOK
    NoObjectLeaks
    ReleasedOnceAndLast
    InputsOutliveCalls
    ClosedIsRejected
    RequestIsHonoured
    ChainIsLinked
    OrderDoesNotMatter
    SupersededIsReachable
    VersionsAreDistinct
    SinkKeepsItsWord
    DescriptorsAreBounded
PROPERTIES
    SignatureLastsBut
    HistoryIsAppendOnly
    Terminates
