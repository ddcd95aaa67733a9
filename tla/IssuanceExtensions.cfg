SPECIFICATION IssuanceSpec
CONSTANTS
    Exts = {"san", "ku"}
    Repeatable = {"san"}
    CopyAllowed = {"san", "ku"}
    KeyIdExts = {}
    CertSources = {"NewCertificate"}
    ReqCalls = {"MarshalDER"}
    MaxStaged = 2
CHECK_DEADLOCK FALSE
INVARIANTS
    ExtensionsAreReadable
