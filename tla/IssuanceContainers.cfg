SPECIFICATION IssuanceSpec
CONSTANTS
    Exts = {"san", "ku"}
    Repeatable = {"san"}
    CopyAllowed = {"san", "ku"}
    KeyIdExts = {}
    CertSources = {"PKCS12_Parse"}
    ReqCalls = {}
    MaxStaged = 2
CHECK_DEADLOCK FALSE
INVARIANTS
    SignatureCoversContent
