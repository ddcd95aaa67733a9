SPECIFICATION Spec
CONSTANTS
    Configs <- MCConfigs
    CAs = {"a", "b"}
    Leaves = {"leaf"}
    Groups = {"x", "y"}
    Protocols = {"h1", "h2"}
    LegacySuites = {"legacy", "legacy2"}
    TLS13Suites = {"tls13"}
INVARIANTS
    InForceFromOne
    PeerAuthenticated
    ReportTruthful
    AgreedFromSelected
