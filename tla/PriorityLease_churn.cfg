SPECIFICATION FairSpec
CONSTANTS
    a1 = a1
    a2 = a2
    a3 = a3
    a4 = a4
    f1 = f1
    f2 = f2
    NoMarker = NoMarker
    BadMarker = BadMarker
    NoAuth = NoAuth
    AuthIndices = {a1, a3}
    Physical = {a1}
    Disabled = {}
    Files = {f1}
    FileOf <- OneFileOf
    InitContents <- OneFileContents
    UserPriorities <- Edits
    RuntimeOnlyPriority = 3
    TemporaryPriority = TRUE
    MaxRuns = 1
    MaxExternal = 3
    MaxFaults = 1
INVARIANTS
    TypeOK
    TokensPreserved
PROPERTIES
    LeaseNeverDropped
    PromiseKept
    MarkersCleared
