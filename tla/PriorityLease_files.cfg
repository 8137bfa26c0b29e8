SPECIFICATION Spec
CONSTANTS
    a1 = a1
    a2 = a2
    a3 = a3
    a4 = a4
    f1 = f1
    f2 = f2
    NoMarker = NoMarker
    BadMarker = BadMarker
    NoAuth = NoAuth
    AuthIndices = {a1, a2, a3, a4}
    Physical = {a1, a2, a3}
    Disabled = {}
    Files = {f1, f2}
    FileOf <- SharedFileOf
    InitContents <- SharedContents
    UserPriorities <- OneEdit
    RuntimeOnlyPriority = 3
    TemporaryPriority = TRUE
    MaxRuns = 1
    MaxExternal = 1
    MaxFaults = 1
INVARIANTS
    RestorableToIntended
    SingleBoost
    CleanAfterTask
