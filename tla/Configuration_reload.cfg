SPECIFICATION Spec
CONSTANTS
    Documents <- MCDocuments
    KnownZones = {5, 6}
    Local = 8
    OpenAI = 9
    ExitProtocols = {9, 10}
    MaxTimes = 3
    MaxApplied = 3
INVARIANTS
    ReloadTakesEffect
    FiltersNeverWiden
PROPERTY RepetitionChangesNothing
CHECK_DEADLOCK FALSE
