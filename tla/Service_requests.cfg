SPECIFICATION FairSpec
CONSTANTS
    RunIDs = {1, 2}
    Callers = {c1}
    MaxGenerations = 2
    MaxEpochs = 1
    MaxRequests = 1
    MaxClock = 1
    MaxStepBacks = 0
    MaxRemembered = 1
    Configs = {"off", "daily"}
INVARIANTS
    SingleFlight
    ShutdownQuiet
PROPERTIES
    NoStaleCall
    ShutdownEnds
    PendingClears
    ReplacedRunsEnd
CHECK_DEADLOCK FALSE
