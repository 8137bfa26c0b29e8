SPECIFICATION Spec
CONSTANTS
    RunIDs = {1, 2}
    Callers = {c1}
    MaxGenerations = 2
    MaxEpochs = 2
    MaxRequests = 0
    MaxClock = 1
    MaxStepBacks = 1
    MaxRemembered = 1
    Configs = {"bad", "off", "manual", "daily", "hourly"}
INVARIANTS
    NextTruthful
    VerdictBacked
    OccurrenceOnce
CHECK_DEADLOCK FALSE
