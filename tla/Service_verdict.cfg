SPECIFICATION Spec
CONSTANTS
    RunIDs = {1, 2}
    Callers = {c1}
    MaxGenerations = 1
    MaxEpochs = 1
    MaxRequests = 1
    MaxClock = 1
    MaxStepBacks = 0
    MaxRemembered = 2
    Configs = {"manual"}
INVARIANTS
    VerdictTruthful
CHECK_DEADLOCK FALSE
