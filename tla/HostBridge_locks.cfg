SPECIFICATION FairSpec
CONSTANTS
    Goroutines = {"run", "scheduler", "recovery"}
    Program <- MCProgram
    Timeout <- MCTimeout
    MaxElapsed = 2
INVARIANT OneLateCall
PROPERTY EntryPointsReturn
CHECK_DEADLOCK FALSE
