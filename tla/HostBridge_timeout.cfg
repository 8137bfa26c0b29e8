SPECIFICATION Spec
CONSTANTS
    Goroutines = {"run"}
    Program <- RunOnly
    Timeout <- MCTimeout
    MaxElapsed = 2
INVARIANT RequestBounded
CHECK_DEADLOCK FALSE
