\* Two saves of one file with two outside writes and two faults.
SPECIFICATION FairSpec
CONSTANTS
    MaxInodes = 3
    MaxContents = 4
    MaxFaults = 2
INVARIANTS
    WholeUnlessOutside
    NothingUnseenReplaced
    CopiesExcused
PROPERTY SaveEnds
CHECK_DEADLOCK FALSE
