SPECIFICATION Spec
CONSTANTS
    DayLen = 6
    Zones <- MCZones
    TimesOfDay <- MCTimes
    Horizon = 4
    MaxTime = 22
    MaxLate = 1
INVARIANTS
    FiresOnTheWall
    OncePerWallTime
    NothingMissed
    NeverGivesUp
CHECK_DEADLOCK FALSE
