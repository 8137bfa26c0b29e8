SPECIFICATION FairSpec
CONSTANTS
    Configs <- MCConfigs
    Listings <- MCListings
    Runtimes <- MCRuntimes
    Bodies <- MCBodies
    MaxIndices = 3
    MaxRuns = 1
INVARIANTS
    CountsAddUp
    CompleteUnlessSaid
    OneRequestEach
    OnlyAsked
    LeftoverReported
PROPERTY RunEnds
CHECK_DEADLOCK FALSE
