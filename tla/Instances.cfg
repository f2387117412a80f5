SPECIFICATION FairSpec
CONSTANTS
    Instance = {i1}
    DiffTime = 1
    Delay = 1
    StartTime = 2
    MaxTime = 5
    MaxWrites = 3
    MaxService = 2
    MaxFail = 2
    MayClean = TRUE
INVARIANTS CacheSound NothingMissed
PROPERTY CatchesUp
