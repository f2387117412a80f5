SPECIFICATION FairSpec
CONSTANTS
    Instance = {i1}
    Worker = {w1, w2}
    Client = {c1}
    MaxSvc = 1
    MaxInst = 2
    Overlap = 1
INVARIANT KnownSound
PROPERTY Settles
CHECK_DEADLOCK FALSE
