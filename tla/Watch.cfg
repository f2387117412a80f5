SPECIFICATION Spec
CONSTANTS
    Client = {c1}
    Conn = {k1, k2}
    NoConn = nok
    File = {f1}
    MaxVersion = 2
    QueueSize = 1
    MayExpire = TRUE
    MayEvict = TRUE
    MayDelete = TRUE
    MayFail = TRUE
SYMMETRY RequestSymmetry
INVARIANT WatchSound
PROPERTY KnownForward
CHECK_DEADLOCK FALSE
