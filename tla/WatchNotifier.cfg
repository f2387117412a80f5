SPECIFICATION FairSpec
CONSTANTS
    Client = {c1}
    Conn = {k1, k2}
    NoConn = nok
    File = {f1}
    MaxVersion = 1
    QueueSize = 1
    MayExpire = FALSE
    MayEvict = FALSE
    MayDelete = FALSE
    MayFail = FALSE
PROPERTY NotifierReturns
CHECK_DEADLOCK FALSE
