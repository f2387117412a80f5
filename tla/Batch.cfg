CONSTANTS
    Task = {t1, t2}
    Worker = {w1, w2}
    QueueSize = 1
    MaxBatchCount = 2
    StopKinds = {"now", "graceful"}
    MaxPanics = 1
SPECIFICATION Spec
INVARIANTS Handover ChannelsSafe
PROPERTY AcceptedAnswered
CHECK_DEADLOCK FALSE
