CONSTANTS
    Node = {n1, n2}
    NoNode = NoNode
    Expire = 3
    Interval = 1
    Lag = 1
    MaxBacklog = 1
    Disturbances = {{"switch"}, {"release", "error"}, {"crash"}}
    Times = 1
SPECIFICATION Spec
INVARIANTS PeersSound NoFalseDown
PROPERTY Recovers
