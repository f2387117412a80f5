CONSTANTS
    Node = {n1, n2}
    NoLeader = NoLeader
    LeaseTime = 4
    TickTime = 2
    VersionSize = 5
    Minute = 10
    MaxFaults = 2
    MaxYears = 1
    CalmRounds = 5
SPECIFICATION Spec
INVARIANTS TypeOK MachineSound CalmUniqueLeader
PROPERTIES RowDecides OneLeaderAgain
