\* A deleted task is elected from the entry that it has left behind.
SPECIFICATION TaskSpec
CONSTANTS
    QueueSize = 6
    U32 = 100
    LLONG_MAX = 999
    CpuId = 0
    UsersMax = 2
    Users = {0, 1}
    Deadline <- MCDeadline2
    WaitTimes = {2, 3}
    MaxTime = 4
INVARIANTS
    DeletedNotElected
