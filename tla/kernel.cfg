SPECIFICATION TaskSpec
CONSTANTS
    QueueSize = 6
    U32 = 100
    LLONG_MAX = 999
    CpuId = 0
    UsersMax = 3
    Users = {0, 1, 2}
    Deadline <- MCDeadline3
    WaitTimes = {2, 3}
    MaxTime = 6
INVARIANTS
    TypeOK
    ReadyOnce
    TaskNotLost
    WakesOnTime
    KeyMatchesTcb
    AcknowledgeComes
PROPERTIES
    SwitchPicksNearest
