SPECIFICATION ContextSpec
CONSTANTS
    QueueSize = 6
    U32 = 100
    LLONG_MAX = 999
    CpuId = 0
    UsersMax = 2
    Users = {0, 1}
    Deadline <- MCDeadline
    WaitTimes = {1, 2}
    MaxTime = 4
INVARIANTS
    RegistersKept
    TicksNotMasked
    StackFits
PROPERTIES
    KernelImplemented
