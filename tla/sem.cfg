SPECIFICATION SemSpec
CONSTANTS
    QueueSize = 6
    U32 = 100
    LLONG_MAX = 999
    CpuId = 0
    UsersMax = 3
    Users = {0, 1, 2}
    Deadline <- MCDeadline3
    WaitTimes = {2}
    MaxTime = 4
    NbEventMax = 1
    Counters = {1}
    Timeouts = {0}
    MaxCount = 1
    Signallers = {1}
    MaxTokens = 2
INVARIANTS
    SemTypeOK
    TokensConserved
    OneQueue
PROPERTIES
    ReleasesNearest
