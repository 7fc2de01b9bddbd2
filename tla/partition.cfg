\* Four tasks of any of five shapes, created in any order, on two CPUs.
SPECIFICATION Spec
CONSTANTS
    QueueSize = 6
    U32 = 100
    LLONG_MAX = 999
    Users = {0, 1, 2, 3}
    UsersMax = 4
    CpuId = 1
    NbProcessors = 2
    MaxCpuUsage = 90
    Properties <- MCProperties
    Scale = 12
INVARIANTS
    PartitionTypeOK
    DeadlinesCanBeMet
    EveryTaskPlacedOnce
PROPERTIES
    BiggestToLeastLoaded
CHECK_DEADLOCK FALSE
