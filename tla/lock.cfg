\* Stale words, 16 being one that reads as 0; stale numbers within the bound.
SPECIFICATION FairSpec
CONSTANTS
    Tasks = {0, 1}
    Cpu <- MCCpu
    Deadline <- MCDeadline
    U16 = 16
    U32 = 256
    InitialWords = {0, 1, 16}
    InitialNumbers = {0, 1, 3}
    MaxNumber = 4
INVARIANTS
    TypeOK
    MutualExclusion
    FirstComeFirstServed
PROPERTIES
    ImplementsLock
    EveryTaskServed
CHECK_DEADLOCK FALSE
