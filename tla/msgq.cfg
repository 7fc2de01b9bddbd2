SPECIFICATION UsesSpec
CONSTANTS
    QueueSize = 12
    U32 = 100
    LLONG_MAX = 999
    CpuId = 0
    UsersMax = 3
    Users = {0, 1, 2}
    Deadline <- MCDeadline
    WaitTimes = {1, 3}
    MaxTime = 5
    QSize = 2
    Messages = {m1, m2}
    m1 = m1
    m2 = m2
    Unset = Unset
    Receivers = {2}
    Senders = {1}
    Timeouts = {0, 2}
    U16 = 16
INVARIANTS
    MsgTypeOK
    ReadyOnce
    NoMissedMessage
    ThereIsMsg
PROPERTIES
    ImplementsChannel
    PostsFindSleeper
