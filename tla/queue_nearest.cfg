\* With four entries the queue gives a task that is not the nearest.
SPECIFICATION ReadySpec
CONSTANTS
    QueueSize = 10
    U32 = 100
    LLONG_MAX = 999
    Tasks = {0, 1, 2, 3}
    Deadlines = {1, 2, 3}
    MaxEntries = 4
    MaxSearched = 3
INVARIANTS
    NearestFirst
