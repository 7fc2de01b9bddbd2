\* Up to five entries, and removals by name from at most two.
SPECIFICATION WaitingSpec
CONSTANTS
    QueueSize = 10
    U32 = 100
    LLONG_MAX = 999
    Tasks = {0, 1, 2, 3, 4}
    Deadlines = {1, 2, 3}
    MaxEntries = 5
    MaxSearched = 2
INVARIANTS
    QueueOK
    LevelOK
    SpineSorted
PROPERTIES
    KeepsEntries
    NearestInsertedGoesFirst
