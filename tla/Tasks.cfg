SPECIFICATION TasksSpec
CONSTANTS
    a = a
    b = b
    c = c
    d = d
    e = e
    None = None
    Task = {a, b, c, d, e}
    Scenes <- MCScenes
    Wishes <- MCWishes
    LastDay = 3
    Depth = 2
    MaxDeeds = 3
    MaxForeign = 1
    MaxFaults = 1
CHECK_DEADLOCK FALSE
INVARIANTS RecordIsTheFirstMiss
PROPERTIES FinishedParentsClose
