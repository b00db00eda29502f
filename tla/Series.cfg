SPECIFICATION SeriesSpec
CONSTANTS
    a = a
    b = b
    f = f
    Note = {a, b, f}
    Keep = Keep
    None = None
    Horizon = 12
    Window = 8
    Initial <- MCInitial
    Edits <- MCEdits
    ForeignNote = b
    MaxOps = 1
    MaxForeign = 1
    MaxFaults = 1
INVARIANTS EditedAsAsked NothingLost FailsWhole
CHECK_DEADLOCK FALSE
