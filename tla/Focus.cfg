SPECIFICATION Spec
CONSTANTS
    e1 = e1
    e2 = e2
    w1 = w1
    w2 = w2
    Nil = Nil
    Queue <- MCQueue
    Window = {w1, w2}
    Length <- MCLength
    LongEvery = 2
    MaxTime = 4
    MaxRequests = 4
SYMMETRY WindowSymmetry
INVARIANTS CreditIsWork
PROPERTY AdvancesOnce
CHECK_DEADLOCK FALSE
