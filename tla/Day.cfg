SPECIFICATION PlanSpec
CONSTANTS
    t1 = t1
    n1 = n1
    h1 = h1
    l1 = l1
    l2 = l2
    c1 = c1
    c2 = c2
    None = None
    Task = {t1}
    Note = {n1}
    Habit = {h1}
    List = {l1, l2}
    Client = {c1, c2}
    LastDay = 3
    Due <- MCDue
    Runs <- MCRuns
    Estimate = {1}
    Capacity = {0}
    MaxRows = 2
    MaxDeeds = 3
    Lookback = 2
SYMMETRY DaySymmetry
INVARIANTS OneRow RolledArrives
PROPERTIES PastStands CarriesOn
CHECK_DEADLOCK FALSE
