SPECIFICATION Spec
CONSTANTS
    h1 = h1
    h2 = h2
    u1 = u1
    u2 = u2
    v1 = v1
    v2 = v2
    v3 = v3
    l1 = l1
    l2 = l2
    Absent = Absent
    Href = {h1, h2}
    UID = {u1}
    Version = {v1, v2, v3}
    List = {l1, l2}
    Home <- MCHome
    Parent <- MCParent
    Unparented <- MCUnparented
    Meaning <- MCMeaning
    MaxForeign = 3
    MaxFaults = 2
SYMMETRY MoveSymmetry
INVARIANT RefsFollow
PROPERTY NothingLost
CHECK_DEADLOCK FALSE
