SPECIFICATION FairSpec
CONSTANTS
    h1 = h1
    h2 = h2
    u1 = u1
    u2 = u2
    v1 = v1
    v2 = v2
    Absent = Absent
    Href = {h1, h2}
    UID = {u1, u2}
    Version = {v1, v2}
    Home <- MCHome
    MaxClock = 1
    MaxOps = 2
    MaxFaults = 1
INVARIANTS CacheSound CoherentSince
PROPERTIES GcTakesOnlyTheGone DeletesOnlyItsOwn Converges
