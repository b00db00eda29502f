SPECIFICATION Spec
CONSTANTS
    c1 = c1
    c2 = c2
    None = None
    Client = {c1, c2}
    Asks <- MCAsks
    MaxClients = 1
    ConsentTTL = 1
    CodeTTL = 1
    AccessTTL = 2
    IdleTTL = 2
    RefreshTTL = 3
    MaxTime = 3
    MaxCodes = 1
    MaxPairs = 3
    MaxChanges = 1
SYMMETRY ClientSymmetry
INVARIANTS ReplayEndsGrant EndsWithCredentials ListShowsAll
PROPERTY WorkingClientStays
CHECK_DEADLOCK FALSE
