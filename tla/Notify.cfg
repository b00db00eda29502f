SPECIFICATION Spec
CONSTANTS
    RuleOf <- MCRuleOf
    When <- MCWhen
    Lead <- MCLead
    DayLength = 4
    Interval = 2
    MaxLate = 3
    Stale = 3
    CatchUp = 3
    StallAfter = 1
    Retention = 4
    MaxLoud = 1
    BatchThreshold = 2
    Horizon = 5
    MaxAttempts = 2
    MaxFaults = 1
INVARIANTS SaidOnce LoudCeiling NothingSlips
CHECK_DEADLOCK FALSE
