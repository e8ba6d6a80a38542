\* One instance, replies of two parts, one crash, one failed Redis command.
SPECIFICATION Spec
CONSTANTS
    e1 = e1  e2 = e2  i1 = i1  i2 = i2
    None = None
    Events <- TwoEvents
    Debounced <- FirstOnly
    Instances <- OneInstance
    MaxParts = 2
    MaxRuns = 3
    MaxCrashes = 1
    MaxFaults = 1
    LockMayExpire = FALSE
INVARIANTS ConfigMatchesWindow OvershootOne
CHECK_DEADLOCK FALSE
