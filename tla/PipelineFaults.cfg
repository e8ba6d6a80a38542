\* Two debounced events, two instances, one crash or one failed Redis command.
SPECIFICATION Spec
CONSTANTS
    e1 = e1  e2 = e2  i1 = i1  i2 = i2
    None = None
    Events <- TwoEvents
    Debounced <- TwoEvents
    Instances <- TwoInstances
    MaxParts = 1
    MaxRuns = 3
    MaxCrashes = 1
    MaxFaults = 1
    LockMayExpire = FALSE
INVARIANTS TypeOK WindowInv ExactlyOnce
PROPERTIES ImplementsWindows LaunchIsQuiet PromptCoversBuffer
ACTION_CONSTRAINT OneBadThing
SYMMETRY Symmetry
CHECK_DEADLOCK FALSE
