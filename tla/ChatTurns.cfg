\* Two turns with approvals and a restart, or three turns without.
SPECIFICATION Spec
CONSTANTS
    t1 = t1  t2 = t2  t3 = t3
    None = None
    Turns <- ThreeTurns
    Asking <- ThreeTurns
    OverlapRewinds = FALSE
    MaxCrashes = 1
INVARIANTS TypeOK    ToolsApproved
ACTION_CONSTRAINTS InOrder TwoOrQuiet
CHECK_DEADLOCK FALSE
