SPECIFICATION Spec
CONSTANTS
    Publishers = {p1, p2}
    p1 = p1
    p2 = p2
    PageSize = 1
    MaxPages = 4
    MaxAttempts = 2
    MaxPast = 2
    MaxForeign = 2
    MayLag = TRUE
INVARIANTS OneCheck ExitIsOutcome KnownCheckIsReused
CHECK_DEADLOCK FALSE
