CONSTANTS
    a = a
    b = b
    c = c
    Runners = {a, b}
    Forcers = {}
    Unlockers = {}
    Nobody = Nobody
    TTL = 20
    MaxAttempts = 2
    LastTick = 4
    MaxTime = 11
    MaxRuns = 1
    DbMayFail = FALSE
    MayCrash = FALSE
SPECIFICATION Spec
INVARIANTS
    NoReentry
CHECK_DEADLOCK FALSE
