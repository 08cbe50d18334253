CONSTANTS
    r1 = r1
    r2 = r2
    k1 = k1
    k2 = k2
    Callers = {r1, r2}
    Keys = {k1, k2}
    NoKey = NoKey
    MaxSize = 1
    TTL = 1
    MaxTime = 2
    MaxCalls = 3
    MayPanic = TRUE
    Requests = {r1, r2}
    LastMinute = 2
    Askers = {r1, r2}
    Tokens = {k1, k2}
    NoToken = NoKey
    AuthTTL = 2
    LastInstant = 2
    MaxAsks = 3
    Expiries = {2}
    Limited = {r1, r2, k1}
    Rps = 1
    MaxBuckets = 2
    BucketTTL = 2
    LastSecond = 3
    MaxDisplaced = 1
    Rebuilds = {r1, r2}
    NoRebuild = NoKey
    Symbols = {k1, k2}
    Lookbacks = {20}
    LastDay = 3
    BarsMaySay <- MCBars
    MaxIntervals = 2
    MaxRebuilds = 2
    MayBreak = TRUE
SPECIFICATION ServerSpec
INVARIANTS
    OneLoadPerKey
    ServedIsGood
    PromptMinutesAreKept
    AnswersAreRecent
    RateIsKept
    WindowsOnly
    ResumeSkipsNothing
PROPERTIES
    WaitersLeave
CHECK_DEADLOCK FALSE
