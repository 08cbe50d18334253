CONSTANTS
    a = a
    b = b
    Runners = {a, b}
    Forcers = {a}
    Unlockers = {a}
    Nobody = Nobody
    TTL = 3
    MaxAttempts = 2
    LastTick = 4
    MaxTime = 16
    MaxRuns = 1
    DbMayFail = TRUE
    MayCrash = TRUE
    NumKeys = 3
    Concurrency = 2
    AuditEnabled = TRUE
    NumJobs = 3
    MaxDeps = 2
    Streams = {"s", "t"}
    WindowStart <- MCStart
    WindowEnd <- MCEnd
    Horizon = 2
    FileHours <- MCHours
    Contents <- MCContents
    BatchSizes = {1, 2}
    MaxImports = 2
    MaxRewrites = 1
    MaxFaults = 1
    RewriteAnyTime = TRUE
    ImportsMayStop = TRUE
    NumStaged = 3
    NumStagers = 2
    Versions = {a, b}
    NoVersion = Nobody
    NumBatches = 2
    MaxLoads = 3
    LoadsMayDie = TRUE
    MaxLost = 2
    Backfills = {a, b}
    FillersOf <- MCFillersOf
    NumTasks = 2
    NumChunks = 2
    Prices <- MCPrices
    MaxBreaks = 1
    FillersMayDie = TRUE
SPECIFICATION PipelineSpec
INVARIANTS
    SuccessIsEarned
    LocksHaveHolders
    ReportsAreTrue
    VerdictIsRight
    DependenciesFirst
    HeldBackWhenBlocked
    SuccessMeansRows
    AsIfInOneGo
    LedgerIsRight
    EveryBarOnce
    AggregatesFollow
    FeederIsHeard
PROPERTIES
    LocksAreReleased
    GoroutinesEnd
CHECK_DEADLOCK FALSE
