CONSTANTS
    c1 = c1
    c2 = c2
    x1 = x1
    x2 = x2
    e = e
    Clients = {c1}
    Cancellers = {x1}
    Executor = e
    BufferCap = 2
    MaxProgress = 1
    MayCrash = TRUE
    WriteMayFail = TRUE
    SharedLoads = TRUE
SPECIFICATION FairSpec
INVARIANTS
    EvictedRunIsOnDisk
    ManifestTellsOutcome
    NothingAfterTerminal
PROPERTIES
    OutcomeIsRecorded
    StreamsEnd
    PollsAgree
    ImplementsRunOutcome
CHECK_DEADLOCK FALSE
