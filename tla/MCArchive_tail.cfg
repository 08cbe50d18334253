CONSTANTS
    Streams = {"s", "t"}
    WindowStart <- MCStart
    WindowEnd <- MCEnd
    Horizon = 2
    FileHours <- MCTailHours
    Contents <- MCTailContents
    BatchSizes = {2}
    MaxImports = 3
    MaxRewrites = 1
    MaxFaults = 0
    RewriteAnyTime = FALSE
    ImportsMayStop = TRUE
SPECIFICATION ArchiveSpec
INVARIANTS
    TailIsReprocessed
CHECK_DEADLOCK FALSE
