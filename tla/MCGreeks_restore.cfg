CONSTANTS
    a = a
    b = b
    Backfills = {a}
    FillersOf <- MCFillersOf
    NumTasks = 2
    NumChunks = 2
    Prices <- MCPrices
    MaxBreaks = 1
    FillersMayDie = FALSE
SPECIFICATION GreeksSpec
INVARIANTS RestoredAsBefore
CHECK_DEADLOCK FALSE
