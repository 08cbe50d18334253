CONSTANTS
    Versions = {"first", "corrected"}
    NoVersion = "none"
    NumBatches = 2
    MaxLoads = 2
    LoadsMayDie = TRUE
    MaxLost = 0
SPECIFICATION FileSpec
INVARIANTS
    ReplaceRebuilds
CHECK_DEADLOCK FALSE
