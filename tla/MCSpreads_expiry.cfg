CONSTANTS
    Templates <- MCTemplates
    Quotes = {1}
    LegCommission = 1
    LastBar = 3
    MaxSpreads = 3
    MaxLegs = 2
    MaxScheduled = 0
SPECIFICATION SpreadSpec
INVARIANTS
    ExpiredAreClosed
CHECK_DEADLOCK FALSE
