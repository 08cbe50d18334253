CONSTANTS
    p1 = p1
    ParamSets = {p1}
    Workers = {1}
    Primary = "spy"
    Others = {"hourly"}
    Factors = {}
    Traded = {"spy", "hourly"}
    Interval <- MCInterval
    Histories <- MCHistories
    Registered = {{"spy", "hourly"}}
    From = 0
    To = 6
    Warmups <- MCWarmups
    LoadSlots = 8
    CallsMayFail = FALSE
    BatchMayStop = FALSE
SPECIFICATION PrepSpec
INVARIANTS
    NoLookahead
CHECK_DEADLOCK FALSE
