CONSTANTS
    long = long
    short = short
    Entries = {long, short}
    NoEntry = NoEntry
    Prices = {27720, 55440}
    NoPrice = NoPrice
    Requests <- MCRequests
    Notional = 443520
    Slices = 2
    Commission = 1
    MaxPending = 2
    MaxTrades = 3
    Templates <- MCTemplates
    Quotes = {1}
    LegCommission = 1
    LastBar = 3
    MaxSpreads = 3
    MaxLegs = 2
    MaxScheduled = 1
    p1 = p1
    p2 = p2
    ParamSets = {p1, p2}
    Workers = {1, 2}
    Primary = "spy"
    Others = {"hourly", "gappy"}
    Factors = {"factor"}
    Traded = {"spy"}
    Interval <- MCInterval
    Histories <- MCHistories
    Registered <- MCRegistered
    From = 1
    To = 4
    Warmups <- MCWarmups
    LoadSlots = 1
    CallsMayFail = TRUE
    BatchMayStop = TRUE
SPECIFICATION EngineSpec
INVARIANTS
    NetIsEntries
    EquityAddsUp
    OneClosePerEntry
    CashIsLegs
    PromisesKept
    SkippedAtMostArchived
    SeesLatestConfirmed
    RunsDoNotShare
    SameRequestSameData
    NobodyWaitsForEver
PROPERTIES
    ReduceOnlyCloses
CHECK_DEADLOCK FALSE
