SPECIFICATION RiskSpec
CONSTANTS
    Equities <- MCEquities
    Pnls <- MCPnls
    MaxDailyLossBps = 300
    DayLength = 2
    ResetAt = 0
    MaxSessionLossBps = 500
    Lookback = 2
    SampleSecs = 2
    Tier1 = 1
    Tier1Secs = 1
    Tier2 = 2
    Tier2Secs = 2
    PersistSecs = 2
    DiskMayFail = TRUE
    MaxTime = 3
    PnlBound = 3
    MaxLosses = 2
INVARIANTS
    RiskTypeOK
    DrawdownHalts
    OneTripPastTheLimit
    SamplesBounded
    UnsavedIsRecent
PROPERTY
    EntryServesCooldown
