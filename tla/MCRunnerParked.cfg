SPECIFICATION RunnerFairSpec
CONSTANTS
    None = None
    Qty <- OneLot
    LtQty <- ThreeLots
    ExitReason <- MCExitReason
    EmergencyReason <- MCEmergencyReason
    MinQty <- MinLots
    Interval = 1
    MaxAttempts = 3
    Grace = 1
    Kill = 2
    Lag = 0
    LateBy = 0
    MaxFaults = 1
    Operator = FALSE
    DiskMayFail = FALSE
    DustQty = 0
    EnterKill = 2
    HistoryMayFail = FALSE
    MaxTrips = 1
PROPERTIES
    ExitingResolves
