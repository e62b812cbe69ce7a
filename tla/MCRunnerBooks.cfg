SPECIFICATION RunnerSpec
CONSTANTS
    None = None
    Qty <- OneLot
    LtQty <- ThreeLots
    ExitReason <- MCExitReason
    EmergencyReason <- MCEmergencyReason
    MinQty <- MinLots
    Interval = 1
    MaxAttempts = 4
    Grace = 2
    Kill = 2
    Lag = 1
    LateBy = 0
    MaxFaults = 1
    Operator = TRUE
    DiskMayFail = FALSE
    DustQty = 0
    EnterKill = 2
    HistoryMayFail = FALSE
    MaxTrips = 2
INVARIANTS
    RunnerTypeOK
    CtxMatchesTrip
    BookedOnce
    RecoveryIsComplete
    DustIsBounded
