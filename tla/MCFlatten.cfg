SPECIFICATION FlattenFairSpec
CONSTANTS
    None = None
    Qty <- MCQty
    ExitReason <- MCExitReason
    EmergencyReason <- MCEmergencyReason
    Interval = 1
    MaxAttempts = 12
    Grace = 3
    Kill = 2
    Lag = 1
    LateBy = 1
    MaxFaults = 3
    Operator = TRUE
    DiskMayFail = TRUE
INVARIANTS
    VerifiedFlat
PROPERTIES
    FreshEmergencyFlattens
