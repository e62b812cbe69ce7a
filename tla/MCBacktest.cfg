SPECIFICATION BacktestSpec
CONSTANTS
    None = None
    Qty <- MCQty
    ExitReason <- MCExitReason
    EmergencyReason <- MCEmergencyReason
    Bucket = 2
    Capacity = 3
    MaxAbs <- Cap
    Threshold = 3
    ForceClose = 6
    Persist = 2
    MaxHold = 1
    MeanCross = TRUE
    CheckAtFire = TRUE
    Cycle = 8
    Pre = 3
    Post = 1
    Mids <- MCMids
    Gap = 2
    Lengths <- MCLengths
    MinWarm = 2
    Books <- MCBooks
    Sizes <- MCQty
INVARIANTS
    BacktestTypeOK
    MeanIsOfWindow
    NeverFails
    NetIsCash
PROPERTIES
    OpensOnFreshPair
    ClosesBeforeSettlement
    KeepsStrategy
    ReplayEnds
