SPECIFICATION ExitFairSpec
CONSTANTS
    None = None
    Target <- MCTarget
    DustQty = 0
    MinQty = 0
    Retries = 2
    Timeout = 2
    ChaseGrace = 2
    TakerGrace = 2
    Lag = 1
    MaxFaults = 1
    MaxAwaited = 1
    Mismatch = 5
INVARIANTS
    ExitTypeOK
    ReportIsReal
    NothingKeepsWorking
    WholeFillsAreReported
    CoveredLegReturns
PROPERTIES
    ExitReturns
CHECK_DEADLOCK FALSE
