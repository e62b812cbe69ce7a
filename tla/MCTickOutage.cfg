SPECIFICATION TickSpec
CONSTANTS
    None = None
    Qty <- MCQty
    ExitReason <- MCExitReason
    EmergencyReason <- MCEmergencyReason
    Threshold = 3
    ForceClose = 6
    Persist = 2
    MaxHold = 2
    MeanCross = TRUE
    CheckAtFire = TRUE
    Cycle = 0
    Pre = 0
    Post = 0
    Modes <- MCModes
    Devs <- MCDevs
    Caps <- MCCaps
    Books <- MCBooks
    Refs <- MCRefs
    Minute = 2
    Consec = 2
    StaleAfter = 2
    Gaps <- MCGaps
    Horizon = 8
INVARIANT
    OutageEscalates
