SPECIFICATION LogSpec
CONSTANTS
    tick = tick
    ws = ws
    Threads <- MCThreads
    Window = 3
    Rolling = 2
    Day = 2
    Slow = 1
    Lines = 3
    Horizon = 5
SYMMETRY MCSymmetry
INVARIANTS
    EveryLineOnce
    RecoveredInTime
    NothingOverstays
