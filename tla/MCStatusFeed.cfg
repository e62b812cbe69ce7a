SPECIFICATION StatusSpec
CONSTANTS
    Balances <- MCBalances
    LastDay = 1
    MaxBoots = 3
INVARIANTS
    PnlTodayFromDayStart
