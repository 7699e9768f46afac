SPECIFICATION FairSpec
CONSTANTS
    b1 = b1
    b2 = b2
    c1 = c1
    c2 = c2
    None = None
    Bots <- MCTwoBots
    Chained <- MCOneBot
    Calls <- MCTwoCalls
    Pnls <- MCLose
    Capital = 11
    MaxTrades = 1
    MaxConsecutiveLosses = 2
    MaxDailyLossPct = 20
    MaxDrawdownPct = 30
    Cooldown = 1
INVARIANTS
    TypeOK
    StatusTellsTicking
    StreakHalts
PROPERTIES
    HaltStopsAll
    HaltLifts
