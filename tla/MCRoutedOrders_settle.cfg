SPECIFICATION FairSpec
CONSTANTS
    r1 = r1
    r2 = r2
    p1 = p1
    binance = binance
    bybit = bybit
    unknown = unknown
    None = None
    Requests <- MCOneRequest
    Readers <- MCOneReader
    Config <- MCConfig
    Strategies <- MCBestHealth
    Kinds <- MCKinds
    AdapterKinds <- MCKinds
    Threshold <- MCThreshold
    Cooldown = 1
    HalfOpenAfter = 0
    FullScore = 3
    Reward = 1
    Penalty = 3
    MaxNow = 1
PROPERTIES
    EveryOrderSettles
