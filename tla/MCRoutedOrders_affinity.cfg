SPECIFICATION Spec
CONSTANTS
    r1 = r1
    r2 = r2
    p1 = p1
    binance = binance
    bybit = bybit
    unknown = unknown
    None = None
    Requests <- MCTwoRequests
    Readers <- MCNoReader
    Config <- MCConfig
    Strategies <- MCRotating
    Kinds <- MCKinds
    AdapterKinds <- MCNoKind
    Threshold <- MCThreshold
    Cooldown = 1
    HalfOpenAfter = 0
    FullScore = 4
    Reward = 1
    Penalty = 3
    MaxNow = 1
INVARIANTS
    AffinityPointsToPlacer
