SPECIFICATION FairSpec
CONSTANTS
    place = place
    cancel = cancel
    fetch = fetch
    d1 = d1
    d2 = d2
    None = None
    Requests <- MCRequests
    Drains <- MCDrains
    PriorityOf <- MCPriorityOf
    CostOf <- MCCostOf
    Budget = 2
    MaxDepth = 2
    BatchSize = 2
INVARIANTS
    TypeOK
    PriorityThenArrival
    OnceWithinBudget
    NoneLost
PROPERTIES
    QueueDrains
CHECK_DEADLOCK FALSE
