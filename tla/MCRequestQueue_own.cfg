SPECIFICATION Spec
CONSTANTS
    place = place
    cancel = cancel
    fetch = fetch
    d1 = d1
    d2 = d2
    None = None
    Requests <- MCRequests
    Drains <- MCDrains
    PriorityOf <- MCPriorityOf
    CostOf <- MCCostOf
    Budget = 2
    MaxDepth = 2
    BatchSize = 2
INVARIANTS
    RunsItsOwn
CHECK_DEADLOCK FALSE
