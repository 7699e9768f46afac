SPECIFICATION Spec
CONSTANTS
    i1 = i1
    i2 = i2
    c1 = c1
    c2 = c2
    w1 = w1
    o1 = o1
    p1 = p1
    premium = premium
    None = None
    Basic = Basic
    Isolates <- MCIsolates
    Calls <- MCCalls
    Workspaces <- MCWorkspaces
    Tiers <- MCTiers
    Orders <- MCOrders
    Payments <- MCPayments
    OrderOf <- MCOrderOf
    WorkspaceOf <- MCWorkspaceOf
    TierOf <- MCTierOf
    SignedIn <- MCEverybody
    MaxMishaps = 0
PROPERTIES
    ReplayAfterD1
