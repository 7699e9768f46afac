SPECIFICATION Spec
CONSTANTS
    Half = 2
    Spacing = 1
    TpOff = 2
    SlOff = 1
    Prices <- MCPrices
    Drop = 1
    Multipliers <- MCMultipliers
    Rebound = 1
    MaxSteps = 3
    Window = 2
    MaxFlying = 3
    MaxSlips = 4
    MaxBooked = 8
    MaxLost = 4
CHECK_DEADLOCK FALSE
INVARIANTS TypeOK OneOrderPerLevel PositionIsBooked
PROPERTIES StopsOnlyTighten
