SPECIFICATION Spec
CONSTANTS
    Bots = {b1}
    Requests = {r1}
    MaxMade = 2
    MaxWrites = 2
CHECK_DEADLOCK FALSE
INVARIANTS TypeOK OnlyAgeReplaces RowTellsTheBot StopSticks
