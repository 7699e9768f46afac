SPECIFICATION FairSpec
CONSTANTS
    c1 = c1
    c2 = c2
    c3 = c3
    network = network
    timeout = timeout
    unknown = unknown
    None = None
    Calls <- MCThreeCalls
    Kinds <- MCKinds
    Threshold <- MCThreshold
    Cooldown = 2
    HalfOpenAfter = 1
INVARIANTS
    TypeOK
    TripsOnStreak
    OpensOnlyAfterThreshold
PROPERTIES
    FollowsEdges
    RecoversEventually
