SPECIFICATION ClocksSpec
CONSTANTS
    Unit = 7
    Rate = 5
    Allowed = 9
    Shares = 2
    Costs = {1, 2, 5}
    MaxCost = 5
    MaxTime = 13
    p1 = p1
    p2 = p2
    Procs = {p1, p2}
    Word = 256
    RacePeriod = 2
    RaceBurst = 2
    RaceTime = 3
    MaxTakes = 8
    Ttl = 2
    TrustTime = 5
    e1 = e1
    e2 = e2
    e3 = e3
    Elems = {e1, e2, e3}
SYMMETRY Perms
INVARIANTS
    TypeOK
    WindowBound
    ConfiguredRate
    NoStarvation
    BucketSane
    WindowInv
    RaceCost
PROPERTIES
    SoloHeals
    FreshTrustKept
CHECK_DEADLOCK FALSE
