SPECIFICATION DSpec
CONSTANTS
    s1 = s1
    Src = {s1}
    CPUs = {0}
    FlagSets <- SynOrAck
    Sizes = {1}
    Payloads = {"EMPTY", "LOGIN"}
    Ttl = 0
    StatusPeriod = 1
    StatusBurst = 1
    LoginPeriod = 0
    LoginBurst = 1
    GlobalPeriod = 0
    GlobalBurst = 0
    MaxOpen = 2
    HealthWindow = 1
    HealthThreshold = 2
    HealthBlacklist = 1
    PktPeriod = 0
    PktBurst = 0
    BytePeriod = 0
    ByteBurst = 0
    NewPeriod = 0
    NewBurst = 0
    MaxTime = 1
    Backlog = 1
    MaxSocks = 2
    Stray = FALSE
    Clears <- SessionMaps
    MayWipe = TRUE
    Evictable <- SessionState
    MaxCount = 2
INVARIANTS
    AllOrNothing
    RestartSafe
PROPERTY
    PlayersKeepFlowing
