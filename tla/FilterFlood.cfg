SPECIFICATION Spec
CONSTANTS
    s1 = s1
    s2 = s2
    Src = {s1}
    CPUs = {0}
    FlagSets <- SynOrAck
    Sizes = {1, 3}
    Payloads = {"NONE", "LOGIN"}
    Ttl = 1
    StatusPeriod = 1
    StatusBurst = 1
    LoginPeriod = 2
    LoginBurst = 1
    GlobalPeriod = 0
    GlobalBurst = 0
    MaxOpen = 0
    HealthWindow = 2
    HealthThreshold = 2
    HealthBlacklist = 1
    PktPeriod = 2
    PktBurst = 2
    BytePeriod = 1
    ByteBurst = 4
    NewPeriod = 0
    NewBurst = 0
    MaxTime = 4
    Backlog = 1
    MaxSocks = 1
    Stray = TRUE
INVARIANTS
    BannedNotTrusted
    BanEarned
    BanDelivered
PROPERTIES
    TrustLifecycle
    OnlyConnectedCharged
