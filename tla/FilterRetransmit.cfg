SPECIFICATION Spec
CONSTANTS
    s1 = s1
    s2 = s2
    Src = {s1}
    CPUs = {0}
    FlagSets <- SynOrAck
    Sizes = {1}
    Payloads = {"EMPTY", "LOGIN"}
    Ttl = 0
    StatusPeriod = 1
    StatusBurst = 1
    LoginPeriod = 1
    LoginBurst = 1
    GlobalPeriod = 0
    GlobalBurst = 0
    MaxOpen = 0
    HealthWindow = 1
    HealthThreshold = 2
    HealthBlacklist = 1
    PktPeriod = 0
    PktBurst = 0
    BytePeriod = 0
    ByteBurst = 0
    NewPeriod = 0
    NewBurst = 0
    MaxTime = 0
    Backlog = 1
    MaxSocks = 1
    Stray = FALSE
PROPERTY
    FirstHandshakeMetered
