SPECIFICATION Spec
CONSTANTS
    s1 = s1
    s2 = s2
    Src = {s1}
    CPUs = {0, 1}
    FlagSets <- AnyFlags
    Sizes = {1}
    Payloads = {"BAD_HEADER", "EMPTY", "STATUS", "LOGIN", "MALFORMED"}
    Ttl = 1
    StatusPeriod = 2
    StatusBurst = 1
    LoginPeriod = 1
    LoginBurst = 1
    GlobalPeriod = 2
    GlobalBurst = 2
    MaxOpen = 1
    HealthWindow = 1
    HealthThreshold = 2
    HealthBlacklist = 1
    PktPeriod = 0
    PktBurst = 0
    BytePeriod = 0
    ByteBurst = 0
    NewPeriod = 2
    NewBurst = 2
    MaxTime = 4
    Backlog = 2
    MaxSocks = 3
    Stray = TRUE
INVARIANTS
    TypeOK
    SessionTracked
    OpenBounded
PROPERTY
    BreakerSparesRefused
