SPECIFICATION Spec
CONSTANTS
    p1 = p1
    p2 = p2
    p3 = p3
    Procs = {p1, p2, p3}
    MaxCount = 3
    Tries = 2
    LoginBurst = 1
    MaxLogins = 2
SYMMETRY Perms
INVARIANTS
    TypeOK
    CountExact
    NoGhostSession
    TrustEnds
    LoginsMetered
PROPERTY
    GivesUpOvertaken
CHECK_DEADLOCK FALSE
