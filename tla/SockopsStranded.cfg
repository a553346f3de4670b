SPECIFICATION Spec
CONSTANTS
    p1 = p1
    p2 = p2
    p3 = p3
    Procs = {p1, p2}
    MaxCount = 2
    Tries = 8
    LoginBurst = 1
    MaxLogins = 1
INVARIANT
    EstablishedWhileOpen
CHECK_DEADLOCK FALSE
