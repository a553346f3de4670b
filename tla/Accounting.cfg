SPECIFICATION Spec
CONSTANTS
    p1 = p1
    p2 = p2
    s1 = s1
    s2 = s2
    e1 = e1
    e2 = e2
    Procs = {p1, p2}
    Src = {s1, s2}
    Elems = {e1, e2}
    MaxRuns = 3
    MaxTime = 1
SYMMETRY Perms
INVARIANTS
    DropsCountedOnce
    HistoryNeverOvercounts
    HistoryMatchesStats
CHECK_DEADLOCK FALSE
