SPECIFICATION Spec
CONSTANTS
    CPUs = {0, 1}
    Slots = {2, 3, 4, 5}
    MaxEvents = 3
    MaxWrites = 2
    Keys = {1, 2, 3}
    Bucket <- TwoBuckets
    MaxEntries = 2
    Present0 = {{1, 2}, {2, 3}}
    Amounts = {1, 2}
    BanTime = 1
    MaxTime = 2
    TopN = {0, 1}
INVARIANTS
    ScanFaithful
    HotSourceShown
    ClearSweeps
PROPERTIES
    CountersNeverRegress
    OutcomesWereSeen
    GaugesConverge
CHECK_DEADLOCK FALSE
