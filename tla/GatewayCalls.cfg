SPECIFICATION FairSpec
CONSTANTS
    Calls = {k1, k2}
    Profiles = {p1, p2}
    Procs = {w1, w2}
    Limit = 1
    MaxFaults = 3
CHECK_DEADLOCK FALSE
INVARIANTS
    CountersCoverHolders
PROPERTIES
    LeaksHeal
    CallsEnd
