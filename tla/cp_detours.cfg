SPECIFICATION Spec
CONSTANTS
    Threads = {t1, t2}
    Addrs = {1, 2, 3, 4, 5}
    Flow <- LoopFlow
    Returns = {2, 5}
    Unmovable = {3}
    Covers <- TwoSites
    Own = Own
    Torn = Torn
    MaxHooks = 3
    Care = {"apart", "drained"}
    Faults = {"write", "compile", "free"}
INVARIANTS
    NothingFreedInUse
    OriginalsBack
    NothingLeaks
PROPERTIES
    Transparent
