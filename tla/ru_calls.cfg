SPECIFICATION USpec
CONSTANTS
    target_proc = target_proc
    child_proc = child_proc
    t1 = t1
    t2 = t2
    a1 = a1
    a2 = a2
    a3 = a3
    NoThread = NoThread
    Procs = {target_proc}
    Threads = {t1, t2}
    Home <- OneProcess
    Addrs = {a1, a2}
    Flow <- ShortFlow
    Native = {}
    Unpacked = {}
    Sites = {a1, a2}
    MaxBps = 2
    HitCap = 1
    Sharing = {}
    RemoveQueued = FALSE
    Faults = {"set", "hit"}
    Exits = {}
    Target = target_proc
    MainThread = t1
    Goal = a1
    HwAddrs = {a2}
    MaxIdle = 1
    MaxCalls = 1
PROPERTIES
    UnreachedIsTrue
    PausedAtGoal
    LeavesBreakpointsAlone
