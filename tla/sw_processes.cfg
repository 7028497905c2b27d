SPECIFICATION FairSpec
CONSTANTS
    target_proc = target_proc
    child_proc = child_proc
    t1 = t1
    t2 = t2
    a1 = a1
    a2 = a2
    a3 = a3
    NoThread = NoThread
    Procs = {target_proc, child_proc}
    Threads = {t1, t2}
    Home <- TwoProcesses
    Addrs = {a1, a2}
    Flow <- ShortFlow
    Native = {}
    Unpacked = {a1}
    Sites = {a1, a2}
    MaxBps = 2
    HitCap = 1
    Sharing = {}
    RemoveQueued = FALSE
    Faults = {}
    Exits = {}
PROPERTIES
    CallbackSeesOriginal
    LostIsExplained
    StepsOver
