SPECIFICATION Spec
CONSTANTS
    target_proc = target_proc
    child_proc = child_proc
    t1 = t1
    t2 = t2
    a1 = a1
    a2 = a2
    a3 = a3
    NoThread = NoThread
    Procs = {target_proc}
    Threads = {t1, t2}
    Home <- OneProcess
    Addrs = {a1, a2, a3}
    Flow <- LoopFlow
    Native = {a3}
    Unpacked = {}
    Sites = {a1, a2}
    MaxBps = 2
    HitCap = 1
    Sharing = {}
    RemoveQueued = FALSE
    Faults = {"hit", "context", "step", "verify"}
    Exits = {t2}
INVARIANTS
    NoMidInstruction
    ZeroHitsNeverReached
    NoneLeftBehind
PROPERTIES
    Transparent
