SPECIFICATION Spec
CONSTANTS
    t1 = t1
    t2 = t2
    t3 = t3
    a1 = a1
    a2 = a2
    Main = t1
    All = All
    NoAddr = NoAddr
    Threads = {t1, t2, t3}
    Slots = {0, 1}
    Addrs = {a1}
    MaxBps = 2
    Concurrent = FALSE
    Faults = {"arm"}
SYMMETRY Symmetry
INVARIANTS
    NoStrayRegister
    ArmedEverywhere
