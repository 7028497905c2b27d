SPECIFICATION Spec
CONSTANTS
    Pids = {p1, p2}
    Handles = {h1, h2, h3, h4}
    None = None
    MaxBps = 1
    Tidy = TRUE
    Masks = {"terminate", "all"}
    Faults = {"access"}
SYMMETRY Symmetry
INVARIANTS
    HandlesTrue
    BreakpointsReached
    OnlyImagesLeak
