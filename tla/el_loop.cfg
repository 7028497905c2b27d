SPECIFICATION FairSpec
CONSTANTS
    main = main
    c1 = c1
    c2 = c2
    Target = main
    NoProc = NoProc
    Children = {c1, c2}
    MaxIdle = 2
    DrainLimit = 2
    MaxEvents = 3
    Terminates = "alone"
    Faults = {"arch"}
INVARIANTS
    ChildTableTrue
    TimeoutMeansQuiet
PROPERTIES
    DrainedToTheEnd
    RunEnds
CHECK_DEADLOCK FALSE
