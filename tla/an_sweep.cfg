SPECIFICATION Spec
CONSTANTS
    None = None
    Base = 100
    Stride = 2
    Images <- SmallImages
    Configs <- SmallConfigs
    MaxEntries = 2
    Ranges <- SomeRanges
    MaxBlocks = 4
    Addresses = {8}
    Supplied <- SomeSets
    MaxSteps = 2
    MaxBytes = 5
    Receivers = {"ecx"}
    Overlaps <- OwnRegisters
INVARIANTS
    SweepClosed
    AbsenceIsTrue
    ConstantsTrue
    CoverageAccounted
    OwnersTrue
    ReceiverTrue
    ValuesSound
    ScanTells
    GraphTrue
PROPERTIES
    AnalysisEnds
CHECK_DEADLOCK FALSE
