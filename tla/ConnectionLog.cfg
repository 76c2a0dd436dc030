SPECIFICATION Spec
CONSTANTS
    Callers = {c1, c2}
    Modes = {"memory", "file", "database", "both"}
    MaxFiles = 3
    MaxSize = 1
    FlushEvery = 2
    MaxMemory = 2
    Retentions = {0, 1}
    PurgeEvery = 3
    Round = 2
    MaxEvents <- MCMaxEvents
    MaxTime <- MCMaxTime
    MaxCrashes = 1
    None = None
SYMMETRY MCSymmetry
INVARIANTS  AckedIsTaken
PROPERTY PurgedIsOld
CHECK_DEADLOCK FALSE
