SPECIFICATION Spec
CONSTANTS
    Tasks = {t1, t2, t3, t4}
    Leader = t1
    Thread = t2
    None = None
    Forkers = {t1, t2}
    FlagSets <- MCFlagSets
    AreaList <- MCAreas
    MaxThreads = 4
    Nproc = 3
SYMMETRY Symmetry
CHECK_DEADLOCK FALSE
INVARIANTS
    RefsExact
    CommitExact
    UserLimit
    ChildStartsRight
    VforkSafe
