SPECIFICATION Spec
CONSTANTS
    Tasks = {t1, t2, t3}
    Idle = Idle
    NULL = NULL
    MaxValue = 1
    LiftValue = 1
    UIntMod = 8
    Ops = {}
SYMMETRY Symmetry
INVARIANTS
    MaxIsCached
    NoLostTask
    NrRunningExact
PROPERTIES
    PicksHighest
