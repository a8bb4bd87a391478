SPECIFICATION Spec
CONSTANTS
    Tasks = {t1, t2}
    Idle = Idle
    NULL = NULL
    MaxValue = 1
    LiftValue = 1
    UIntMod = 4
    Ops = {"exit"}
SYMMETRY Symmetry
INVARIANTS
    NoLostTask
CHECK_DEADLOCK FALSE
