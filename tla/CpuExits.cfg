SPECIFICATION FairSpec
CONSTANTS
    Tasks = {t1, t2}
    Idle = Idle
    NULL = NULL
    MaxValue = 1
    LiftValue = 1
    UIntMod = 4
    Ops = {"exit", "kpreempt"}
CHECK_DEADLOCK FALSE
INVARIANTS
    OnePlace
PROPERTIES
    NoMonopoly
