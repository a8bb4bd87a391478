SPECIFICATION Spec
CONSTANTS
    Cpus = {c1, c2}
    Threads = {t1, t2}
    Other = Other
    Scan = Scan
    Clones = 2
SYMMETRY Symmetry
CHECK_DEADLOCK FALSE
INVARIANTS
    UsedIsKept
    OneHolder
    SpinEnds
