SPECIFICATION FairSpec
CONSTANTS
    c1 = c1
    c2 = c2
    i1 = i1
    i2 = i2
    Cpus = {c1, c2}
    Idle <- MCIdle
    Threads = {t1, t2}
    Kthread = k
    Home = c1
    Mm = m
    InitMm = init_mm
    Stacks = {s1, s2}
    Cached = 1
    Spawns = 1
    None = None
CHECK_DEADLOCK FALSE
INVARIANTS
    MmAlive
    
    TaskAlive
PROPERTIES
    EventuallyFreed
