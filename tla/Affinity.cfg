CONSTANTS
    a = a
    b = b
    h = h
    Cpus = {a, b, h}
    Hot = h
    Masks <- CoveredMasks
    Setters = {s1, s2}
    Nr = {0, 1}
    SchedValues = {0, 50, 100}
    Prompt = TRUE
    None = None
SPECIFICATION FairSpec
INVARIANTS
    
    PendingAlive
    
    Placement
PROPERTIES
    RequestsEnd
