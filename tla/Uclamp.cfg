SPECIFICATION Spec
CONSTANTS
    r = r
    g = g
    h = h
    Tasks = {p, q}
    Groups <- MCGroups
    Root = r
    Parent <- MCParent
    Created = {r, g}
    Scale = 2
    Buckets = 2
    Values = {0, 1}
    UtilMin = 1
    Attrs <- MCAttrs
    Knobs = {"max", "rt"}
    MaxRequests = 3
    None = None
SYMMETRY Symmetry
CHECK_DEADLOCK FALSE
INVARIANTS
    RqClampsExact
    EffCapped
    
    
