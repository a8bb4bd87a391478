SPECIFICATION Spec
CONSTANTS
    a = a
    b = b
    Cpus = {c1, c2}
    Tasks = {a, b}
    Class <- MCClass
    Users = {u1, u2}
    Ons = 1
    Zero = Zero
    Idle = Idle
    None = None
SYMMETRY Symmetry
CHECK_DEADLOCK FALSE
INVARIANTS
    
    
    TreeExact
