CONSTANTS
  a = a  b = b  c = c  x = x  y = y
  None = None
  Tasks <- MCTasks
  First <- MCFirst
  Callers <- MCCallers
  Attrs <- MCAttrs
  NicePrios <- MCNice
  MaxRtPrio = 3
  DefaultPrio = 4
  MaxPrio = 5
  MaxCalls = 4
  SteadyFork = TRUE
SYMMETRY Sym
CHECK_DEADLOCK FALSE
SPECIFICATION Spec
INVARIANTS
    NoInversion
    NoLeftBoost
    ClassIsEffective
PROPERTIES
    Atomic
