CONSTANTS
  r = r  g = g  h = h  k = k  w1 = w1  w2 = w2  t1 = t1  c1 = c1  c2 = c2
  None = None
  Groups <- MCGroupSet
  Root = r
  Parent <- MCParent
  Created <- MCCreated
  Writers <- MCWriters
  Timers <- MCTimers
  Cpus <- MCCpus
  Quotas <- MCQuotas
  Periods = {0, 1, 2, 3}
  MinPeriod = 1
  MaxPeriod = 2
  Bursts = {0, 2}
  Scale = 2
  MaxRuntime = 4
  Hierarchies = {TRUE, FALSE}
  MaxOps = 4
SYMMETRY Sym
CHECK_DEADLOCK FALSE
SPECIFICATION Spec
INVARIANTS
    WalksSafe
    UsageCovers
    LimitsAccepted
    HierExact
