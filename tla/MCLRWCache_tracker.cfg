\* The blocking cache as the tracker uses it: a fresh key for every Set.
CONSTANTS
  k1 = k1  k2 = k2  k3 = k3  c1 = c1  c2 = c2
  t1 = t1  t2 = t2  t3 = t3  t4 = t4  None = None
  Keys <- ThreeKeys
  Callers <- TwoCallers
  Timers <- ThreeTimers
  MaxSize = 1
  Blocking = TRUE
  KeyReuse = FALSE
SPECIFICATION FairSpec
INVARIANTS
  TokensExact
PROPERTIES
  RefinesBoundedMap
  CallReturns
  EntryExpires
