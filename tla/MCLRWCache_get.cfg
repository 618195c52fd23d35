\* The crawler's non-blocking cache with one handler: does Get return?
CONSTANTS
  k1 = k1  k2 = k2  k3 = k3  c1 = c1  c2 = c2
  t1 = t1  t2 = t2  t3 = t3  t4 = t4  None = None
  Keys <- ThreeKeys
  Callers <- OneCaller
  Timers <- FourTimers
  MaxSize = 2
  Blocking = FALSE
  KeyReuse = FALSE
SPECIFICATION FairSpec
PROPERTY GetReturns
CHECK_DEADLOCK FALSE
