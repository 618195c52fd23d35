\* Two callers, a queue of one, a network that loses, repeats and reorders.
SPECIFICATION FairSpec
CONSTANTS
  s1 = s1  s2 = s2  x1 = x1  x2 = x2  None = None
  Scrapers = {s1, s2}
  Txs = {x1, x2}
  QueueSize = 1
  MaxConns = 2
\* A Scrape may wait for ever for a connect answer that was lost.
CHECK_DEADLOCK FALSE
INVARIANTS
  SettledOnce
PROPERTY QueueMakesRoom
