SPECIFICATION FairSpec
CONSTANTS
  t1 = t1
  t2 = t2
  t3 = t3
  Torrents = {t1, t2, t3}
  Unreadable = Unreadable
  BadHash = BadHash
  TrackerLimit = 2
  MaxQueue = 1
  MaxExits = 1
INVARIANTS
  OneToken
  AckedIsKept
  TriedWasAnnounced
PROPERTY
  OutdatedGetsItsTurn
