SPECIFICATION FairSpec
CONSTANTS
  a = a
  b = b
  Hashes = {a}
  Bits <- TwoBits
  Locations <- Alone
  Handlers = {h1, h2}
  Checker = checker
  Workers = {w1, w2}
  UncheckedSize = 1
  TorrentMaxQueueSize = 1
  MaxExits = 2
  None = None
INVARIANTS
  FilterIsVouchedFor
  PublishedIsStored
  FileIsWhole
PROPERTIES
  SavedFilterGrows
  PushReturns
