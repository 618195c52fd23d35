SPECIFICATION AnnouncedSpec
CONSTANTS
  a = a
  b = b
  Hashes = {a, b}
  Bits <- TwoBits
  Locations <- Overlapping
  Handlers = {h1}
  Checker = checker
  Workers = {w1}
  UncheckedSize = 1
  TorrentMaxQueueSize = 1
  MaxExits = 0
  None = None
INVARIANT
  CheckedIsRecognised
PROPERTIES
  EventuallyStored
  EventuallyPublished
