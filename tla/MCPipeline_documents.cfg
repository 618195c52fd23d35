CONSTANTS
  Hashes = {h}
  BatchSize = 2
  MaxMsgs = 3
  MaxExits = 1
  MaxResults = 2
  PreFetch = 2
SPECIFICATION PipelineFairSpec
\* With nothing left to publish and less than a batch pending the loop waits.
CHECK_DEADLOCK FALSE
INVARIANTS
  BatchIsUnacked
  NoLoss
  IndexIsCurrent
  CountsSettle
  IndexShowsNewest
PROPERTY BacklogDrains
