\* One datagram shorter than the buffer.
SPECIFICATION FairSpec
CONSTANTS
  Lengths = {1, 3}
  BufSize = 3
  PipeSize = 2
  MaxUp = 2
  MaxDown = 1
CHECK_DEADLOCK FALSE
PROPERTY WrittenIsSent
