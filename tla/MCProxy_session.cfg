\* Buffers of three cells, frames of two, four and six: the last is too long
\* for pipeBuf until a frame of four has doubled it.
SPECIFICATION FairSpec
CONSTANTS
  Lengths = {1, 3, 5}
  BufSize = 3
  PipeSize = 2
  MaxUp = 3
  MaxDown = 2
CHECK_DEADLOCK FALSE
PROPERTIES
  RefinesUpPipe
  RefinesDownPipe
  SessionEndsTogether
