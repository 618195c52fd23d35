\* Torrents of one, two and three pieces and one that is too long, a peer that
\* follows the protocol or lies at every message, and every packet of SomePackets.
SPECIFICATION Spec
CONSTANTS
  Symbols <- AllSymbols
  Encode <- encodeAny
  DecodeAny <- decodeAny
  DecodeDict <- decodeDict
  ValueOf <- Value
  Lies <- SomeLies
  Torrents <- SomeTorrents
  Packets <- SomePackets
  NodeID <- Own
  EntryLen = 10
  PieceLength = 12
  MaxSize = 40
CHECK_DEADLOCK FALSE
INVARIANTS
  MetadataIsTheTorrents
  FaithfulSucceeds
  DecodedIsSent
  PushedIsAnnounced
  ReplyAnswers
  NodesAreEntries
PROPERTY GetMetadataReturns
