\* Channels of one, one decoder, one handler, listeners of two sockets.
SPECIFICATION FairSpec
CONSTANTS
  Sockets = {s1, s2}
  Decoders = {d1}
  Handlers = {h1}
  PacketQueueSize = 1
  MaxQueueSize = 1
  BootstrapNodes = 1
  MaxOnTheirWay = 1
  MaxNodes = 1
  Nil = Nil
  TypedNil = TypedNil
\* The process may end.
CHECK_DEADLOCK FALSE
INVARIANTS
  OneSocket
  NeverDeaf
PROPERTIES
  HandlerReturns
  SocketComesBack
  KeepsCrawling
