--------------------------- MODULE CrawlerProofs ----------------------------
(***************************************************************************)
(* The crawler's one socket and its bounded channels, for any number of    *)
(* goroutines, sockets and queue sizes (Crawler), and what its handlers    *)
(* do with one packet, for any packets and any length of ids (Krpc).       *)
(***************************************************************************)
EXTENDS Crawler, Krpc, TLAPS

\* Only sendLoop connects, so there is still no socket when it does: without
\* this a second one would be opened and the first forgotten.
ConnectsOnlyNil == sender = "connect" => conn = Nil

SocketInv == OneSocket /\ NeverDeaf /\ ConnectsOnlyNil
Inv == TypeOK /\ SocketInv

LEMMA InitInv == Init => Inv
BY CrawlerAssumption DEF Init, Inv, TypeOK, SocketInv, OneSocket, NeverDeaf, ConnectsOnlyNil, Idle,
                         HandlerPlaces

LEMMA ListenType ==
  ASSUME TypeOK, NEW s \in Sockets, Listen(s)
  PROVE  TypeOK'
<1>1. CASE Read(s)
  BY <1>1, CrawlerAssumption DEF TypeOK, Read, socket, incoming, handling, outgoing
<1>2. CASE ReadFails(s)
  BY <1>2, CrawlerAssumption DEF TypeOK, ReadFails, socket, incoming, handling, outgoing
<1>3. CASE ListenSend(s)
  BY <1>3, CrawlerAssumption DEF TypeOK, ListenSend, socket, incoming, handling, outgoing
<1>4. CASE ListenDisconnect(s)
  BY <1>4, CrawlerAssumption DEF TypeOK, ListenDisconnect, Disconnect, socket, incoming, handling, outgoing
<1> QED
  BY <1>1, <1>2, <1>3, <1>4 DEF Listen

LEMMA DecodeLoopType ==
  ASSUME TypeOK, NEW d \in Decoders, DecodeLoop(d)
  PROVE  TypeOK'
<1>1. CASE Decode(d)
  BY <1>1, CrawlerAssumption DEF TypeOK, Decode, socket, incoming, handling, outgoing
<1>2. CASE DecodeSend(d)
  BY <1>2, CrawlerAssumption DEF TypeOK, DecodeSend, socket, incoming, handling, outgoing
<1> QED
  BY <1>1, <1>2 DEF DecodeLoop

LEMMA HandlerLoopType ==
  ASSUME TypeOK, NEW h \in Handlers, HandlerLoop(h)
  PROVE  TypeOK'
<1>1. CASE OnMessage(h)
  BY <1>1, CrawlerAssumption DEF TypeOK, OnMessage, HandlerPlaces, socket, incoming, handling, outgoing
<1>2. CASE DropNodes(h)
  BY <1>2, CrawlerAssumption DEF TypeOK, DropNodes, HandlerPlaces, socket, incoming, handling, outgoing
<1>3. CASE LookAtNode(h)
  BY <1>3, CrawlerAssumption DEF TypeOK, LookAtNode, NextNode, HandlerPlaces, socket, incoming, handling, outgoing
<1>4. CASE QueueNode(h)
  BY <1>4, CrawlerAssumption DEF TypeOK, QueueNode, NextNode, HandlerPlaces, socket, incoming, handling, outgoing
<1>5. CASE Reply(h)
  BY <1>5, CrawlerAssumption DEF TypeOK, Reply, HandlerPlaces, socket, incoming, handling, outgoing
<1>6. CASE Push(h)
  BY <1>6, CrawlerAssumption DEF TypeOK, Push, HandlerPlaces, socket, incoming, handling, outgoing
<1> QED
  BY <1>1, <1>2, <1>3, <1>4, <1>5, <1>6 DEF HandlerLoop

LEMMA BootstrapType ==
  ASSUME TypeOK, Bootstrap
  PROVE  TypeOK'
<1>1. CASE Tick
  BY <1>1, CrawlerAssumption DEF TypeOK, Tick, socket, incoming, handling, outgoing
<1>2. CASE BootstrapSend
  BY <1>2, CrawlerAssumption DEF TypeOK, BootstrapSend, socket, incoming, handling, outgoing
<1> QED
  BY <1>1, <1>2 DEF Bootstrap

LEMMA NeighbourLoopType ==
  ASSUME TypeOK, NeighbourLoop
  PROVE  TypeOK'
<1>1. CASE FindNode
  BY <1>1, CrawlerAssumption DEF TypeOK, FindNode, socket, incoming, handling, outgoing
<1>2. CASE SendFindNode
  BY <1>2, CrawlerAssumption DEF TypeOK, SendFindNode, socket, incoming, handling, outgoing
<1> QED
  BY <1>1, <1>2 DEF NeighbourLoop

LEMMA SendLoopType ==
  ASSUME TypeOK, SendLoop
  PROVE  TypeOK'
<1>1. CASE SkipOut
  BY <1>1, CrawlerAssumption DEF TypeOK, SkipOut, socket, incoming, handling, outgoing
<1>2. CASE TakeOut
  BY <1>2, CrawlerAssumption DEF TypeOK, TakeOut, socket, incoming, handling, outgoing
<1>3. CASE Connect
  BY <1>3, CrawlerAssumption DEF TypeOK, Connect, socket, incoming, handling, outgoing
<1>4. CASE ConnectFails
  BY <1>4, CrawlerAssumption DEF TypeOK, ConnectFails, socket, incoming, handling, outgoing
<1>5. CASE Write
  BY <1>5, CrawlerAssumption DEF TypeOK, Write, socket, incoming, handling, outgoing
<1>6. CASE WriteFails
  BY <1>6, CrawlerAssumption DEF TypeOK, WriteFails, Disconnect, socket, incoming, handling, outgoing
<1> QED
  BY <1>1, <1>2, <1>3, <1>4, <1>5, <1>6 DEF SendLoop

LEMMA EndType ==
  ASSUME TypeOK, End
  PROVE  TypeOK'
<1>1. /\ up' \in BOOLEAN /\ conn' \in Sockets \cup {Nil, TypedNil} /\ open' \in SUBSET Sockets
      /\ listener' \in [Sockets -> {"none", "read", "send", "broken"}]
  BY DEF End
<1>2. decoder' \in [Decoders -> {"idle", "send"}] /\ handler' \in [Handlers -> HandlerPlaces]
  BY DEF End, Idle, HandlerPlaces
<1>3. left' \in [Handlers -> 0 .. MaxNodes]
  BY CrawlerAssumption DEF End
<1>4. \A h \in Handlers : handler'[h] = "idle"
  BY DEF End, Idle
<1>5. /\ raw' \in 0 .. PacketQueueSize /\ decoded' \in 0 .. PacketQueueSize
      /\ out' \in 0 .. PacketQueueSize /\ neighbours' \in 0 .. MaxQueueSize
      /\ boot' \in 0 .. BootstrapNodes
  BY CrawlerAssumption DEF End
<1>6. finder' \in {"idle", "send"} /\ sender' \in {"idle", "connect", "write"}
  BY DEF End
<1> QED
  BY <1>1, <1>2, <1>3, <1>4, <1>5, <1>6 DEF TypeOK

-----------------------------------------------------------------------------
(* The socket: most steps leave it alone.                                  *)

LEMMA SocketKept ==
  ASSUME SocketInv, UNCHANGED socket, sender' # "connect" \/ UNCHANGED sender
  PROVE  SocketInv'
BY DEF SocketInv, OneSocket, NeverDeaf, ConnectsOnlyNil, socket

LEMMA ListenSocket ==
  ASSUME Inv, NEW s \in Sockets, Listen(s)
  PROVE  SocketInv'
<1>1. UNCHANGED sender
  BY DEF Listen, Read, ReadFails, ListenSend, ListenDisconnect, outgoing
<1>2. CASE Read(s) \/ ReadFails(s) \/ ListenSend(s)
  <2>1. /\ UNCHANGED <<conn, open>>
        /\ \E place \in {"read", "send", "broken"} : listener' = [listener EXCEPT ![s] = place]
    BY <1>2 DEF Read, ReadFails, ListenSend
  <2> QED
    BY <1>1, <2>1 DEF Inv, TypeOK, SocketInv, OneSocket, NeverDeaf, ConnectsOnlyNil
<1>3. CASE ListenDisconnect(s)
  <2>1. open' = open \ {conn} /\ conn' = Nil
    BY <1>3 DEF ListenDisconnect, Disconnect
  <2> QED
    BY <1>1, <2>1, CrawlerAssumption DEF Inv, SocketInv, OneSocket, NeverDeaf, ConnectsOnlyNil
<1> QED
  BY <1>2, <1>3 DEF Listen

LEMMA SendLoopSocket ==
  ASSUME Inv, SendLoop
  PROVE  SocketInv'
<1>1. CASE SkipOut \/ Write
  BY <1>1, SocketKept DEF Inv, SkipOut, Write
<1>2. CASE TakeOut
  BY <1>2 DEF Inv, SocketInv, OneSocket, NeverDeaf, ConnectsOnlyNil, TakeOut, socket
<1>3. CASE Connect
  <2>1. conn = Nil /\ open = {}
    BY <1>3, CrawlerAssumption DEF Connect, Inv, SocketInv, ConnectsOnlyNil, OneSocket
  <2>2. PICK s \in Sockets : /\ conn' = s /\ open' = open \cup {s}
                             /\ listener' = [listener EXCEPT ![s] = "read"]
    BY <1>3 DEF Connect
  <2> QED
    BY <1>3, <2>1, <2>2 DEF Connect, Inv, TypeOK, SocketInv, OneSocket, NeverDeaf, ConnectsOnlyNil
<1>4. CASE ConnectFails
  <2>1. open = {}
    BY <1>4, CrawlerAssumption DEF ConnectFails, Inv, SocketInv, ConnectsOnlyNil, OneSocket
  <2> QED
    BY <1>4, <2>1, CrawlerAssumption
       DEF ConnectFails, SocketInv, OneSocket, NeverDeaf, ConnectsOnlyNil
<1>5. CASE WriteFails
  BY <1>5, CrawlerAssumption
     DEF WriteFails, Disconnect, Inv, SocketInv, OneSocket, NeverDeaf, ConnectsOnlyNil
<1> QED
  BY <1>1, <1>2, <1>3, <1>4, <1>5 DEF SendLoop

LEMMA OtherSocket ==
  ASSUME Inv,
         \/ \E d \in Decoders : DecodeLoop(d)
         \/ \E h \in Handlers : HandlerLoop(h)
         \/ Bootstrap \/ NeighbourLoop
  PROVE  SocketInv'
<1>1. ASSUME NEW d \in Decoders, DecodeLoop(d) PROVE SocketInv'
  BY <1>1, SocketKept DEF Inv, DecodeLoop, Decode, DecodeSend, outgoing
<1>2. ASSUME NEW h \in Handlers, HandlerLoop(h) PROVE SocketInv'
  BY <1>2, SocketKept DEF Inv, HandlerLoop, OnMessage, DropNodes, LookAtNode, QueueNode, Reply, Push,
                          outgoing
<1>3. CASE Bootstrap \/ NeighbourLoop
  BY <1>3, SocketKept DEF Inv, Bootstrap, Tick, BootstrapSend, NeighbourLoop, FindNode, SendFindNode
<1> QED
  BY <1>1, <1>2, <1>3

LEMMA EndSocket ==
  ASSUME End
  PROVE  SocketInv'
BY CrawlerAssumption DEF End, SocketInv, OneSocket, NeverDeaf, ConnectsOnlyNil

LEMMA NextInv == Inv /\ [Next]_vars => Inv'
<1> SUFFICES ASSUME Inv, [Next]_vars PROVE Inv'
  OBVIOUS
<1>1. CASE UNCHANGED vars
  <2>1. TypeOK'
    BY <1>1 DEF Inv, TypeOK, vars, socket, incoming, handling, outgoing
  <2>2. SocketInv'
    BY <1>1, SocketKept DEF Inv, vars, outgoing
  <2> QED
    BY <2>1, <2>2 DEF Inv
<1>2. ASSUME Next PROVE TypeOK'
  BY <1>2, ListenType, DecodeLoopType, HandlerLoopType, BootstrapType, NeighbourLoopType,
     SendLoopType, EndType DEF Inv, Next, Panic, Exit
<1>3. ASSUME Next PROVE SocketInv'
  BY <1>3, ListenSocket, OtherSocket, SendLoopSocket, EndSocket DEF Next, Panic, Exit
<1> QED
  BY <1>1, <1>2, <1>3 DEF Inv

LEMMA InvAlways == Spec => []Inv
BY InitInv, NextInv, PTL DEF Spec

\* No channel outgrows its capacity, and a handler has a node to look at
\* whenever it is in the loop over them.
THEOREM TypeCorrect == Spec => []TypeOK
<1>1. Inv => TypeOK
  BY DEF Inv
<1> QED
  BY <1>1, InvAlways, PTL

\* No socket is leaked, whichever listener disconnects which socket while
\* sendLoop reconnects.
THEOREM NoSocketLeaked == Spec => []OneSocket
<1>1. Inv => OneSocket
  BY DEF Inv, SocketInv
<1> QED
  BY <1>1, InvAlways, PTL

\* The current socket always has its listener.
THEOREM SocketIsListenedTo == Spec => []NeverDeaf
<1>1. Inv => NeverDeaf
  BY DEF Inv, SocketInv
<1> QED
  BY <1>1, InvAlways, PTL

-----------------------------------------------------------------------------
(* Slices of a buffer.                                                     *)

LEMMA SliceShows ==
  ASSUME NEW b \in Seq(Symbols), NEW f \in 1 .. Len(b) + 1, NEW n \in 0 .. Len(b) + 1 - f
  PROVE  /\ SubSeq(b, f, f + n - 1) \in Seq(Symbols)
         /\ Len(SubSeq(b, f, f + n - 1)) = n
         /\ \A i \in 1 .. n : SubSeq(b, f, f + n - 1)[i] = b[f + i - 1]
<1>1. f + n - 1 \in Nat /\ (f + n - 1) - f + 1 = n /\ f + n - 1 <= Len(b)
  OBVIOUS
<1> QED
  BY <1>1

LEMMA SameSymbols ==
  ASSUME NEW s \in Seq(Symbols), NEW t \in Seq(Symbols), Len(s) = Len(t),
         \A i \in 1 .. Len(s) : s[i] = t[i]
  PROVE  s = t
OBVIOUS

\* A slice of the packet's buffer.
InBuf(s) == s.from \in 1 .. Len(buf) + 1 /\ s.len \in 0 .. Len(buf) + 1 - s.from

LEMMA Lengths == IdLen \in Nat /\ Half \in Nat /\ Half <= IdLen
<1>1. IdLen \in Nat
  BY PacketAssumption DEF IdLen
<1> QED
  BY <1>1 DEF Half

LEMMA ContentShows ==
  ASSUME NEW b \in Seq(Symbols), Len(b) = Len(buf), NEW s, InBuf(s)
  PROVE  /\ Content(b, s) \in Seq(Symbols)
         /\ Len(Content(b, s)) = s.len
         /\ \A i \in 1 .. s.len : Content(b, s)[i] = b[s.from + i - 1]
<1>1. s.from \in 1 .. Len(b) + 1 /\ s.len \in 0 .. Len(b) + 1 - s.from
  BY Zenon DEF InBuf
<1> QED
  BY <1>1, SliceShows, Zenon DEF Content

\* GetNeighbourID writes half an id inside the slice it is given.
LEMMA WriteShows ==
  ASSUME buf \in Seq(Symbols), NEW s, InBuf(s), s.len >= IdLen
  PROVE  /\ WithNeighbourID(s) \in Seq(Symbols)
         /\ Len(WithNeighbourID(s)) = Len(buf)
         /\ \A i \in 1 .. Len(buf) :
              WithNeighbourID(s)[i] = IF i \in s.from + Half .. s.from + IdLen - 1
                                      THEN NodeID[i - s.from + 1] ELSE buf[i]
<1> DEFINE f == s.from
<1> DEFINE n == s.len
<1> DEFINE new == [i \in 1 .. Len(buf) |-> IF i \in f + Half .. f + IdLen - 1
                                           THEN NodeID[i - f + 1] ELSE buf[i]]
<1>1. f \in 1 .. Len(buf) + 1 /\ n \in 0 .. Len(buf) + 1 - f /\ n >= IdLen /\ Len(buf) \in Nat
  BY DEF InBuf
<1>2. IdLen \in Nat /\ Half \in Nat /\ Half <= IdLen
  BY Lengths
<1>3. Capacity(s) = Len(buf) - f + 1
  BY DEF Capacity
<1> HIDE DEF f, n
<1>4. ~(Len(buf) - f + 1 < IdLen)
  BY <1>1, <1>2
<1>5. WithNeighbourID(s) = new
  BY <1>3, <1>4, Zenon DEF WithNeighbourID, f
<1>6. ASSUME NEW i \in 1 .. Len(buf) PROVE new[i] \in Symbols
  <2>1. CASE i \in f + Half .. f + IdLen - 1
    <3>1. i - f + 1 \in 1 .. IdLen
      BY <1>1, <1>2, <2>1
    <3>2. NodeID[i - f + 1] \in Symbols
      BY <3>1, PacketAssumption DEF IdLen
    <3> QED
      BY <2>1, <3>2
  <2>2. CASE i \notin f + Half .. f + IdLen - 1
    BY <2>2
  <2> QED
    BY <2>1, <2>2
<1>7. new \in Seq(Symbols) /\ Len(new) = Len(buf)
  <2> HIDE DEF new
  <2>1. new \in [1 .. Len(buf) -> Symbols]
    BY <1>6 DEF new
  <2> QED
    BY <1>1, <2>1
<1>8. \A i \in 1 .. Len(buf) : new[i] = IF i \in f + Half .. f + IdLen - 1
                                        THEN NodeID[i - f + 1] ELSE buf[i]
  BY Zenon
<1> HIDE DEF new
<1> QED
  BY <1>5, <1>7, <1>8, Zenon DEF f

LEMMA ApartFrom ==
  ASSUME NEW a \in Int, NEW m \in Int, NEW c \in Int, NEW l \in Int, NEW z \in Nat,
         NEW h \in Nat, NEW d \in Nat, m >= d, 1 <= c, c + l <= z + 1,
         a + m <= c \/ c + l <= a, NEW i \in 1 .. l
  PROVE  c + i - 1 \in 1 .. z /\ c + i - 1 \notin a + h .. a + d - 1
OBVIOUS

\* Another slice shows what it did.
LEMMA Untouched ==
  ASSUME buf \in Seq(Symbols), NEW s, InBuf(s), s.len >= IdLen, NEW t, InBuf(t),
         s.from + s.len <= t.from \/ t.from + t.len <= s.from
  PROVE  Content(WithNeighbourID(s), t) = Content(buf, t)
<1> DEFINE new == WithNeighbourID(s)
<1>1. /\ new \in Seq(Symbols) /\ Len(new) = Len(buf)
      /\ \A i \in 1 .. Len(buf) : new[i] = IF i \in s.from + Half .. s.from + IdLen - 1
                                           THEN NodeID[i - s.from + 1] ELSE buf[i]
  BY WriteShows, Zenon
<1> HIDE DEF new
<1>2. /\ Content(new, t) \in Seq(Symbols) /\ Len(Content(new, t)) = t.len
      /\ \A i \in 1 .. t.len : Content(new, t)[i] = new[t.from + i - 1]
  BY <1>1, ContentShows, Zenon
<1>3. /\ Content(buf, t) \in Seq(Symbols) /\ Len(Content(buf, t)) = t.len
      /\ \A i \in 1 .. t.len : Content(buf, t)[i] = buf[t.from + i - 1]
  BY ContentShows, Zenon
<1>4. ASSUME NEW i \in 1 .. t.len PROVE new[t.from + i - 1] = buf[t.from + i - 1]
  <2>1. /\ s.from \in Int /\ s.len \in Int /\ t.from \in Int /\ t.len \in Int /\ 1 <= t.from
        /\ t.from + t.len <= Len(buf) + 1 /\ Len(buf) \in Nat
    <3>1. \A x, y \in Int, z \in Nat : x \in 1 .. z + 1 /\ y \in 0 .. z + 1 - x => 1 <= x /\ x + y <= z + 1
      OBVIOUS
    <3>2. Len(buf) \in Nat
      OBVIOUS
    <3>3. \A x : InBuf(x) => x.from \in Int /\ x.len \in Int
      BY <3>2 DEF InBuf
    <3> QED
      BY <3>1, <3>2, <3>3, Zenon DEF InBuf
  <2>2. IdLen \in Nat /\ Half \in Nat
    BY Lengths
  <2>3. t.from + i - 1 \in 1 .. Len(buf) /\ t.from + i - 1 \notin s.from + Half .. s.from + IdLen - 1
    BY <2>1, <2>2, ApartFrom
  <2> QED
    BY <1>1, <2>3, Zenon
<1> QED
  <2>1. \A i \in 1 .. Len(Content(new, t)) : Content(new, t)[i] = Content(buf, t)[i]
    BY <1>2, <1>3, <1>4, Zenon
  <2> QED
    BY <1>2, <1>3, <2>1, SameSymbols, Zenon DEF new

LEMMA JoinShows ==
  ASSUME NEW p \in Seq(Symbols), NEW q \in Seq(Symbols)
  PROVE  /\ p \o q \in Seq(Symbols) /\ Len(p \o q) = Len(p) + Len(q)
         /\ \A i \in 1 .. Len(p) + Len(q) : (p \o q)[i] = IF i <= Len(p) THEN p[i] ELSE q[i - Len(p)]
OBVIOUS

\* What GetNeighbourID returns.
LEMMA NeighbourShows ==
  ASSUME NEW x \in Seq(Symbols), IdLen <= Len(x)
  PROVE  /\ Neighbour(x) \in Seq(Symbols)
         /\ Len(Neighbour(x)) = IdLen
         /\ \A i \in 1 .. IdLen : Neighbour(x)[i] = IF i <= Half THEN x[i] ELSE NodeID[i]
<1> DEFINE h == Half
<1> DEFINE d == IdLen
<1> DEFINE own == NodeID
<1>1. d \in Nat /\ h \in Nat /\ h <= d /\ own \in Seq(Symbols) /\ Len(own) = d /\ Len(x) \in Nat /\ d <= Len(x)
  BY Lengths, PacketAssumption DEF IdLen
<1> DEFINE head == SubSeq(x, 1, h)
<1> DEFINE tail == SubSeq(own, h + 1, d)
<1>2. Neighbour(x) = head \o tail
  BY DEF Neighbour
<1> HIDE DEF h, d, own
<1>3. head \in Seq(Symbols) /\ Len(head) = h /\ \A i \in 1 .. h : head[i] = x[i]
  BY <1>1
<1>4. tail \in Seq(Symbols) /\ Len(tail) = d - h /\ \A i \in 1 .. d - h : tail[i] = own[h + i]
  BY <1>1
<1> HIDE DEF head, tail
<1>5. /\ head \o tail \in Seq(Symbols) /\ Len(head \o tail) = Len(head) + Len(tail)
      /\ \A i \in 1 .. Len(head) + Len(tail) :
           (head \o tail)[i] = IF i <= Len(head) THEN head[i] ELSE tail[i - Len(head)]
  BY <1>3, <1>4, JoinShows, Zenon
<1>6. Len(head) + Len(tail) = d
  BY <1>1, <1>3, <1>4
<1>7. ASSUME NEW i \in 1 .. d PROVE (head \o tail)[i] = IF i <= h THEN x[i] ELSE own[i]
  <2>1. CASE i <= h
    <3>1. i \in 1 .. h
      BY <1>1, <2>1
    <3> QED
      BY <1>3, <1>5, <1>6, <2>1, <3>1, Zenon
  <2>2. CASE ~(i <= h)
    <3>1. i - h \in 1 .. d - h /\ h + (i - h) = i
      BY <1>1, <2>2
    <3>2. (head \o tail)[i] = tail[i - h]
      BY <1>3, <1>5, <1>6, <2>2, Zenon
    <3> QED
      BY <1>4, <2>2, <3>1, <3>2, Zenon
  <2> QED
    BY <2>1, <2>2, Zenon
<1> QED
  BY <1>2, <1>5, <1>6, <1>7, Zenon DEF h, d, own

\* The id it returns depends on the slice alone, and is what it has written there.
LEMMA NeighbourInPlace ==
  ASSUME buf \in Seq(Symbols), NEW s, InBuf(s), s.len >= IdLen
  PROVE  /\ Neighbour(Beyond(s)) = Neighbour(Content(buf, s))
         /\ Content(WithNeighbourID(s), [from |-> s.from, len |-> IdLen]) = Neighbour(Content(buf, s))
<1> DEFINE f == s.from
<1> DEFINE b == buf
<1> DEFINE z == Len(buf)
<1> DEFINE d == IdLen
<1> DEFINE h == Half
<1> DEFINE asked == Content(buf, s)
<1> DEFINE new == WithNeighbourID(s)
<1>1. z \in Nat /\ f \in 1 .. z + 1 /\ d \in 0 .. z + 1 - f
  <2>1. z \in Nat /\ f \in 1 .. z + 1 /\ s.len \in 0 .. z + 1 - f /\ s.len >= d /\ d \in Nat
    BY Lengths DEF InBuf
  <2> HIDE DEF f, z, d
  <2> QED
    BY <2>1
<1>2. h \in Nat /\ h <= d /\ d \in Nat
  BY Lengths
<1>3. /\ asked \in Seq(Symbols) /\ d <= Len(asked)
      /\ \A i \in 1 .. d : asked[i] = b[f + i - 1]
  <2>1. /\ asked \in Seq(Symbols) /\ Len(asked) = s.len
        /\ \A i \in 1 .. s.len : asked[i] = b[f + i - 1]
    BY ContentShows, Zenon
  <2>2. s.len \in Int /\ s.len >= d
    BY <1>1 DEF InBuf
  <2> HIDE DEF asked, f, b, d
  <2> QED
    BY <1>2, <2>1, <2>2
<1>4. /\ Beyond(s) \in Seq(Symbols) /\ d <= Len(Beyond(s))
      /\ \A i \in 1 .. d : Beyond(s)[i] = b[f + i - 1]
  <2>1. Beyond(s) = SubSeq(b, f, z)
    BY DEF Beyond
  <2> DEFINE m == z + 1 - f
  <2>2. b \in Seq(Symbols) /\ Len(b) = z
    OBVIOUS
  <2> HIDE DEF f, b, z, d
  <2>3. z = f + m - 1 /\ m \in 0 .. z + 1 - f /\ d <= m /\ \A i \in 1 .. d : i \in 1 .. m
    BY <1>1
  <2> HIDE DEF m
  <2>4. /\ SubSeq(b, f, f + m - 1) \in Seq(Symbols) /\ Len(SubSeq(b, f, f + m - 1)) = m
        /\ \A i \in 1 .. m : SubSeq(b, f, f + m - 1)[i] = b[f + i - 1]
    <3>1. f \in 1 .. Len(b) + 1 /\ m \in 0 .. Len(b) + 1 - f
      BY <1>1, <2>2, <2>3, Zenon
    <3> QED
      BY <2>2, <3>1, SliceShows, Zenon
  <2> QED
    BY <2>1, <2>3, <2>4, Zenon
<1>5. /\ new \in Seq(Symbols) /\ Len(new) = z
      /\ \A i \in 1 .. z : new[i] = IF i \in f + h .. f + d - 1 THEN NodeID[i - f + 1] ELSE b[i]
  BY WriteShows, Zenon
<1>6. Content(new, [from |-> f, len |-> d]) = SubSeq(new, f, f + d - 1)
  BY DEF Content
<1> HIDE DEF f, b, z, d, h, asked, new
<1> DEFINE written == SubSeq(new, f, f + d - 1)
<1>7. /\ written \in Seq(Symbols) /\ Len(written) = d
      /\ \A i \in 1 .. d : written[i] = new[f + i - 1]
  BY <1>1, <1>5, SliceShows, Zenon
<1>8. ASSUME NEW i \in 1 .. d PROVE new[f + i - 1] = IF i <= h THEN b[f + i - 1] ELSE NodeID[i]
  <2>1. /\ f + i - 1 \in 1 .. z /\ (f + i - 1) - f + 1 = i
        /\ (f + i - 1 \in f + h .. f + d - 1 <=> ~(i <= h))
    BY <1>1, <1>2, <1>8
  <2> QED
    BY <1>5, <2>1, Zenon
<1> HIDE DEF written
<1>9. /\ Neighbour(asked) \in Seq(Symbols) /\ Len(Neighbour(asked)) = d
      /\ \A i \in 1 .. d : Neighbour(asked)[i] = IF i <= h THEN b[f + i - 1] ELSE NodeID[i]
  <2>1. \A i \in 1 .. d : Neighbour(asked)[i] = IF i <= h THEN asked[i] ELSE NodeID[i]
    BY <1>3, NeighbourShows, Zenon DEF d, h
  <2>2. Neighbour(asked) \in Seq(Symbols) /\ Len(Neighbour(asked)) = d
    BY <1>3, NeighbourShows, Zenon DEF d
  <2> QED
    BY <1>3, <2>1, <2>2, Zenon
<1>10. Neighbour(Beyond(s)) = Neighbour(asked)
  <2> DEFINE near == Neighbour(Beyond(s))
  <2>1. \A i \in 1 .. d : near[i] = IF i <= h THEN Beyond(s)[i] ELSE NodeID[i]
    BY <1>4, NeighbourShows, Zenon DEF d, h
  <2>2. near \in Seq(Symbols) /\ Len(near) = d
    BY <1>4, NeighbourShows, Zenon DEF d
  <2> HIDE DEF near
  <2>3. \A i \in 1 .. Len(near) : near[i] = Neighbour(asked)[i]
    BY <1>4, <1>9, <2>1, <2>2, Zenon
  <2>4. Len(near) = Len(Neighbour(asked))
    BY <1>9, <2>2
  <2> QED
    BY <1>9, <2>2, <2>3, <2>4, SameSymbols, Zenon DEF near
<1>11. written = Neighbour(asked)
  <2>1. \A i \in 1 .. Len(written) : written[i] = Neighbour(asked)[i]
    BY <1>7, <1>8, <1>9, Zenon
  <2>2. Len(written) = Len(Neighbour(asked))
    BY <1>7, <1>9
  <2> QED
    BY <1>7, <1>9, <2>1, <2>2, SameSymbols, Zenon
<1> QED
  BY <1>6, <1>10, <1>11, Zenon DEF written, asked, new, f, d

-----------------------------------------------------------------------------
(* One packet.                                                             *)

\* No handler has run.
Unanswered == nodes = << >> /\ reply = << >> /\ pushed = Nothing

\* A decoded packet is read from the bytes its sender sent.
PacketInv ==
  /\ packet \in Packets
  /\ phase = "raw" => buf = Encode(packet)
  /\ phase = "decoded" => buf = Encode(packet) /\ Reads(buf, data, packet)
  /\ phase # "done" => Unanswered

\* What the handlers promise; it is kept by each of them, and PacketInv is what
\* they rely on.
Promises == PushedIsAnnounced /\ ReplyAnswers /\ NodesAreEntries

\* What a decoded packet shows, path by path.
LEMMA DecodedShows ==
  ASSUME PacketInv, phase = "decoded"
  PROVE  /\ packet \in Packets /\ buf \in Seq(Symbols) /\ Unanswered
         /\ \A path \in Paths : /\ Shown(buf, data, path) = Field(packet, path)
                                /\ GetInt(data, path) = GetInt(packet, path)
                                /\ GetBytes(data, path) # Nothing => InBuf(GetBytes(data, path))
<1>1. packet \in Packets /\ buf = Encode(packet) /\ Reads(buf, data, packet) /\ Unanswered
  BY DEF PacketInv
<1>2. buf \in Seq(Symbols)
  BY <1>1, PacketAssumption, Zenon
<1> QED
  BY <1>1, <1>2, Zenon DEF Reads, InBuf

\* A step that answers nothing.
LEMMA NothingPromised ==
  ASSUME Unanswered', phase' # "done" PROVE Promises'
<1>1. \A k \in DOMAIN nodes' : FALSE
  <2>1. nodes' = << >>
    BY Zenon DEF Unanswered
  <2> QED
    BY <2>1
<1> QED
  BY <1>1, Zenon DEF Unanswered, Promises, PushedIsAnnounced, ReplyAnswers, NodesAreEntries

\* The id is written into a long enough slice of the arguments; one that is
\* apart from it shows what its sender gave.
LEMMA ShownAfterWrite ==
  ASSUME PacketInv, phase = "decoded", NEW x \in Paths, NEW y \in Paths,
         x # y, x[1] = y[1] => IsDict(Entry(packet, x[1])),
         GetBytes(data, x) # Nothing, GetBytes(data, x).len >= IdLen
  PROVE  Shown(WithNeighbourID(GetBytes(data, x)), data, y) = Field(packet, y)
<1> DEFINE s == GetBytes(data, x)
<1> DEFINE t == GetBytes(data, y)
<1>1. /\ buf \in Seq(Symbols) /\ InBuf(s) /\ (t # Nothing => InBuf(t))
      /\ Shown(buf, data, y) = Field(packet, y)
  BY DecodedShows, Zenon
<1>2. t # Nothing => s.from + s.len <= t.from \/ t.from + t.len <= s.from
  BY Zenon DEF PacketInv, Reads
<1>3. Shown(WithNeighbourID(s), data, y) = IF t = Nothing THEN << >> ELSE Content(WithNeighbourID(s), t)
  BY DEF Shown
<1>4. Shown(buf, data, y) = IF t = Nothing THEN << >> ELSE Content(buf, t)
  BY DEF Shown
<1> HIDE DEF s, t
<1>5. ASSUME t # Nothing PROVE Content(WithNeighbourID(s), t) = Content(buf, t)
  <2>1. s.len >= IdLen
    BY DEF s
  <2> QED
    BY <1>1, <1>2, <1>5, <2>1, Untouched, Zenon
<1> QED
  BY <1>1, <1>3, <1>4, <1>5, Zenon DEF s, t

\* The names are different paths.
LEMMA PathsApart ==
  /\ <<"t">> \in Paths /\ <<"y">> \in Paths /\ <<"r", "nodes">> \in Paths /\ <<"a", "id">> \in Paths
  /\ <<"a", "info_hash">> \in Paths /\ <<"a", "port">> \in Paths /\ <<"a", "implied_port">> \in Paths
  /\ <<"a", "id">> # <<"t">> /\ <<"a", "info_hash">> # <<"t">>
  /\ <<"a", "id">> # <<"a", "info_hash">>
  /\ <<"a", "id">>[1] = "a" /\ <<"a", "info_hash">>[1] = "a" /\ <<"t">>[1] = "t" /\ "t" # "a"
BY DEF Paths

LEMMA RecordIsSome ==
  ASSUME NEW h, NEW p PROVE [infoHash |-> h, port |-> p] # Nothing
BY DEF Nothing

LEMMA AnnounceStep ==
  ASSUME PacketInv, OnAnnouncePeerRequest
  PROVE  PacketInv' /\ Promises'
<1>1. phase = "decoded" /\ Name("y") = <<"q">>
  BY DEF OnAnnouncePeerRequest, Message, IsQuery
<1>2. packet \in Packets /\ Unanswered /\ Shown(buf, data, <<"y">>) = Field(packet, <<"y">>)
  BY <1>1, DecodedShows, PathsApart, Zenon
<1> DEFINE id == GetBytes(data, <<"a", "id">>)
<1>3. CASE id = Nothing \/ Capacity(id) < Half
  <2>1. phase' = "panic" /\ UNCHANGED <<packet, buf, data, nodes, reply, pushed>>
    BY <1>3 DEF OnAnnouncePeerRequest, Drop
  <2>2. Unanswered'
    BY <1>2, <2>1, Zenon DEF Unanswered
  <2>3. phase' # "done"
    BY <2>1
  <2>4. Promises'
    BY <2>2, <2>3, NothingPromised, Zenon
  <2> QED
    BY <1>2, <2>1, <2>2, <2>4 DEF PacketInv
<1>4. CASE ~(id = Nothing \/ Capacity(id) < Half)
  <2>1. /\ buf' = WithNeighbourID(id)
        /\ reply' = Encode(EmptyResponse(Shown(buf', data, <<"t">>), Neighbour(Beyond(id))))
        /\ pushed' = Announced(buf')
        /\ phase' = "done"
        /\ UNCHANGED <<packet, data, nodes>>
    BY <1>4, Zenon DEF OnAnnouncePeerRequest
  <2>2. PacketInv'
    BY <1>2, <2>1 DEF PacketInv
  <2>3. pushed' # Nothing
    BY <2>1, RecordIsSome, Zenon DEF Announced
  <2>4. NodesAreEntries'
    <3>1. Field(packet', <<"y">>) # <<"r">>
      BY <1>1, <1>2, <2>1 DEF Name
    <3>2. \A k \in DOMAIN nodes' : FALSE
      BY <1>2, <2>1 DEF Unanswered
    <3> QED
      BY <3>1, <3>2, Zenon DEF NodesAreEntries
  <2>5. ASSUME WellFormed' PROVE PushedIsAnnounced' /\ ReplyAnswers'
    <3>1. IsDict(Entry(packet, "a")) /\ Len(Field(packet, <<"a", "id">>)) >= IdLen
      BY <2>1, <2>5, Zenon DEF WellFormed
    <3>2. buf \in Seq(Symbols) /\ InBuf(id) /\ Field(packet, <<"a", "id">>) = Content(buf, id)
      BY <1>1, <1>4, DecodedShows, PathsApart, Zenon DEF Shown
    <3>3. id.len >= IdLen
      <4>1. Len(Content(buf, id)) = id.len
        BY <3>2, ContentShows, Zenon
      <4> QED
        BY <3>1, <3>2, <4>1, Zenon
    <3>4. Shown(buf', data, <<"t">>) = Field(packet, <<"t">>)
      BY <1>1, <1>4, <2>1, <3>3, PathsApart, ShownAfterWrite, Zenon
    <3>5. Shown(buf', data, <<"a", "info_hash">>) = Field(packet, <<"a", "info_hash">>)
      BY <1>1, <1>4, <2>1, <3>1, <3>3, PathsApart, ShownAfterWrite, Zenon
    <3>6. GetInt(data, <<"a", "port">>) = GetInt(packet, <<"a", "port">>)
      BY <1>1, DecodedShows, PathsApart, Zenon
    <3>7. PushedIsAnnounced'
      <4>1. pushed'.infoHash = Field(packet, <<"a", "info_hash">>)
        BY <2>1, <3>5 DEF Announced
      <4>2. pushed'.port \in {GetInt(packet, <<"a", "port">>), -1}
        BY <2>1, <3>6 DEF Announced
      <4> QED
        BY <2>1, <4>1, <4>2, Zenon DEF PushedIsAnnounced
    <3>8. Neighbour(Beyond(id)) = Neighbour(Field(packet, <<"a", "id">>))
      BY <3>2, <3>3, NeighbourInPlace, Zenon
    <3> DEFINE tid == Field(packet, <<"t">>)
    <3> DEFINE near == Neighbour(Field(packet, <<"a", "id">>))
    <3>9. Answers(EmptyResponse(tid, near), tid, near)
      <4>1. "id" \in {"id", "info_hash"}
        OBVIOUS
      <4> QED
        BY <1>2, <3>1, <4>1, PacketAssumption, Zenon
    <3>10. reply' = Encode(EmptyResponse(tid, near))
      BY <2>1, <3>4, <3>8, Zenon
    <3>11. /\ Shown(reply', DecodeAny(reply', 1).val, <<"t">>) = tid
           /\ Shown(reply', DecodeAny(reply', 1).val, <<"r", "id">>) = near
      BY <3>9, <3>10, Zenon DEF Answers
    <3>12. ReplyAnswers'
      BY <2>1, <2>3, <3>11, Zenon DEF ReplyAnswers, Neighbour
    <3> QED
      BY <3>7, <3>12
  <2>6. ASSUME ~WellFormed' PROVE PushedIsAnnounced' /\ ReplyAnswers'
    BY <2>3, <2>6, Zenon DEF PushedIsAnnounced, ReplyAnswers
  <2> QED
    BY <2>2, <2>4, <2>5, <2>6, Zenon DEF Promises
<1> QED
  BY <1>3, <1>4, Zenon

LEMMA GetPeersStep ==
  ASSUME PacketInv, OnGetPeersRequest
  PROVE  PacketInv' /\ Promises'
<1>1. phase = "decoded" /\ Name("y") = <<"q">>
  BY DEF OnGetPeersRequest, Message, IsQuery
<1>2. packet \in Packets /\ Unanswered /\ Shown(buf, data, <<"y">>) = Field(packet, <<"y">>)
  BY <1>1, DecodedShows, PathsApart, Zenon
<1> DEFINE hash == GetBytes(data, <<"a", "info_hash">>)
<1>3. CASE ~CheckMapPath(data, <<"t">>) \/ hash = Nothing \/ hash.len < IdLen
  <2>1. phase' = "dropped" /\ UNCHANGED <<packet, buf, data, nodes, reply, pushed>>
    BY <1>3, Zenon DEF OnGetPeersRequest, Drop
  <2>2. Unanswered'
    BY <1>2, <2>1, Zenon DEF Unanswered
  <2>3. phase' # "done"
    BY <2>1
  <2>4. Promises'
    BY <2>2, <2>3, NothingPromised, Zenon
  <2> QED
    BY <1>2, <2>1, <2>2, <2>4 DEF PacketInv
<1>4. CASE ~(~CheckMapPath(data, <<"t">>) \/ hash = Nothing \/ hash.len < IdLen)
  <2>1. /\ buf' = WithNeighbourID(hash)
        /\ reply' = Encode(GetPeersResponse(Shown(buf', data, <<"t">>), Neighbour(Beyond(hash)),
                             Content(buf', [from |-> hash.from, len |-> IdLen])))
        /\ phase' = "done"
        /\ UNCHANGED <<packet, data, nodes, pushed>>
    BY <1>4, Zenon DEF OnGetPeersRequest
  <2>2. PacketInv'
    BY <1>2, <2>1 DEF PacketInv
  <2>3. pushed' = Nothing
    BY <1>2, <2>1, Zenon DEF Unanswered
  <2>4. NodesAreEntries'
    <3>1. Field(packet', <<"y">>) # <<"r">>
      BY <1>1, <1>2, <2>1 DEF Name
    <3>2. \A k \in DOMAIN nodes' : FALSE
      BY <1>2, <2>1 DEF Unanswered
    <3> QED
      BY <3>1, <3>2, Zenon DEF NodesAreEntries
  <2>5. /\ buf \in Seq(Symbols) /\ InBuf(hash)
        /\ Field(packet, <<"a", "info_hash">>) = Content(buf, hash)
    BY <1>1, <1>4, DecodedShows, PathsApart, Zenon DEF Shown
  <2>6. hash.len >= IdLen
    <3>1. hash.len \in Int /\ IdLen \in Int
      BY <2>5, Lengths DEF InBuf
    <3>2. ~(hash.len < IdLen)
      BY <1>4, Zenon
    <3> HIDE DEF hash
    <3> QED
      BY <3>1, <3>2
  <2>7. Len(Field(packet, <<"a", "info_hash">>)) >= IdLen
    <3>1. Len(Content(buf, hash)) = hash.len
      BY <2>5, ContentShows, Zenon
    <3> QED
      BY <2>5, <2>6, <3>1, Zenon
  <2>8. Shown(buf', data, <<"t">>) = Field(packet, <<"t">>)
    BY <1>1, <1>4, <2>1, <2>6, PathsApart, ShownAfterWrite, Zenon
  <2> DEFINE tid == Field(packet, <<"t">>)
  <2> DEFINE near == Neighbour(Field(packet, <<"a", "info_hash">>))
  <2>9. Neighbour(Beyond(hash)) = near /\ Content(buf', [from |-> hash.from, len |-> IdLen]) = near
    BY <2>1, <2>5, <2>6, NeighbourInPlace, Zenon
  <2>10. Answers(GetPeersResponse(tid, near, near), tid, near)
    <3>1. "info_hash" \in {"id", "info_hash"}
      OBVIOUS
    <3> QED
      BY <1>2, <2>7, <3>1, PacketAssumption, Zenon
  <2>11. reply' = Encode(GetPeersResponse(tid, near, near))
    BY <2>1, <2>8, <2>9, Zenon
  <2>12. /\ Shown(reply', DecodeAny(reply', 1).val, <<"t">>) = tid
         /\ Shown(reply', DecodeAny(reply', 1).val, <<"r", "id">>) = near
    BY <2>10, <2>11, Zenon DEF Answers
  <2>13. ReplyAnswers'
    BY <2>1, <2>3, <2>12, Zenon DEF ReplyAnswers, Neighbour
  <2>14. PushedIsAnnounced'
    BY <2>3, Zenon DEF PushedIsAnnounced
  <2> QED
    BY <2>2, <2>4, <2>13, <2>14, Zenon DEF Promises
<1> QED
  BY <1>3, <1>4, Zenon

LEMMA QuotientBounds ==
  ASSUME NEW a \in Int, NEW b \in Nat \ {0}
  PROVE  /\ a \div b \in Int
         /\ (a \div b) * b <= a
         /\ a < (a \div b) * b + b
OBVIOUS

LEMMA ProductMonotone ==
  ASSUME NEW a \in Int, NEW b \in Int, NEW c \in Nat, a <= b
  PROVE  a * c <= b * c
OBVIOUS

LEMMA ProductStep ==
  ASSUME NEW a \in Int, NEW c \in Int
  PROVE  a * c \in Int /\ (a + 1) * c = a * c + c
OBVIOUS

\* The loop of NewFindNodeResponse reads all entries but, maybe, the last.
LEMMA EntriesRead ==
  ASSUME NEW s \in Seq(Symbols)
  PROVE  /\ \A k \in DOMAIN NewFindNodeResponse(s) :
              NewFindNodeResponse(s)[k] = SubSeq(s, (k - 1) * EntryLen + 1, (k - 1) * EntryLen + IdLen)
         /\ Len(NewFindNodeResponse(s)) + 1 >= Len(s) \div EntryLen
<1> DEFINE n == Len(s)
<1> DEFINE e == EntryLen
<1> DEFINE q == (n - 1) \div e
<1> DEFINE read == NewFindNodeResponse(s)
<1>1. e \in Nat \ {0} /\ n \in Nat
  BY PacketAssumption
<1>2. DOMAIN read = 1 .. q
  BY DEF NewFindNodeResponse
<1>3. \A k \in DOMAIN read : read[k] = SubSeq(s, (k - 1) * e + 1, (k - 1) * e + IdLen)
  BY DEF NewFindNodeResponse
<1> HIDE DEF n, e
<1>4. q \in Int /\ n - 1 < q * e + e
  BY <1>1, QuotientBounds
<1>5. n \div e \in Int /\ (n \div e) * e <= n
  BY <1>1, QuotientBounds
<1> DEFINE r == n \div e
<1> HIDE DEF q, r
<1>6. r <= q + 1
  <2>1. SUFFICES ASSUME q + 1 + 1 <= r PROVE FALSE
    BY <1>4, <1>5 DEF r
  <2>2. (q + 1 + 1) * e <= r * e
    BY <1>1, <1>4, <1>5, <2>1, ProductMonotone DEF r
  <2>3. (q + 1 + 1) * e = (q + 1) * e + e /\ (q + 1) * e = q * e + e /\ q * e \in Int
    BY <1>1, <1>4, ProductStep
  <2>4. r * e \in Int /\ r * e <= n
    BY <1>1, <1>5 DEF r
  <2> QED
    BY <1>1, <1>4, <2>2, <2>3, <2>4
<1>7. Len(read) + 1 >= r
  <2>1. CASE q \in Nat
    <3>1. Len(read) = q
      BY <1>2, <2>1
    <3> QED
      BY <1>4, <1>5, <1>6, <3>1 DEF r
  <2>2. CASE q \notin Nat
    <3>1. q + 1 <= 0
      BY <1>4, <2>2
    <3>2. DOMAIN read = 1 .. 0
      BY <1>2, <1>4, <3>1
    <3>3. Len(read) = 0
      BY <3>2
    <3> QED
      BY <1>4, <1>5, <1>6, <3>1, <3>3 DEF r
  <2> QED
    BY <2>1, <2>2
<1> QED
  BY <1>3, <1>7 DEF read, r, n, e

LEMMA FindNodeStep ==
  ASSUME PacketInv, OnFindNodeResponse
  PROVE  PacketInv' /\ Promises'
<1> DEFINE path == <<"r", "nodes">>
<1> DEFINE entries == Shown(buf, data, path)
<1>1. phase = "decoded" /\ UNCHANGED <<packet, buf, data, reply, pushed>>
  BY DEF OnFindNodeResponse, Message
<1>2. /\ packet \in Packets /\ Unanswered /\ buf \in Seq(Symbols)
      /\ entries = Field(packet, path)
      /\ GetBytes(data, path) # Nothing => InBuf(GetBytes(data, path))
  BY <1>1, DecodedShows, PathsApart, Zenon
<1>3. \/ nodes' = NewFindNodeResponse(entries) /\ phase' = "done"
      \/ phase' = "panic" /\ nodes' = nodes
  BY Zenon DEF OnFindNodeResponse
<1>4. reply' = << >> /\ pushed' = Nothing /\ nodes = << >> /\ packet' = packet
  BY <1>1, <1>2, Zenon DEF Unanswered
<1>5. PushedIsAnnounced' /\ ReplyAnswers'
  BY <1>4, Zenon DEF PushedIsAnnounced, ReplyAnswers
<1>6. CASE phase' = "panic" /\ nodes' = nodes
  <2>1. Unanswered'
    BY <1>4, <1>6, Zenon DEF Unanswered
  <2>2. phase' # "done"
    BY <1>6
  <2>3. Promises'
    BY <2>1, <2>2, NothingPromised, Zenon
  <2> QED
    BY <1>2, <1>4, <1>6, <2>1, <2>3 DEF PacketInv
<1>7. CASE nodes' = NewFindNodeResponse(entries) /\ phase' = "done"
  <2>1. entries \in Seq(Symbols)
    <3>1. CASE GetBytes(data, path) = Nothing
      <4>1. entries = << >>
        BY <3>1, Zenon DEF Shown
      <4> QED
        BY <4>1
    <3>2. CASE GetBytes(data, path) # Nothing
      <4>1. entries = Content(buf, GetBytes(data, path))
        BY <3>2, Zenon DEF Shown
      <4> QED
        BY <1>2, <3>2, <4>1, ContentShows, Zenon
    <3> QED
      BY <3>1, <3>2, Zenon
  <2> HIDE DEF entries
  <2>2. /\ \A k \in DOMAIN nodes' :
             nodes'[k] = SubSeq(entries, (k - 1) * EntryLen + 1, (k - 1) * EntryLen + IdLen)
        /\ Len(nodes') + 1 >= Len(entries) \div EntryLen
    BY <1>7, <2>1, EntriesRead, Zenon
  <2>3. entries = Field(packet', path)
    BY <1>2, <1>4, Zenon
  <2>4. NodesAreEntries'
    BY <2>2, <2>3, Zenon DEF NodesAreEntries
  <2>5. PacketInv'
    BY <1>2, <1>4, <1>7 DEF PacketInv
  <2> QED
    BY <1>5, <2>4, <2>5, Zenon DEF Promises
<1> QED
  BY <1>3, <1>6, <1>7, Zenon

LEMMA OtherStep ==
  ASSUME PacketInv, OtherMessage
  PROVE  PacketInv' /\ Promises'
<1> DEFINE path == <<"r", "nodes">>
<1>1. phase = "decoded" /\ phase' = "done" /\ UNCHANGED <<packet, buf, data, nodes, reply, pushed>>
  BY DEF OtherMessage, Message, Drop
<1>2. /\ packet \in Packets /\ Unanswered
      /\ Shown(buf, data, <<"y">>) = Field(packet, <<"y">>)
      /\ Shown(buf, data, path) = Field(packet, path)
  BY <1>1, DecodedShows, PathsApart, Zenon
<1>3. Unanswered'
  BY <1>1, <1>2, Zenon DEF Unanswered
<1>4. PushedIsAnnounced' /\ ReplyAnswers'
  BY <1>3, Zenon DEF Unanswered, PushedIsAnnounced, ReplyAnswers
<1>5. ASSUME Field(packet, <<"y">>) = <<"r">> PROVE Field(packet, path) = << >>
  <2>1. GetByPath(data, path) = Nothing
    BY <1>2, <1>5, Zenon DEF OtherMessage, Handled, IsResponse, Name, CheckMapPath
  <2>2. GetBytes(data, path) = Nothing
    BY <2>1, Zenon DEF GetBytes
  <2> QED
    BY <1>2, <2>2, Zenon DEF Shown
<1>6. Len(<< >>) + 1 >= Len(<< >>) \div EntryLen
  <2>1. EntryLen \in Nat \ {0}
    BY PacketAssumption
  <2>2. 0 \div EntryLen = 0
    BY <2>1
  <2> QED
    BY <2>2
<1>7. \A k \in DOMAIN nodes' : FALSE
  BY <1>3 DEF Unanswered
<1>8. NodesAreEntries'
  <2>1. packet' = packet /\ nodes' = << >>
    BY <1>1, <1>3, Zenon DEF Unanswered
  <2> QED
    BY <1>5, <1>6, <1>7, <2>1, Zenon DEF NodesAreEntries
<1>9. PacketInv'
  BY <1>1, <1>2 DEF PacketInv
<1> QED
  BY <1>4, <1>8, <1>9, Zenon DEF Promises

\* Decoding, and the steps that end in a panic.
LEMMA DecodeStep ==
  ASSUME PacketInv, DecodePacket \/ WrongType
  PROVE  PacketInv' /\ Promises'
<1>1. packet \in Packets /\ phase # "done" /\ Unanswered
  BY DEF PacketInv, DecodePacket, WrongType
<1>2. phase' # "done" /\ UNCHANGED <<packet, buf, nodes, reply, pushed>>
  BY DEF DecodePacket, WrongType, Drop
<1>3. Unanswered'
  BY <1>1, <1>2, Zenon DEF Unanswered
<1>4. ASSUME phase' = "decoded" PROVE buf' = Encode(packet') /\ Reads(buf', data', packet')
  <2>1. DecodePacket /\ buf = Encode(packet)
    BY <1>4 DEF PacketInv, DecodePacket, WrongType, Drop
  <2> DEFINE r == DecodeAny(buf, 1)
  <2>2. r.kind = "ok" /\ IsDict(r.val) /\ data' = r.val
    BY <1>4, <2>1 DEF DecodePacket
  <2>3. Reads(Encode(packet), DecodeAny(Encode(packet), 1).val, packet)
    BY <1>1, <2>1, <2>2, PacketAssumption, Zenon
  <2> QED
    BY <1>2, <2>1, <2>2, <2>3, Zenon
<1>5. phase' # "raw"
  BY DEF DecodePacket, WrongType, Drop
<1>6. PacketInv'
  BY <1>1, <1>2, <1>3, <1>4, <1>5, Zenon DEF PacketInv
<1> QED
  BY <1>2, <1>3, <1>6, NothingPromised, Zenon

LEMMA PacketKeepsPromises == KrpcSpec => [](PacketInv /\ Promises)
<1>1. KrpcInit => PacketInv /\ Promises
  <2> SUFFICES ASSUME KrpcInit PROVE PacketInv /\ Promises
    OBVIOUS
  <2>1. phase = "raw" /\ Unanswered /\ packet \in Packets /\ buf = Encode(packet)
    BY DEF KrpcInit, Unanswered
  <2>2. \A k \in DOMAIN nodes : FALSE
    BY <2>1 DEF Unanswered
  <2>3. phase # "done" /\ phase # "decoded"
    BY <2>1
  <2> QED
    BY <2>1, <2>2, <2>3, Zenon DEF PacketInv, Promises, Unanswered, PushedIsAnnounced, ReplyAnswers,
       NodesAreEntries
<1>2. PacketInv /\ Promises /\ [KrpcNext]_krpcVars => (PacketInv /\ Promises)'
  <2> SUFFICES ASSUME PacketInv, Promises, [KrpcNext]_krpcVars PROVE PacketInv' /\ Promises'
    OBVIOUS
  <2>1. ASSUME UNCHANGED krpcVars PROVE PacketInv' /\ Promises'
    BY <2>1, Zenon DEF krpcVars, PacketInv, Unanswered, Promises, PushedIsAnnounced, ReplyAnswers,
       NodesAreEntries, WellFormed
  <2>2. ASSUME KrpcNext PROVE PacketInv' /\ Promises'
    BY <2>2, DecodeStep, FindNodeStep, GetPeersStep, AnnounceStep, OtherStep, Zenon DEF KrpcNext
  <2> QED
    BY <2>1, <2>2, Zenon
<1> QED
  BY <1>1, <1>2, PTL DEF KrpcSpec

\* onAnnouncePeerRequest pushes the torrent that was announced: GetNeighbourID's
\* write into the buffer stays inside the sender's id.
THEOREM PushIsTheAnnounced == KrpcSpec => []PushedIsAnnounced
BY PacketKeepsPromises, PTL DEF Promises

\* Replies carry the request's transaction id and an id next to the one asked
\* for, although they are encoded from a buffer that has been written to.
THEOREM ReplyIsTheAnswer == KrpcSpec => []ReplyAnswers
BY PacketKeepsPromises, PTL DEF Promises

\* The nodes read from a response are its entries, whatever the length of the
\* response, and at most the last is left out.
THEOREM NodesOfTheResponse == KrpcSpec => []NodesAreEntries
BY PacketKeepsPromises, PTL DEF Promises
=============================================================================
