------------------------------ MODULE Crawler -------------------------------
(***************************************************************************)
(* crawler/internal/svc/crawler.go: the goroutines that crawl the DHT and  *)
(* the bounded channels between them,                                      *)
(*                                                                         *)
(*   listen -> rawPackets -> decodeLoop -> decodedPackets -> handlerLoop   *)
(*   handlerLoop, bootstrap -> neighbours -> neighbourLoop                 *)
(*   handlerLoop, neighbourLoop -> outPackets -> sendLoop                  *)
(*                                                                         *)
(* and the socket they share.  Only sendLoop connects; sendLoop and any    *)
(* listener may disconnect, whatever socket is the current one by then.    *)
(*                                                                         *)
(* A channel is the number of packets or nodes in it: what one of them is  *)
(* (its kind, a legal address, a node seen before) is chosen where the     *)
(* code looks.  External: the network, the seenNodes cache (LRWCache),     *)
(* whose calls are taken to return, and TorrentFetcher.Push.               *)
(***************************************************************************)
EXTENDS Integers, FiniteSets

CONSTANTS Sockets,          \* the sockets whose listener is alive at one time
          Decoders,         \* the goroutines of decodeLoop
          Handlers,         \* the goroutines of handlerLoop
          PacketQueueSize,  \* capacity of rawPackets, decodedPackets, outPackets
          MaxQueueSize,     \* capacity of neighbours
          BootstrapNodes,   \* how many bootstrap nodes were resolved
          MaxNodes,         \* bound: nodes in one find_node response
          MaxOnTheirWay,    \* bound: packets between the sockets and the handlers
          Nil,              \* no socket
          TypedNil          \* conn after net.ListenUDP failed: a nil *UDPConn, not nil

ASSUME CrawlerAssumption ==
  /\ {Nil, TypedNil} \cap Sockets = {}
  /\ Nil # TypedNil
  /\ PacketQueueSize \in Nat \ {0}
  /\ MaxQueueSize \in Nat \ {0}
  /\ BootstrapNodes \in Nat \ {0}
  /\ MaxNodes \in Nat \ {0}
  /\ MaxOnTheirWay \in Nat

VARIABLES up,          \* is the process running?
          conn,        \* c.conn
          open,        \* sockets that are not closed
          listener,    \* socket -> where its listen goroutine is
          raw,         \* packets in rawPackets
          decoder,     \* where each decodeLoop is
          decoded,     \* packets in decodedPackets
          handler,     \* where each handlerLoop is
          left,        \* handler -> nodes of its response still to look at
          neighbours,  \* nodes in neighbours
          finder,      \* where neighbourLoop is
          boot,        \* bootstrap nodes the tick still has to send
          out,         \* packets in outPackets
          sender       \* where sendLoop is

socket == <<conn, open, listener>>
incoming == <<raw, decoder, decoded>>
handling == <<handler, left>>
outgoing == <<finder, boot, out, sender>>
vars == <<up, socket, incoming, handling, neighbours, outgoing>>

HandlerPlaces == {"idle", "node", "queue", "reply", "push"}

TypeOK ==
  /\ up \in BOOLEAN
  /\ conn \in Sockets \cup {Nil, TypedNil}
  /\ open \in SUBSET Sockets
  /\ listener \in [Sockets -> {"none", "read", "send", "broken"}]
  /\ raw \in 0 .. PacketQueueSize
  /\ decoder \in [Decoders -> {"idle", "send"}]
  /\ decoded \in 0 .. PacketQueueSize
  /\ handler \in [Handlers -> HandlerPlaces]
  /\ left \in [Handlers -> 0 .. MaxNodes]
  /\ \A h \in Handlers : handler[h] \in {"node", "queue"} => left[h] > 0
  /\ neighbours \in 0 .. MaxQueueSize
  /\ finder \in {"idle", "send"}
  /\ boot \in 0 .. BootstrapNodes
  /\ out \in 0 .. PacketQueueSize
  /\ sender \in {"idle", "connect", "write"}

Idle(goroutines) == [g \in goroutines |-> "idle"]

\* Start, once connect has succeeded: it panics otherwise.
Init ==
  /\ up = TRUE
  /\ conn \in Sockets
  /\ open = {conn}
  /\ listener = [s \in Sockets |-> IF s = conn THEN "read" ELSE "none"]
  /\ raw = 0
  /\ decoder = Idle(Decoders)
  /\ decoded = 0
  /\ handler = Idle(Handlers)
  /\ left = [h \in Handlers |-> 0]
  /\ neighbours = 0
  /\ finder = "idle"
  /\ boot = 0
  /\ out = 0
  /\ sender = "idle"

-----------------------------------------------------------------------------
(* The socket.  connect and disconnect hold connLock for their whole body. *)

\* _disconnect: Close on a typed nil panics (see Panic).
Disconnect ==
  /\ conn # TypedNil
  /\ open' = open \ {conn}
  /\ conn' = Nil

\* Packets read and not yet with a handler.
OnTheirWay ==
  raw + decoded + Cardinality({s \in Sockets : listener[s] = "send"})
                + Cardinality({d \in Decoders : decoder[d] = "send"})

\* ReadFrom returns a datagram.
Read(s) ==
  /\ listener[s] = "read"
  /\ s \in open
  /\ OnTheirWay < MaxOnTheirWay
  /\ listener' = [listener EXCEPT ![s] = "send"]
  /\ UNCHANGED <<up, conn, open, incoming, handling, neighbours, outgoing>>

\* ReadFrom fails: the socket was closed, or (through the proxy) broke.
ReadFails(s) ==
  /\ listener[s] = "read"
  /\ listener' = [listener EXCEPT ![s] = "broken"]
  /\ UNCHANGED <<up, conn, open, incoming, handling, neighbours, outgoing>>

ListenSend(s) ==
  /\ listener[s] = "send"
  /\ raw < PacketQueueSize
  /\ raw' = raw + 1
  /\ listener' = [listener EXCEPT ![s] = "read"]
  /\ UNCHANGED <<up, conn, open, decoder, decoded, handling, neighbours, outgoing>>

\* Mutant: the listener closes its own socket, and forgets the current one.
ListenDisconnectOwn(s) ==
  /\ listener[s] = "broken"
  /\ conn # TypedNil
  /\ open' = open \ {s}
  /\ conn' = Nil
  /\ listener' = [listener EXCEPT ![s] = "none"]
  /\ UNCHANGED <<up, incoming, handling, neighbours, outgoing>>

\* Mutant: the listener returns and leaves the socket as it is.
ListenDisconnectForgotten(s) ==
  /\ listener[s] = "broken"
  /\ listener' = [listener EXCEPT ![s] = "none"]
  /\ UNCHANGED <<up, conn, open, incoming, handling, neighbours, outgoing>>

\* listen after a failed read: c.disconnect() closes the current socket, which
\* need not be the one that failed, and the goroutine ends.
ListenDisconnect(s) ==
  /\ listener[s] = "broken"
  /\ Disconnect
  /\ listener' = [listener EXCEPT ![s] = "none"]
  /\ UNCHANGED <<up, incoming, handling, neighbours, outgoing>>

-----------------------------------------------------------------------------
(* decodeLoop.                                                             *)

\* A packet that does not decode is dropped; another goes to the handlers.
Decode(d) ==
  /\ decoder[d] = "idle"
  /\ raw > 0
  /\ raw' = raw - 1
  /\ decoder' \in {decoder, [decoder EXCEPT ![d] = "send"]}
  /\ UNCHANGED <<up, socket, decoded, handling, neighbours, outgoing>>

DecodeSend(d) ==
  /\ decoder[d] = "send"
  /\ decoded < PacketQueueSize
  /\ decoded' = decoded + 1
  /\ decoder' = [decoder EXCEPT ![d] = "idle"]
  /\ UNCHANGED <<up, socket, raw, handling, neighbours, outgoing>>

-----------------------------------------------------------------------------
(* handlerLoop: onMessage and the handlers it calls.                       *)

\* onMessage: a find_node response with nodes; a get_peers or announce_peer
\* request, which is answered; or a packet that needs nothing.
OnMessage(h) ==
  /\ handler[h] = "idle"
  /\ decoded > 0
  /\ decoded' = decoded - 1
  /\ \/ /\ handler' = [handler EXCEPT ![h] = "node"]
        /\ \E n \in 1 .. MaxNodes : left' = [left EXCEPT ![h] = n]
     \/ /\ \E place \in {"idle", "reply"} :
             handler' = [handler EXCEPT ![h] = place]
        /\ UNCHANGED left
  /\ UNCHANGED <<up, socket, raw, decoder, neighbours, outgoing>>

\* The loop of onFindNodeResponse after one node: on to the next, or done.
NextNode(h) ==
  /\ left' = [left EXCEPT ![h] = left[h] - 1]
  /\ handler' = [handler EXCEPT ![h] = IF left[h] = 1 THEN "idle" ELSE "node"]

\* The queue is full: the rest of the response is dropped.
DropNodes(h) ==
  /\ handler[h] = "node"
  /\ neighbours >= MaxQueueSize
  /\ left' = [left EXCEPT ![h] = 0]
  /\ handler' = [handler EXCEPT ![h] = "idle"]
  /\ UNCHANGED <<up, socket, incoming, neighbours, outgoing>>

\* The node is not a legal one or was seen before; or it is now put among the
\* seen ones and goes to the queue, whose length was read before.
LookAtNode(h) ==
  /\ handler[h] = "node"
  /\ neighbours < MaxQueueSize
  /\ \/ NextNode(h)
     \/ handler' = [handler EXCEPT ![h] = "queue"] /\ UNCHANGED left
  /\ UNCHANGED <<up, socket, incoming, neighbours, outgoing>>

QueueNode(h) ==
  /\ handler[h] = "queue"
  /\ neighbours < MaxQueueSize
  /\ neighbours' = neighbours + 1
  /\ NextNode(h)
  /\ UNCHANGED <<up, socket, incoming, outgoing>>

\* sendPacket of onGetPeersRequest, or of onAnnouncePeerRequest, which goes on
\* to Push.
Reply(h) ==
  /\ handler[h] = "reply"
  /\ out < PacketQueueSize
  /\ out' = out + 1
  /\ \E place \in {"idle", "push"} : handler' = [handler EXCEPT ![h] = place]
  /\ UNCHANGED <<up, socket, incoming, left, neighbours, finder, boot, sender>>

Push(h) ==
  /\ handler[h] = "push"
  /\ handler' = [handler EXCEPT ![h] = "idle"]
  /\ UNCHANGED <<up, socket, incoming, left, neighbours, outgoing>>

-----------------------------------------------------------------------------
(* bootstrap and neighbourLoop.                                            *)

\* Mutant: the test is the wrong way round.
TickInverted ==
  /\ up
  /\ boot = 0
  /\ neighbours # 0
  /\ boot' = BootstrapNodes
  /\ UNCHANGED <<up, socket, incoming, handling, neighbours, finder, out, sender>>

\* The ticker, which Stop stops: out of neighbours, start from the bootstrap nodes.
Tick ==
  /\ up
  /\ boot = 0
  /\ neighbours = 0
  /\ boot' = BootstrapNodes
  /\ UNCHANGED <<up, socket, incoming, handling, neighbours, finder, out, sender>>

BootstrapSend ==
  /\ boot > 0
  /\ neighbours < MaxQueueSize
  /\ neighbours' = neighbours + 1
  /\ boot' = boot - 1
  /\ UNCHANGED <<up, socket, incoming, handling, finder, out, sender>>

\* Mutant: no requests without a socket.
FindNodeConnected ==
  /\ finder = "idle"
  /\ conn # Nil
  /\ neighbours > 0
  /\ neighbours' = neighbours - 1
  /\ finder' = "send"
  /\ UNCHANGED <<up, socket, incoming, handling, boot, out, sender>>

FindNode ==
  /\ finder = "idle"
  /\ neighbours > 0
  /\ neighbours' = neighbours - 1
  /\ finder' = "send"
  /\ UNCHANGED <<up, socket, incoming, handling, boot, out, sender>>

\* sendFindNode, after the rate limiter.
SendFindNode ==
  /\ finder = "send"
  /\ out < PacketQueueSize
  /\ out' = out + 1
  /\ finder' = "idle"
  /\ UNCHANGED <<up, socket, incoming, handling, neighbours, boot, sender>>

-----------------------------------------------------------------------------
(* sendLoop.                                                               *)

\* A packet to an illegal address is skipped.
SkipOut ==
  /\ sender = "idle"
  /\ out > 0
  /\ out' = out - 1
  /\ UNCHANGED <<up, socket, incoming, handling, neighbours, finder, boot, sender>>

\* `c.conn == nil` is read without connLock.
TakeOut ==
  /\ sender = "idle"
  /\ out > 0
  /\ out' = out - 1
  /\ sender' = IF conn = Nil THEN "connect" ELSE "write"
  /\ UNCHANGED <<up, socket, incoming, handling, neighbours, finder, boot>>

\* Mutant: without a socket the packet is dropped.
ConnectNot ==
  /\ sender = "connect"
  /\ sender' = "idle"
  /\ UNCHANGED <<up, socket, incoming, handling, neighbours, finder, boot, out>>

\* connect makes a new socket, with its listener.  Nobody else connects, so
\* _connect never finds that there is one by now.
Connect ==
  /\ sender = "connect"
  /\ \E s \in Sockets :
       /\ listener[s] = "none"
       /\ conn' = s
       /\ open' = open \cup {s}
       /\ listener' = [listener EXCEPT ![s] = "read"]
  /\ sender' = "write"
  /\ UNCHANGED <<up, incoming, handling, neighbours, finder, boot, out>>

\* With its error the proxy client returns nil, but net.ListenUDP a nil pointer
\* that makes conn a non-nil interface.  The packet is dropped.
ConnectFails ==
  /\ sender = "connect"
  /\ conn' \in {Nil, TypedNil}
  /\ sender' = "idle"
  /\ UNCHANGED <<up, open, listener, incoming, handling, neighbours, finder, boot, out>>

\* conn is read again: if a listener has disconnected since, WriteTo panics.
Write ==
  /\ sender = "write"
  /\ conn \in Sockets
  /\ sender' = "idle"
  /\ UNCHANGED <<up, socket, incoming, handling, neighbours, finder, boot, out>>

\* WriteTo fails (perhaps because the socket was closed since conn was read):
\* disconnect.  In between conn can only have become nil.
WriteFails ==
  /\ sender = "write"
  /\ conn \in Sockets
  /\ Disconnect
  /\ sender' = "idle"
  /\ UNCHANGED <<up, listener, incoming, handling, neighbours, finder, boot, out>>

-----------------------------------------------------------------------------
(* Stop, and the end of the process.                                       *)

End ==
  /\ up
  /\ up' = FALSE
  /\ conn' = Nil
  /\ open' = {}
  /\ listener' = [s \in Sockets |-> "none"]
  /\ raw' = 0
  /\ decoder' = Idle(Decoders)
  /\ decoded' = 0
  /\ handler' = Idle(Handlers)
  /\ left' = [h \in Handlers |-> 0]
  /\ neighbours' = 0
  /\ finder' = "idle"
  /\ boot' = 0
  /\ out' = 0
  /\ sender' = "idle"

\* A method call on a nil or typed-nil conn panics.
Panic ==
  /\ \/ sender = "write" /\ conn \notin Sockets
     \/ conn = TypedNil /\ \E s \in Sockets : listener[s] = "broken"
  /\ End

\* Stop, which disconnects and cancels the context: what sendLoop connects, or
\* a loop still waits for, between the two goes with the process.  Or a panic
\* on a packet whose fields are not of the types the handlers assert.
Exit == End

-----------------------------------------------------------------------------
Listen(s) == Read(s) \/ ReadFails(s) \/ ListenSend(s) \/ ListenDisconnect(s)
DecodeLoop(d) == Decode(d) \/ DecodeSend(d)
HandlerLoop(h) ==
  \/ OnMessage(h) \/ DropNodes(h) \/ LookAtNode(h) \/ QueueNode(h) \/ Reply(h) \/ Push(h)
Bootstrap == Tick \/ BootstrapSend
NeighbourLoop == FindNode \/ SendFindNode
SendLoop == SkipOut \/ TakeOut \/ Connect \/ ConnectFails \/ Write \/ WriteFails

Next ==
  \/ \E s \in Sockets : Listen(s)
  \/ \E d \in Decoders : DecodeLoop(d)
  \/ \E h \in Handlers : HandlerLoop(h)
  \/ Bootstrap
  \/ NeighbourLoop
  \/ SendLoop
  \/ Panic \/ Exit

Spec == Init /\ [][Next]_vars

\* The goroutines are scheduled, the ticker fires, a closed socket's read
\* fails, not every address is illegal (the bootstrap nodes' are not), and
\* some attempt to connect succeeds.  A channel serves the goroutines waiting
\* to send in the order they came.  Nothing is assumed of
\* the network: no packet need ever arrive.
Fairness ==
  /\ \A s \in Sockets :
       SF_vars(ListenSend(s) \/ ListenDisconnect(s) \/ (s \notin open /\ ReadFails(s)))
  /\ \A d \in Decoders : SF_vars(DecodeLoop(d))
  /\ \A h \in Handlers : SF_vars(HandlerLoop(h))
  /\ SF_vars(Bootstrap)
  /\ SF_vars(NeighbourLoop)
  /\ WF_vars(SendLoop) /\ SF_vars(TakeOut) /\ SF_vars(Connect)
  /\ WF_vars(Panic)

FairSpec == Spec /\ Fairness

-----------------------------------------------------------------------------
(* Properties.                                                             *)

\* No socket is leaked: the only open socket is c.conn, though every listener
\* disconnects whatever socket is current when its own read fails, and sendLoop
\* connects and disconnects at the same time.
OneSocket == open = Sockets \cap {conn}

\* The crawler is never deaf: the current socket has a listener that reads it,
\* delivers what it read, or is about to disconnect it.
NeverDeaf == conn \in Sockets => listener[conn] # "none"

\* A handler is never stuck: its blocking sends to neighbours and outPackets
\* get their turn, whatever the sockets do.
HandlerReturns ==
  \A h \in Handlers : handler[h] # "idle" ~> (handler[h] = "idle" \/ ~up)

\* A crawler that has lost its socket gets one again, though nothing but a
\* packet to send makes it connect and without a socket none arrives.
SocketComesBack == (conn = Nil /\ up) ~> (conn \in Sockets \/ ~up)

\* The crawl goes on: find_node requests are sent again and again, even when
\* no node ever answers.
KeepsCrawling == up ~> (finder = "send" \/ ~up)
=============================================================================
