-------------------------------- MODULE Krpc --------------------------------
(***************************************************************************)
(* One DHT packet through common/dht and the message handlers of           *)
(* crawler/internal/svc/crawler.go: decoded, answered, and turned into     *)
(* nodes to visit or a torrent to fetch.  The handlers work on slices of   *)
(* the packet's own buffer, and GetNeighbourID writes into it.             *)
(*                                                                         *)
(* Lengths are scaled: an id of 20 bytes has IdLen symbols, half of them   *)
(* in place of 10 bytes, and an entry of 26 bytes has EntryLen.  The queue *)
(* of nodes and the cache of seen nodes are in Crawler.                    *)
(***************************************************************************)
EXTENDS Codec

CONSTANTS Packets,   \* the packets other nodes send
          NodeID,    \* the crawler's own id
          EntryLen   \* an id, an address and a port

IdLen == Len(NodeID)
Half == IdLen \div 2

VARIABLES packet,  \* the packet as its sender meant it
          buf,     \* Packet.buf
          data,    \* Packet.Data: slices of buf
          phase,   \* "raw", "decoded", "done", "dropped" or "panic"
          nodes,   \* the ids onFindNodeResponse is given
          reply,   \* the packet given to sendPacket
          pushed   \* the request given to TorrentFetcher.Push

krpcVars == <<packet, buf, data, phase, nodes, reply, pushed>>

KrpcInit ==
  /\ packet \in Packets
  /\ buf = Encode(packet)
  /\ data = Nothing
  /\ phase = "raw"
  /\ nodes = << >> /\ reply = << >> /\ pushed = Nothing

Drop(why) ==
  /\ phase' = why
  /\ UNCHANGED <<packet, buf, data, nodes, reply, pushed>>

\* Mutant: the listener's buffer is not copied, and the next packet is in it.
DecodePacketShared ==
  /\ phase = "raw"
  /\ LET r == DecodeAny(buf, 1)
     IN  IF r.kind = "ok" /\ IsDict(r.val)
         THEN data' = r.val /\ phase' = "decoded"
         ELSE data' = Nothing /\ phase' = IF r.kind = "panic" THEN "panic" ELSE "dropped"
  /\ \E other \in Packets :
       buf' = [i \in DOMAIN buf |-> IF i \in DOMAIN Encode(other) THEN Encode(other)[i] ELSE buf[i]]
  /\ UNCHANGED <<packet, nodes, reply, pushed>>

\* Packet.Decode.
DecodePacket ==
  /\ phase = "raw"
  /\ LET r == DecodeAny(buf, 1)
     IN  IF r.kind = "ok" /\ IsDict(r.val)
         THEN data' = r.val /\ phase' = "decoded"
         ELSE data' = Nothing /\ phase' = IF r.kind = "panic" THEN "panic" ELSE "dropped"
  /\ UNCHANGED <<packet, buf, nodes, reply, pushed>>

\* GetY, GetQ and GetT of what is in the buffer b: an absent name is "" or nil.
Shown(b, v, path) == LET r == GetBytes(v, path) IN IF r = Nothing THEN << >> ELSE Content(b, r)
Name(k) == Shown(buf, data, <<k>>)

IsResponse == Name("y") = <<"r">> /\ CheckMapPath(data, <<"r", "nodes">>)
IsQuery(q) == Name("y") = <<"q">> /\ Name("q") = <<q>>
Handled == IsResponse \/ IsQuery("get_peers") \/ IsQuery("announce_peer")

\* The names onMessage and the handler it calls assert to be bytes.
Asserted ==
  {"y"} \cup {k \in {"q"} : Name("y") = <<"q">>} \cup {k \in {"t"} : Handled}
Message ==
  /\ phase = "decoded"
  /\ \A k \in Asserted : CheckMapPath(data, <<k>>) => IsBytes(GetByPath(data, <<k>>))

\* One of them is not.
WrongType ==
  /\ phase = "decoded"
  /\ ~Message
  /\ Drop("panic")

-----------------------------------------------------------------------------
(* GetNeighbourID: append(target[:10], nodeID[10:]...).                    *)

\* What append returns.
Neighbour(id) == SubSeq(id, 1, Half) \o SubSeq(NodeID, Half + 1, IdLen)

\* The bytes from the slice on to the end of the buffer: target[:10] panics
\* when there are fewer, and append makes a new array when they do not do.
Capacity(target) == Len(buf) - target.from + 1
Beyond(target) == SubSeq(buf, target.from, Len(buf))

\* Otherwise the second half of the id is written where the target is, whether
\* or not the target is as long as that.
WithNeighbourID(target) ==
  IF Capacity(target) < IdLen THEN buf
  ELSE [i \in 1 .. Len(buf) |->
          IF i \in target.from + Half .. target.from + IdLen - 1
          THEN NodeID[i - target.from + 1] ELSE buf[i]]

-----------------------------------------------------------------------------
(* The handlers.                                                           *)

\* Mutant: an entry ends where its id does.
NewFindNodeResponseShort(raw) ==
  [k \in 1 .. (Len(raw) - 1) \div IdLen |-> SubSeq(raw, (k - 1) * IdLen + 1, k * IdLen)]

\* The bound is strict: of k entries and nothing more, the last is not read.
NewFindNodeResponse(raw) ==
  [k \in 1 .. (Len(raw) - 1) \div EntryLen |->
     SubSeq(raw, (k - 1) * EntryLen + 1, (k - 1) * EntryLen + IdLen)]

OnFindNodeResponse ==
  /\ Message
  /\ IsResponse
  /\ IF IsDict(data.dict["r"]) /\ IsBytes(GetByPath(data, <<"r", "id">>))
                               /\ IsBytes(GetByPath(data, <<"r", "nodes">>))
     THEN /\ nodes' = NewFindNodeResponse(Shown(buf, data, <<"r", "nodes">>))
          /\ phase' = "done"
     ELSE phase' = "panic" /\ UNCHANGED nodes
  /\ UNCHANGED <<packet, buf, data, reply, pushed>>

\* NewEmptyResponsePacket and NewGetPeersResponse, with SetT.
Response(tid, r) ==
  [dict |-> [t |-> [bytes |-> tid], y |-> [bytes |-> <<"r">>], r |-> [dict |-> r]]]
EmptyResponse(tid, id) == Response(tid, [id |-> [bytes |-> id]])
GetPeersResponse(tid, id, token) ==
  Response(tid, [id |-> [bytes |-> id], nodes |-> [bytes |-> << >>], token |-> [bytes |-> token]])

\* The reply is encoded after the id is written: the token is in its place, and
\* whatever of the transaction id it covers.
OnGetPeersRequest ==
  /\ Message
  /\ IsQuery("get_peers")
  /\ LET hash == GetBytes(data, <<"a", "info_hash">>)
         id == Neighbour(Beyond(hash))
     IN  IF ~CheckMapPath(data, <<"t">>) \/ hash = Nothing \/ hash.len < IdLen
         THEN Drop("dropped")
         ELSE /\ buf' = WithNeighbourID(hash)
              /\ reply' = Encode(GetPeersResponse(Shown(buf', data, <<"t">>), id,
                                   Content(buf', [from |-> hash.from, len |-> IdLen])))
              /\ phase' = "done"
              /\ UNCHANGED <<packet, data, nodes, pushed>>

\* The port of the packet, or the sender's when implied_port says so.
Announced(written) ==
  [infoHash |-> Shown(written, data, <<"a", "info_hash">>),
   port |-> IF GetInt(data, <<"a", "implied_port">>) = 0
            THEN GetInt(data, <<"a", "port">>) ELSE -1]

\* Mutant: the answer is made near the torrent, as for get_peers.
OnAnnouncePeerRequestNearHash ==
  /\ Message
  /\ IsQuery("announce_peer")
  /\ LET hash == GetBytes(data, <<"a", "info_hash">>)
     IN  /\ hash # Nothing
         /\ buf' = WithNeighbourID(hash)
         /\ reply' = Encode(EmptyResponse(Shown(buf', data, <<"t">>), Neighbour(Beyond(hash))))
         /\ pushed' = Announced(buf')
         /\ phase' = "done"
  /\ UNCHANGED <<packet, data, nodes>>

\* Mutant: the transaction id is left out of the answer.
OnAnnouncePeerRequestNoTid ==
  /\ Message
  /\ IsQuery("announce_peer")
  /\ LET id == GetBytes(data, <<"a", "id">>)
     IN  /\ id # Nothing
         /\ buf' = WithNeighbourID(id)
         /\ reply' = Encode(EmptyResponse(<< >>, Neighbour(Beyond(id))))
         /\ pushed' = Announced(buf')
         /\ phase' = "done"
  /\ UNCHANGED <<packet, data, nodes>>

\* The id is overwritten and the reply sent before the info hash is read.
OnAnnouncePeerRequest ==
  /\ Message
  /\ IsQuery("announce_peer")
  /\ LET id == GetBytes(data, <<"a", "id">>)
     IN  IF id = Nothing \/ Capacity(id) < Half
         THEN Drop("panic")
         ELSE /\ buf' = WithNeighbourID(id)
              /\ reply' = Encode(EmptyResponse(Shown(buf', data, <<"t">>), Neighbour(Beyond(id))))
              /\ pushed' = Announced(buf')
              /\ phase' = "done"
              /\ UNCHANGED <<packet, data, nodes>>

\* Errors, responses to announcements, other queries, and no type at all.
OtherMessage ==
  /\ Message
  /\ ~Handled
  /\ Drop("done")

KrpcNext ==
  \/ DecodePacket \/ WrongType
  \/ OnFindNodeResponse \/ OnGetPeersRequest \/ OnAnnouncePeerRequest \/ OtherMessage

KrpcSpec == KrpcInit /\ [][KrpcNext]_krpcVars

-----------------------------------------------------------------------------
(* What the handlers need of the codec.                                    *)

Field(v, path) == LET r == GetByPath(v, path) IN IF IsBytes(r) THEN r.bytes ELSE << >>

Paths == {<<"y">>, <<"q">>, <<"t">>, <<"a", "id">>, <<"a", "info_hash">>, <<"a", "implied_port">>,
          <<"a", "port">>, <<"r", "id">>, <<"r", "nodes">>}

\* Every path leads to the value the sender gave it, and bytes are slices of the
\* buffer, apart from each other unless both paths end at the same value.
Reads(b, v, p) ==
  /\ \A path \in Paths :
       /\ Shown(b, v, path) = Field(p, path)
       /\ GetInt(v, path) = GetInt(p, path)
       /\ LET slice == GetBytes(v, path)
          IN  slice # Nothing => /\ slice.from \in 1 .. Len(b) + 1
                                 /\ slice.len \in 0 .. Len(b) + 1 - slice.from
  /\ \A x, y \in Paths :
       LET s == GetBytes(v, x)
           t == GetBytes(v, y)
       IN  /\ x # y /\ (x[1] = y[1] => IsDict(Entry(p, x[1])))
           /\ s # Nothing /\ t # Nothing
           => s.from + s.len <= t.from \/ t.from + t.len <= s.from

\* A reply, too, is read as it was meant.
Answers(m, tid, id) ==
  LET r == DecodeAny(Encode(m), 1).val
  IN  Shown(Encode(m), r, <<"t">>) = tid /\ Shown(Encode(m), r, <<"r", "id">>) = id

ASSUME PacketAssumption ==
  /\ NodeID \in Seq(Symbols)
  /\ EntryLen \in Nat \ {0}
  /\ \A p \in Packets :
       LET r == DecodeAny(Encode(p), 1)
       IN  /\ Encode(p) \in Seq(Symbols)
           /\ r.kind = "ok" /\ IsDict(r.val) => Reads(Encode(p), r.val, p)
  /\ \A p \in Packets : \A asked \in {"id", "info_hash"} :
       LET tid == Field(p, <<"t">>)
           id == Neighbour(Field(p, <<"a", asked>>))
       IN  Len(Field(p, <<"a", asked>>)) >= IdLen =>
             Answers(EmptyResponse(tid, id), tid, id) /\ Answers(GetPeersResponse(tid, id, id), tid, id)

-----------------------------------------------------------------------------
(* Properties.                                                             *)

\* No packet that is a dictionary is refused, and decoding it gives back what
\* its sender encoded, nested values, names inside bytes and all, with every
\* slice on the right bytes.
DecodedIsSent ==
  /\ phase = "decoded" => ValueOf(buf, data) = packet
  /\ phase \in {"dropped", "panic"} /\ IsDict(packet) => data # Nothing

\* The arguments of the query are a dictionary, with an id of full length.
WellFormed ==
  /\ IsDict(Entry(packet, "a"))
  /\ Len(Field(packet, <<"a", "id">>)) >= IdLen

\* The torrent pushed to the fetcher is the one announced, although the
\* handler has written its own id into the packet's buffer by then.
PushedIsAnnounced ==
  pushed # Nothing /\ WellFormed =>
    /\ pushed.infoHash = Field(packet, <<"a", "info_hash">>)
    /\ pushed.port \in {GetInt(packet, <<"a", "port">>), -1}

\* A reply can be decoded, carries the request's transaction id, and an id
\* whose first half is the asked-for one's and whose second half is our own.
ReplyAnswers ==
  reply # << >> /\ (pushed # Nothing => WellFormed) =>
    LET r == DecodeAny(reply, 1).val
        asked == Field(packet, <<"a", IF pushed = Nothing THEN "info_hash" ELSE "id">>)
    IN  /\ Shown(reply, r, <<"t">>) = Field(packet, <<"t">>)
        /\ Shown(reply, r, <<"r", "id">>)
             = SubSeq(asked, 1, Half) \o SubSeq(NodeID, Half + 1, IdLen)

\* Every node read from a response is an entry of it, in order, and at most
\* the last entry is left out.
NodesAreEntries ==
  LET raw == Field(packet, <<"r", "nodes">>)
  IN  /\ \A k \in DOMAIN nodes :
           nodes[k] = SubSeq(raw, (k - 1) * EntryLen + 1, (k - 1) * EntryLen + IdLen)
      /\ phase = "done" /\ Field(packet, <<"y">>) = <<"r">>
           => Len(nodes) + 1 >= Len(raw) \div EntryLen
=============================================================================
