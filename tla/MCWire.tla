------------------------------- MODULE MCWire -------------------------------
(* What comes over the wire: a behaviour is either one exchange of         *)
(* BitTorrent with a peer or one DHT packet through Krpc.                  *)
EXTENDS BitTorrent, Krpc, Bencode, TLC

AllSymbols == Range(Alphabet)

\* The names of other nodes' packets and ids, of eight symbols each.
B(symbols) == [bytes |-> symbols]
D(f) == [dict |-> f]
Own == <<"A", "B", "A", "C", "B", "B", "A", "C">>
One == <<"B", "e", ":", "i", "A", "A", "1", "d">>
Other == <<"C", "d", "2", ":", "A", "e", "e", "l">>
Ids == {One, Other}
NodeEntry(id) == id \o <<"A", "1">>
Entries == {<< >>, NodeEntry(One), NodeEntry(One) \o NodeEntry(Other),
            NodeEntry(One) \o NodeEntry(Other) \o <<"l">>}
Tids == {<<"a">>, <<"1", ":">>}

Responses == {D([t |-> B(t), y |-> B(<<"r">>), r |-> D([id |-> B(id), nodes |-> B(n)])])
                : t \in Tids, id \in Ids, n \in Entries}
GetPeers == {D([t |-> B(t), y |-> B(<<"q">>), q |-> B(<<"get_peers">>),
                a |-> D([id |-> B(id), info_hash |-> B(h)])])
               : t \in Tids, id \in Ids, h \in Ids \cup {<<"A">>}}
Announces == {D([t |-> B(t), y |-> B(<<"q">>), q |-> B(<<"announce_peer">>),
                 a |-> D([id |-> B(id), implied_port |-> [int |-> i], info_hash |-> B(h),
                          port |-> [int |-> 80], token |-> B(h)])])
                : t \in Tids, id \in Ids, h \in Ids, i \in 0 .. 1}
Query(q, a) == D([t |-> B(<<"a">>), y |-> B(<<"q">>), q |-> B(<<q>>), a |-> a])
Others == {D([t |-> B(<<"a">>), y |-> B(<<"r">>), r |-> D([id |-> B(Own)])]),
           D([y |-> B(<<"e">>), e |-> [list |-> <<[int |-> 201], B(<<"A", "e">>)>>]]),
           D([y |-> B(<<"q">>), q |-> B(<<"get_peers">>), a |-> D([id |-> B(Own)])]),
           D([a |-> [int |-> -12]]),
           B(<<"d", "e">>)}
\* Ids that are too short, with the rest of the packet behind them or not, none
\* at all, and values of other types.
Malformed == {Query("announce_peer", D([id |-> B(<<"B">>), info_hash |-> B(One)])),
              Query("announce_peer", D([info_hash |-> B(One)])),
              Query("announce_peer", B(One)),
              D([t |-> B(<<"a">>), y |-> B(<<"q">>), q |-> B(<<"announce_peer">>),
                 a |-> D([id |-> B(<< >>)])]),
              Query("get_peers", B(One)),
              D([y |-> [int |-> 1]]),
              D([y |-> B(<<"q">>), q |-> [int |-> 1]]),
              D([y |-> B(<<"q">>), q |-> B(<<"get_peers">>), t |-> [int |-> 1]]),
              D([y |-> B(<<"r">>), r |-> B(<<"A">>)]),
              D([y |-> B(<<"q">>), q |-> B(<<"find_node">>), r |-> D([nodes |-> B(Own \o Own)])])}
SomePackets == Responses \cup GetPeers \cup Announces \cup Others \cup Malformed

Named(x) == [name |-> B(<<x>>)]
\* Its encoding is twice the length of a piece.
Even == D([length |-> [int |-> 3], name |-> B(Own \o <<"e", "A">>)])
File == D([length |-> [int |-> 12], path |-> [list |-> <<B(<<"A">>), B(<<"e">>)>>]])
Multi == D(Named("B") @@ [files |-> [list |-> <<File>>]])
Long == D(Named("C") @@ [files |-> [list |-> <<File, File>>]])
SomeTorrents == {D(Named("A")), Even, Multi, Long}

\* Any size, a rejected piece, a piece whose dictionary does not end, or a
\* piece of some torrent under any id.
SomeLies ==
  {ExtHandshake(n) : n \in {-30, 0, MaxSize + 1} \cup {Len(encodeAny(t)) : t \in SomeTorrents}}
    \cup {PieceMessage(2, 0, << >>), PieceMessage(1, -1, << >>),
          <<"1">> \o Front(encodeAny(PieceDict(1, 0)))}
    \cup {PieceMessage(1, id, PieceOf(encodeAny(t), from))
            : t \in {Even, Multi}, id, from \in 0 .. 1}
    \cup {PieceMessage(1, 0, encodeAny(D(Named("A"))))}

Init ==
  \/ /\ BTInit
     /\ packet = Nothing /\ buf = << >> /\ data = Nothing /\ phase = "off"
     /\ nodes = << >> /\ reply = << >> /\ pushed = Nothing
  \/ /\ KrpcInit
     /\ torrent = Nothing /\ InfoHash = << >> /\ faithful = FALSE
     /\ step = "off" /\ inbox = << >> /\ size = 0
     /\ requested = {} /\ pieces = << >> /\ answered = {} /\ metadata = Nothing

Exchange == BTNext /\ UNCHANGED krpcVars
OnePacket == KrpcNext /\ UNCHANGED btVars
Next == Exchange \/ OnePacket

Spec == Init /\ [][Next]_<<btVars, krpcVars>> /\ BTFairness
=============================================================================
