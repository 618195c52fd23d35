----------------------------- MODULE BitTorrent -----------------------------
(***************************************************************************)
(* common/bittorrent/core.go: GetMetadata, one exchange with one peer.     *)
(* The handshake, the extension handshake with the size of the metadata,   *)
(* a request for every piece, then as many piece messages, which are put   *)
(* together by their ids, compared with the info hash and decoded.         *)
(*                                                                         *)
(* A peer is faithful (it follows the protocol and answers within the ten  *)
(* seconds every read allows) or it may send anything.  SHA-1 is taken to  *)
(* be injective: the info hash of a torrent is its encoded metadata.  The  *)
(* connection is a stream, so one message in flight stands for any number. *)
(***************************************************************************)
EXTENDS Codec, FiniteSetsExt

CONSTANTS Torrents,     \* the metadata that may be asked for
          PieceLength,  \* pieceLength, 2^14
          MaxSize,      \* maxMetadataSize
          Lies          \* the messages of a peer that is not faithful

VARIABLES torrent,    \* the metadata asked for
          InfoHash,   \* its encoding
          faithful,   \* how the peer behaves
          step,       \* "handshake", "ext", "readExt", "request", "readPiece",
                      \* "verify", "ok" or "failed"
          inbox,      \* the message the peer has sent, if any
          size,       \* ExtHandshakeResult.MetadataSize
          requested,  \* the pieces asked for
          pieces,     \* the pieces read
          answered,   \* the pieces a faithful peer has sent, and Ext
          metadata    \* the result

btVars == <<torrent, InfoHash, faithful, step, inbox, size, requested, pieces, answered,
            metadata>>

\* Mutant: the last, shorter piece is not counted.
NumPiecesWhole(n) == n \div PieceLength

NumPieces(n) == (n + PieceLength - 1) \div PieceLength

BTInit ==
  /\ torrent \in Torrents
  /\ InfoHash = Encode(torrent)
  /\ faithful \in BOOLEAN
  /\ step = "handshake"
  /\ inbox = << >> /\ size = 0 /\ requested = {} /\ pieces = << >>
  /\ answered = {} /\ metadata = Nothing

-----------------------------------------------------------------------------
(* The messages: keep-alives and others are one, and an extension message  *)
(* is its id and what follows.                                             *)

Chatter == << >>
Ext == -1
ExtDict(n) == [dict |-> [m |-> [dict |-> [ut_metadata |-> [int |-> 1]]],
                         metadata_size |-> [int |-> n]]]
ExtHandshake(n) == <<"0">> \o Encode(ExtDict(n))
PieceDict(type, id) == [dict |-> [msg_type |-> [int |-> type], piece |-> [int |-> id]]]
PieceMessage(type, id, bytes) == <<"1">> \o Encode(PieceDict(type, id)) \o bytes
PieceOf(raw, id) == SubSeq(raw, id * PieceLength + 1, Min({(id + 1) * PieceLength, Len(raw)}))

\* The codec on this exchange: a dictionary decodes to its entries, and ends
\* where it ended when it was encoded whatever bytes follow.
ASSUME ExchangeAssumption ==
  /\ PieceLength \in Nat \ {0}
  /\ MaxSize \in Nat
  /\ \A t \in Torrents :
       LET r == DecodeDict(Encode(t), 1)
       IN  Encode(t) \in Seq(Symbols) /\ r.kind = "ok" /\ ValueOf(Encode(t), r.val) = t
  /\ \A n \in 0 .. MaxSize :
       LET r == DecodeDict(Encode(ExtDict(n)), 1)
       IN  /\ Encode(ExtDict(n)) \in Seq(Symbols)
           /\ r.kind = "ok"
           /\ HasInt(r.val, <<"m", "ut_metadata">>)
           /\ HasInt(r.val, <<"metadata_size">>) /\ GetInt(r.val, <<"metadata_size">>) = n
  /\ \A id \in 0 .. NumPieces(MaxSize) - 1 : \A t \in Torrents :
       LET dict == Encode(PieceDict(1, id))
           r == DecodeDict(dict \o PieceOf(Encode(t), id), 1)
       IN  /\ dict \in Seq(Symbols)
           /\ r.kind = "ok" /\ r.pos = Len(dict) + 1
           /\ GetInt(r.val, <<"msg_type">>) = 1 /\ GetInt(r.val, <<"piece">>) = id

PeerUnchanged == UNCHANGED <<torrent, InfoHash, faithful, step, size, requested, pieces, metadata>>
Reading == step \in {"readExt", "readPiece"}

\* The peer sends its next message.
Sends(msg) ==
  /\ inbox = << >>
  /\ inbox' = <<msg>>

\* Keep-alives and messages that are not of the extension protocol: nothing
\* limits how many of them a peer sends.
PeerChatter ==
  /\ Reading
  /\ Sends(Chatter)
  /\ UNCHANGED answered /\ PeerUnchanged

PeerExt ==
  /\ faithful
  /\ step = "readExt"
  /\ Ext \notin answered
  /\ answered' = answered \cup {Ext}
  /\ Sends(ExtHandshake(Len(InfoHash)))
  /\ PeerUnchanged

\* The pieces are answered in any order.
PeerPiece(id) ==
  /\ faithful
  /\ id \notin answered
  /\ answered' = answered \cup {id}
  /\ Sends(PieceMessage(1, id, PieceOf(InfoHash, id)))
  /\ PeerUnchanged

PeerLies ==
  /\ ~faithful
  /\ Reading
  /\ \E msg \in Lies : Sends(msg)
  /\ UNCHANGED answered /\ PeerUnchanged

-----------------------------------------------------------------------------
(* GetMetadata.                                                            *)

Fail ==
  /\ step' = "failed"
  /\ UNCHANGED <<size, requested, pieces, metadata>>

ClientUnchanged == UNCHANGED <<torrent, InfoHash, faithful, answered>>

\* handshake: the peer speaks the protocol and has the extension bit, or not.
Handshake ==
  /\ step = "handshake"
  /\ \/ step' = "ext" /\ UNCHANGED <<size, requested, pieces, metadata>>
     \/ ~faithful /\ Fail
  /\ UNCHANGED inbox /\ ClientUnchanged

\* extHandshake, up to its sendMessage.
SendExtHandshake ==
  /\ step = "ext"
  /\ step' = "readExt"
  /\ UNCHANGED <<inbox, size, requested, pieces, metadata>> /\ ClientUnchanged

\* readExtMessage goes on to the next message.
SkipMessage ==
  /\ Reading
  /\ inbox # << >>
  /\ Head(inbox) = Chatter
  /\ inbox' = Tail(inbox)
  /\ UNCHANGED <<step, size, requested, pieces, metadata>> /\ ClientUnchanged

ExtMessage ==
  /\ inbox # << >>
  /\ Head(inbox) # Chatter
  /\ inbox' = Tail(inbox)

\* The rest of extHandshake.
ReadExtHandshake ==
  /\ step = "readExt"
  /\ ExtMessage
  /\ \E ext \in {DecodeDict(Tail(Head(inbox)), 1)} :
         IF /\ Head(inbox)[1] = "0"
            /\ ext.kind = "ok"
            /\ HasInt(ext.val, <<"metadata_size">>)
            /\ HasInt(ext.val, <<"m", "ut_metadata">>)
            /\ GetInt(ext.val, <<"metadata_size">>) <= MaxSize
         THEN /\ size' = GetInt(ext.val, <<"metadata_size">>)
              /\ step' = "request"
              /\ UNCHANGED <<requested, pieces, metadata>>
         ELSE Fail
  /\ ClientUnchanged

\* requestPieces, its first loop.
RequestPieces ==
  /\ step = "request"
  /\ requested' = 0 .. NumPieces(size) - 1
  /\ step' = IF NumPieces(size) <= 0 THEN "verify" ELSE "readPiece"
  /\ UNCHANGED <<inbox, size, pieces, metadata>> /\ ClientUnchanged

\* readPiece: the data begins where the dictionary ends.  For a dictionary
\* without its end that is beyond the message, a panic GetMetadata recovers.
Trailer(msg, dict) == SubSeq(msg, dict.pos + 1, Len(msg))

ReadPiece ==
  /\ step = "readPiece"
  /\ ExtMessage
  /\ \E dict \in {DecodeDict(Tail(Head(inbox)), 1)} :
         IF /\ Head(inbox)[1] # "0"
            /\ dict.kind = "ok"
            /\ dict.pos <= Len(Head(inbox))
            /\ GetInt(dict.val, <<"msg_type">>) = 1
            /\ Len(Trailer(Head(inbox), dict)) <= PieceLength
         THEN /\ pieces' = Append(pieces, [id |-> GetInt(dict.val, <<"piece">>),
                                          data |-> Trailer(Head(inbox), dict)])
              /\ step' = IF Len(pieces') = NumPieces(size) THEN "verify" ELSE "readPiece"
              /\ UNCHANGED <<size, requested, metadata>>
         ELSE Fail
  /\ ClientUnchanged

\* Mutant: the pieces are put together in the order in which they came.
AssembleAsRead ==
  [i \in 1 .. size |->
     LET k == (i - 1) \div PieceLength + 1
         at == ((i - 1) % PieceLength) + 1
     IN  IF k \in DOMAIN pieces /\ at \in DOMAIN pieces[k].data THEN pieces[k].data[at] ELSE "zero"]

\* The copies into rawMetadata, in the order of arrival.
Copied(i) ==
  LET holds == {k \in DOMAIN pieces : LET at == i - pieces[k].id * PieceLength
                                      IN  at \in DOMAIN pieces[k].data}
      k == Max(holds)
  IN  IF holds = {} THEN "zero" ELSE pieces[k].data[i - pieces[k].id * PieceLength]
Assemble == [i \in 1 .. size |-> Copied(i)]

\* Mutant: the info hash is not compared.
VerifyNot ==
  /\ step = "verify"
  /\ \E raw \in {Assemble} : \E r \in {DecodeDict(raw, 1)} :
         IF r.kind = "ok"
         THEN /\ metadata' = ValueOf(raw, r.val)
              /\ step' = "ok"
              /\ UNCHANGED <<size, requested, pieces>>
         ELSE Fail
  /\ UNCHANGED inbox /\ ClientUnchanged

\* The rest of GetMetadata; a copy beyond the end is a panic, which it
\* recovers and returns as an error.
Verify ==
  /\ step = "verify"
  /\ \E raw \in {Assemble} : \E r \in {DecodeDict(raw, 1)} :
         IF /\ \A k \in DOMAIN pieces : pieces[k].id * PieceLength \in 0 .. size
            /\ raw = InfoHash
            /\ r.kind = "ok"
         THEN /\ metadata' = ValueOf(raw, r.val)
              /\ step' = "ok"
              /\ UNCHANGED <<size, requested, pieces>>
         ELSE Fail
  /\ UNCHANGED inbox /\ ClientUnchanged

\* The read deadline passes, or the peer closes the connection.
ReadTimesOut ==
  /\ Reading
  /\ ~faithful
  /\ inbox = << >>
  /\ Fail
  /\ UNCHANGED inbox /\ ClientUnchanged

Client ==
  \/ Handshake \/ SendExtHandshake \/ SkipMessage \/ ReadExtHandshake
  \/ RequestPieces \/ ReadPiece \/ Verify \/ ReadTimesOut
Answer == PeerExt \/ \E id \in requested : PeerPiece(id)

BTNext == Client \/ Answer \/ PeerChatter \/ PeerLies

\* The client goes on, and a faithful peer answers; none has to chatter.
BTSpec == BTInit /\ [][BTNext]_btVars
BTFairness == WF_btVars(Client) /\ WF_btVars(Answer)

-----------------------------------------------------------------------------
(* Properties.                                                             *)

\* What GetMetadata returns is the metadata that was asked for, whatever the
\* peer has sent: other sizes, altered, repeated or rejected pieces.
MetadataIsTheTorrents ==
  step = "ok" => metadata = torrent

\* maxMetadataSize allows for the torrent.
Fits == Len(InfoHash) <= MaxSize

\* With a peer that follows the protocol GetMetadata never fails, in whatever
\* order the pieces come and whatever is sent in between: the size, the number
\* of pieces, their ids and the place each is copied to agree.
FaithfulSucceeds ==
  faithful /\ Fits => step # "failed"

\* GetMetadata returns, unless the peer goes on for ever with messages that
\* readExtMessage skips (each of them renews the deadline): with an error or
\* the metadata, and with the metadata if the peer is faithful and the torrent
\* not too long.
GetMetadataReturns ==
  \/ []<><<PeerChatter>>_btVars
  \/ (step = "handshake") ~> (step = "ok" \/ (~(faithful /\ Fits) /\ step = "failed"))
=============================================================================
