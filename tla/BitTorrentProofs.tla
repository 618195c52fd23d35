-------------------------- MODULE BitTorrentProofs --------------------------
(***************************************************************************)
(* Proofs about BitTorrent, the exchange in which a worker pulls its       *)
(* torrent, for any torrents, any piece length and any peer messages.      *)
(*                                                                         *)
(* That the result is right needs no more than the comparison with the     *)
(* info hash (ExchangeInv).  That a faithful peer is never failed needs    *)
(* the pieces counted: each is on its way or read at most once, so as many *)
(* as were asked for are all of them (FaithfulInv).                        *)
(***************************************************************************)
EXTENDS BitTorrent, FiniteSetTheorems, TLAPS

-----------------------------------------------------------------------------
(* Where the pieces are.                                                   *)

LEMMA QuotientBounds ==
  ASSUME NEW a \in Int, NEW b \in Nat \ {0}
  PROVE  /\ a \div b \in Int
         /\ (a \div b) * b <= a
         /\ a < (a \div b) * b + b
OBVIOUS

LEMMA ProductMonotone ==
  ASSUME NEW a \in Int, NEW b \in Int, NEW c \in Nat, a <= b
  PROVE  a * c <= b * c
OBVIOUS

LEMMA ProductStep ==
  ASSUME NEW a \in Int, NEW c \in Int
  PROVE  a * c \in Int /\ (a + 1) * c = a * c + c
OBVIOUS

LEMMA MinOfTwo ==
  ASSUME NEW a \in Int, NEW b \in Int
  PROVE  Min({a, b}) = IF a <= b THEN a ELSE b
BY DEF Min

\* A piece that is asked for begins inside the metadata.
LEMMA PieceBegins ==
  ASSUME NEW n \in Nat, NEW id \in 0 .. NumPieces(n) - 1
  PROVE  id * PieceLength \in Nat /\ id * PieceLength < n
<1> DEFINE L == PieceLength
<1> DEFINE q == NumPieces(n)
<1>1. L \in Nat \ {0}
  BY ExchangeAssumption
<1>2. q \in Int /\ q * L <= n + L - 1
  BY <1>1, QuotientBounds DEF NumPieces
<1>3. id \in Nat /\ id + 1 <= q
  BY <1>2
<1>4. (id + 1) * L <= q * L
  BY <1>1, <1>2, <1>3, ProductMonotone
<1>5. id * L \in Int /\ (id + 1) * L = id * L + L
  BY <1>1, <1>3, ProductStep
<1>6. 0 * L <= id * L /\ 0 * L = 0
  BY <1>1, <1>3, ProductMonotone
<1>7. q * L \in Int
  BY <1>1, <1>2
<1> HIDE DEF L, q
<1>8. id * L \in Nat /\ id * L < n
  BY <1>1, <1>2, <1>4, <1>5, <1>6, <1>7
<1> QED
  BY <1>8 DEF L

\* Every position of the metadata is in exactly one piece, which is asked for.
LEMMA PieceAt ==
  ASSUME NEW n \in Nat, NEW i \in 1 .. n
  PROVE  \E id \in 0 .. NumPieces(n) - 1 : id * PieceLength < i /\ i <= id * PieceLength + PieceLength
<1> DEFINE L == PieceLength
<1> DEFINE q == NumPieces(n)
<1> DEFINE id == (i - 1) \div L
<1>1. L \in Nat \ {0}
  BY ExchangeAssumption
<1>2. q \in Int /\ n + L - 1 < q * L + L
  BY <1>1, QuotientBounds DEF NumPieces
<1>3. id \in Int /\ id * L <= i - 1 /\ i - 1 < id * L + L
  BY <1>1, QuotientBounds
<1>4. (id + 1) * L = id * L + L /\ id * L \in Int /\ q * L \in Int
  BY <1>1, <1>2, <1>3, ProductStep
<1>5. 0 <= id
  <2>1. SUFFICES ASSUME id + 1 <= 0 PROVE FALSE
    BY <1>3
  <2>2. (id + 1) * L <= 0 * L /\ 0 * L = 0
    BY <1>1, <1>3, <2>1, ProductMonotone
  <2> QED
    BY <1>1, <1>3, <1>4, <2>2
<1>6. id < q
  <2>1. SUFFICES ASSUME q <= id PROVE FALSE
    BY <1>2, <1>3
  <2>2. q * L <= id * L
    BY <1>1, <1>2, <1>3, <2>1, ProductMonotone
  <2> HIDE DEF id, q, L
  <2> QED
    BY <1>1, <1>2, <1>3, <1>4, <2>2
<1>7. id \in 0 .. q - 1 /\ id * L < i /\ i <= id * L + L
  <2> HIDE DEF id, q, L
  <2> QED
    BY <1>1, <1>2, <1>3, <1>4, <1>5, <1>6
<1> QED
  BY <1>7

LEMMA OnePieceAt ==
  ASSUME NEW i \in Int, NEW a \in Int, NEW b \in Int,
         a * PieceLength < i, i <= a * PieceLength + PieceLength,
         b * PieceLength < i, i <= b * PieceLength + PieceLength
  PROVE  a = b
<1>1. ASSUME NEW x \in Int, NEW y \in Int, x * PieceLength < i, i <= y * PieceLength + PieceLength
      PROVE  x <= y
  <2>1. SUFFICES ASSUME y + 1 <= x PROVE FALSE
    OBVIOUS
  <2>2. PieceLength \in Nat
    BY ExchangeAssumption
  <2>3. (y + 1) * PieceLength <= x * PieceLength
    BY <2>1, <2>2, ProductMonotone
  <2>4. (y + 1) * PieceLength = y * PieceLength + PieceLength /\ y * PieceLength \in Int
    BY <2>2, ProductStep
  <2>5. x * PieceLength \in Int
    BY <2>2
  <2> QED
    BY <1>1, <2>2, <2>3, <2>4, <2>5
<1> QED
  BY <1>1

\* What a faithful peer sends as a piece.
LEMMA PieceShows ==
  ASSUME NEW s \in Seq(Symbols), NEW id \in 0 .. NumPieces(Len(s)) - 1
  PROVE  /\ PieceOf(s, id) \in Seq(Symbols)
         /\ Len(PieceOf(s, id)) <= PieceLength
         /\ \A i \in Int : id * PieceLength + i \in 1 .. Len(s) /\ i \in 1 .. PieceLength
                            <=> i \in 1 .. Len(PieceOf(s, id))
         /\ \A i \in 1 .. Len(PieceOf(s, id)) : PieceOf(s, id)[i] = s[id * PieceLength + i]
<1> DEFINE from == id * PieceLength
<1> DEFINE to == Min({from + PieceLength, Len(s)})
<1>1. PieceLength \in Nat \ {0} /\ Len(s) \in Nat
  BY ExchangeAssumption
<1>2. from \in Nat /\ from < Len(s)
  BY <1>1, PieceBegins
<1>3. (id + 1) * PieceLength = from + PieceLength
  BY <1>1, ProductStep
<1>4. to = IF from + PieceLength <= Len(s) THEN from + PieceLength ELSE Len(s)
  BY <1>1, <1>2, MinOfTwo
<1>5. PieceOf(s, id) = SubSeq(s, from + 1, to)
  BY <1>3 DEF PieceOf
<1> HIDE DEF from, to
<1>6. to \in Nat /\ from < to /\ to <= Len(s) /\ to <= from + PieceLength
  BY <1>1, <1>2, <1>4
<1>7. /\ SubSeq(s, from + 1, to) \in Seq(Symbols)
      /\ Len(SubSeq(s, from + 1, to)) = to - from
      /\ \A i \in 1 .. to - from : SubSeq(s, from + 1, to)[i] = s[from + i]
  BY <1>1, <1>2, <1>6
<1>8. \A i \in Int : from + i \in 1 .. Len(s) /\ i \in 1 .. PieceLength <=> i \in 1 .. to - from
  <2>1. ASSUME NEW n \in Nat, NEW l \in Nat, NEW f \in Nat, NEW t \in Nat, f < n, l # 0,
               t = IF f + l <= n THEN f + l ELSE n
        PROVE  \A i \in Int : f + i \in 1 .. n /\ i \in 1 .. l <=> i \in 1 .. t - f
    BY <2>1
  <2> QED
    <3>1. PieceLength \in Nat /\ PieceLength # 0
      BY <1>1
    <3> QED
      BY <1>1, <1>2, <1>4, <1>6, <2>1, <3>1, Zenon
<1>9. Len(PieceOf(s, id)) = to - from
  BY <1>5, <1>7
<1>10. to - from <= PieceLength
  BY <1>1, <1>2, <1>6
<1>11. /\ PieceOf(s, id) \in Seq(Symbols)
       /\ \A i \in Int : from + i \in 1 .. Len(s) /\ i \in 1 .. PieceLength
                           <=> i \in 1 .. Len(PieceOf(s, id))
       /\ \A i \in 1 .. Len(PieceOf(s, id)) : PieceOf(s, id)[i] = s[from + i]
  BY <1>5, <1>7, <1>8, <1>9, Zenon
<1> QED
  BY <1>9, <1>10, <1>11, Zenon DEF from

LEMMA PiecesGrow ==
  ASSUME NEW n \in Nat, NEW m \in Nat, n <= m
  PROVE  NumPieces(n) \in Int /\ NumPieces(m) \in Int /\ NumPieces(n) <= NumPieces(m)
<1> DEFINE L == PieceLength
<1> DEFINE p == NumPieces(n)
<1> DEFINE q == NumPieces(m)
<1>1. L \in Nat \ {0}
  BY ExchangeAssumption
<1>2. p \in Int /\ q \in Int /\ p * L <= n + L - 1 /\ m + L - 1 < q * L + L
  BY <1>1, QuotientBounds DEF NumPieces
<1>3. ASSUME q + 1 <= p PROVE FALSE
  <2>1. (q + 1) * L <= p * L
    BY <1>1, <1>2, <1>3, ProductMonotone
  <2>2. (q + 1) * L = q * L + L /\ q * L \in Int /\ p * L \in Int
    BY <1>1, <1>2, ProductStep
  <2> HIDE DEF L, p, q
  <2> QED
    BY <1>1, <1>2, <2>1, <2>2
<1> QED
  BY <1>2, <1>3

-----------------------------------------------------------------------------
(* Messages: one symbol, a dictionary, and what follows it.                *)

LEMMA JoinParts ==
  ASSUME NEW S, NEW d \in Seq(S), NEW p \in Seq(S)
  PROVE  /\ d \o p \in Seq(S)
         /\ Len(d \o p) = Len(d) + Len(p)
         /\ SubSeq(d \o p, Len(d) + 1, Len(d) + Len(p)) = p
OBVIOUS

LEMMA HeadedParts ==
  ASSUME NEW S, NEW x \in S, NEW d \in Seq(S)
  PROVE  /\ <<x>> \o d \in Seq(S)
         /\ Len(<<x>> \o d) = Len(d) + 1
         /\ (<<x>> \o d)[1] = x
         /\ Tail(<<x>> \o d) = d
         /\ <<x>> \o d # << >>
OBVIOUS

LEMMA MessageParts ==
  ASSUME NEW x, NEW d \in Seq(Symbols), NEW p \in Seq(Symbols)
  PROVE  /\ (<<x>> \o d \o p)[1] = x
         /\ <<x>> \o d \o p # << >>
         /\ Tail(<<x>> \o d \o p) = d \o p
         /\ SubSeq(<<x>> \o d \o p, Len(d) + 2, Len(<<x>> \o d \o p)) = p
<1> DEFINE S == Symbols \cup {x}
<1>0. x \in S /\ d \in Seq(S) /\ p \in Seq(S)
  OBVIOUS
<1> HIDE DEF S
<1>1. <<x>> \o d \o p = <<x>> \o (d \o p)
  BY <1>0
<1>2. d \o p \in Seq(S)
  BY <1>0, JoinParts
<1>3. <<x>> \o d \in Seq(S) /\ Len(<<x>> \o d) = Len(d) + 1
  BY <1>0, HeadedParts
<1>4. /\ SubSeq(<<x>> \o d \o p, Len(<<x>> \o d) + 1, Len(<<x>> \o d) + Len(p)) = p
      /\ Len(<<x>> \o d \o p) = Len(<<x>> \o d) + Len(p)
  BY <1>0, <1>3, JoinParts
<1>5. Len(<<x>> \o d) + 1 = Len(d) + 2
  BY <1>0, <1>3
<1>6. /\ (<<x>> \o (d \o p))[1] = x
      /\ <<x>> \o (d \o p) # << >>
      /\ Tail(<<x>> \o (d \o p)) = d \o p
  BY <1>0, <1>2, HeadedParts
<1> QED
  BY <1>1, <1>4, <1>5, <1>6, Zenon

LEMMA MessageIsLonger ==
  ASSUME NEW x, NEW d \in Seq(Symbols), NEW p \in Seq(Symbols)
  PROVE  Len(d) + 1 <= Len(<<x>> \o d \o p)
<1> DEFINE S == Symbols \cup {x}
<1>1. x \in S /\ d \in Seq(S) /\ p \in Seq(S)
  OBVIOUS
<1> HIDE DEF S
<1>2. <<x>> \o d \in Seq(S) /\ Len(<<x>> \o d) = Len(d) + 1
  BY <1>1, HeadedParts
<1>3. Len(<<x>> \o d \o p) = Len(<<x>> \o d) + Len(p)
  BY <1>1, <1>2, JoinParts
<1>4. Len(d) \in Nat /\ Len(p) \in Nat
  BY <1>1
<1> QED
  BY <1>2, <1>3, <1>4

\* A peer's extension handshake is read as it was meant.
LEMMA ExtHandshakeRead ==
  ASSUME NEW n \in 0 .. MaxSize
  PROVE  LET msg == ExtHandshake(n)
             ext == DecodeDict(Tail(msg), 1)
         IN  /\ msg # Chatter /\ msg[1] = "0" /\ ext.kind = "ok"
             /\ HasInt(ext.val, <<"m", "ut_metadata">>)
             /\ HasInt(ext.val, <<"metadata_size">>) /\ GetInt(ext.val, <<"metadata_size">>) = n
<1> DEFINE d == Encode(ExtDict(n))
<1> DEFINE ext == DecodeDict(d, 1)
<1>1. /\ d \in Seq(Symbols) /\ ext.kind = "ok"
      /\ HasInt(ext.val, <<"m", "ut_metadata">>)
      /\ HasInt(ext.val, <<"metadata_size">>) /\ GetInt(ext.val, <<"metadata_size">>) = n
  BY ExchangeAssumption, Zenon
<1>2. d \in Seq(Symbols \cup {"0"})
  BY <1>1
<1>3. (<<"0">> \o d)[1] = "0" /\ Tail(<<"0">> \o d) = d /\ <<"0">> \o d # << >>
  <2>1. "0" \in Symbols \cup {"0"}
    OBVIOUS
  <2> QED
    BY <1>2, <2>1, HeadedParts, Zenon
<1>4. ExtHandshake(n) = <<"0">> \o d
  BY DEF ExtHandshake
<1> HIDE DEF d
<1> QED
  BY <1>1, <1>3, <1>4, Zenon DEF Chatter

\* And so is a piece: the data begins where the dictionary ends.
LEMMA PieceRead ==
  ASSUME NEW t \in Torrents, Len(Encode(t)) <= MaxSize,
         NEW id \in 0 .. NumPieces(Len(Encode(t))) - 1
  PROVE  LET msg == PieceMessage(1, id, PieceOf(Encode(t), id))
             dict == DecodeDict(Tail(msg), 1)
         IN  /\ msg # Chatter /\ msg[1] # "0" /\ dict.kind = "ok" /\ dict.pos <= Len(msg)
             /\ GetInt(dict.val, <<"msg_type">>) = 1 /\ GetInt(dict.val, <<"piece">>) = id
             /\ Trailer(msg, dict) = PieceOf(Encode(t), id)
<1> DEFINE d == Encode(PieceDict(1, id))
<1> DEFINE p == PieceOf(Encode(t), id)
<1> DEFINE dict == DecodeDict(d \o p, 1)
<1>1. Encode(t) \in Seq(Symbols)
  BY ExchangeAssumption, Zenon
<1>2. id \in 0 .. NumPieces(MaxSize) - 1
  <2>1. Len(Encode(t)) \in Nat /\ MaxSize \in Nat
    BY <1>1, ExchangeAssumption
  <2>2. /\ NumPieces(Len(Encode(t))) \in Int /\ NumPieces(MaxSize) \in Int
        /\ NumPieces(Len(Encode(t))) <= NumPieces(MaxSize)
    BY <2>1, PiecesGrow
  <2> QED
    BY <2>2
<1>3. /\ d \in Seq(Symbols) /\ dict.kind = "ok" /\ dict.pos = Len(d) + 1
      /\ GetInt(dict.val, <<"msg_type">>) = 1 /\ GetInt(dict.val, <<"piece">>) = id
  BY <1>2, ExchangeAssumption, Zenon
<1>4. p \in Seq(Symbols)
  BY <1>1, PieceShows
<1>6. /\ (<<"1">> \o d \o p)[1] = "1"
      /\ <<"1">> \o d \o p # << >>
      /\ Tail(<<"1">> \o d \o p) = d \o p
      /\ SubSeq(<<"1">> \o d \o p, Len(d) + 2, Len(<<"1">> \o d \o p)) = p
  <2> HIDE DEF d, p
  <2> QED
    BY <1>3, <1>4, MessageParts, Zenon
<1>7. PieceMessage(1, id, p) = <<"1">> \o d \o p
  BY DEF PieceMessage
<1>8. dict.pos + 1 = Len(d) + 2
  <2>1. Len(d) \in Nat
    BY <1>3
  <2> HIDE DEF d, p, dict
  <2> QED
    BY <1>3, <2>1
<1>9. Trailer(PieceMessage(1, id, p), dict) = p
  <2> HIDE DEF d, p, dict
  <2> QED
    BY <1>6, <1>7, <1>8, Zenon DEF Trailer
<1>10. dict.pos <= Len(PieceMessage(1, id, p))
  <2> HIDE DEF d, p, dict
  <2>1. Len(d) + 1 <= Len(<<"1">> \o d \o p)
    BY <1>3, <1>4, MessageIsLonger, Zenon
  <2> QED
    BY <1>3, <1>7, <2>1, Zenon
<1>5. "1" # "0"
  OBVIOUS
<1> HIDE DEF d, p
<1> QED
  BY <1>3, <1>6, <1>7, <1>9, <1>10, <1>5, Zenon DEF Chatter, d, p

-----------------------------------------------------------------------------
(* Putting the pieces together.                                            *)

LEMMA PieceCovers ==
  ASSUME NEW s \in Seq(Symbols), NEW id \in 0 .. NumPieces(Len(s)) - 1, NEW i \in 1 .. Len(s)
  PROVE  LET at == i - id * PieceLength
         IN  /\ at \in DOMAIN PieceOf(s, id)
                  <=> id * PieceLength < i /\ i <= id * PieceLength + PieceLength
             /\ at \in DOMAIN PieceOf(s, id) => PieceOf(s, id)[at] = s[i]
<1> DEFINE from == id * PieceLength
<1> DEFINE at == i - from
<1>1. Len(s) \in Nat /\ PieceLength \in Nat /\ i \in Int
  BY ExchangeAssumption
<1>2. from \in Nat
  BY <1>1, PieceBegins
<1>3. /\ PieceOf(s, id) \in Seq(Symbols)
      /\ \A j \in Int : from + j \in 1 .. Len(s) /\ j \in 1 .. PieceLength
                          <=> j \in 1 .. Len(PieceOf(s, id))
      /\ \A j \in 1 .. Len(PieceOf(s, id)) : PieceOf(s, id)[j] = s[from + j]
  BY PieceShows
<1>4. DOMAIN PieceOf(s, id) = 1 .. Len(PieceOf(s, id))
  BY <1>3
<1> HIDE DEF from
<1>5. at \in Int /\ from + at = i
  BY <1>1, <1>2
<1>6. at \in 1 .. PieceLength <=> from < i /\ i <= from + PieceLength
  BY <1>1, <1>2
<1> HIDE DEF at
<1>7. at \in DOMAIN PieceOf(s, id) <=> from < i /\ i <= from + PieceLength
  BY <1>3, <1>4, <1>5, <1>6, Zenon
<1>8. at \in DOMAIN PieceOf(s, id) => PieceOf(s, id)[at] = s[i]
  BY <1>3, <1>4, <1>5, Zenon
<1> QED
  BY <1>7, <1>8, Zenon DEF at, from

\* A piece of every number, and each only once: they make up the whole, in
\* whatever order they have come.
LEMMA AssembledIsWhole ==
  ASSUME InfoHash \in Seq(Symbols), size = Len(InfoHash),
         DOMAIN pieces \subseteq Int,
         \A k \in DOMAIN pieces : /\ pieces[k].id \in 0 .. NumPieces(Len(InfoHash)) - 1
                                  /\ pieces[k].data = PieceOf(InfoHash, pieces[k].id),
         \A k, l \in DOMAIN pieces : pieces[k].id = pieces[l].id => k = l,
         \A id \in 0 .. NumPieces(Len(InfoHash)) - 1 : \E k \in DOMAIN pieces : pieces[k].id = id
  PROVE  Assemble = InfoHash
<1>1. ASSUME NEW i \in 1 .. Len(InfoHash) PROVE Copied(i) = InfoHash[i]
  <2> DEFINE N == NumPieces(Len(InfoHash)) - 1
  <2> DEFINE at(k) == i - pieces[k].id * PieceLength
  <2> DEFINE holds == {k \in DOMAIN pieces : at(k) \in DOMAIN pieces[k].data}
  <2>1. Len(InfoHash) \in Nat /\ i \in Int
    OBVIOUS
  <2>2. PICK id \in 0 .. N : id * PieceLength < i /\ i <= id * PieceLength + PieceLength
    BY <2>1, PieceAt
  <2>3. PICK k \in DOMAIN pieces : pieces[k].id = id
    BY <2>2
  <2>4. at(k) \in DOMAIN pieces[k].data /\ pieces[k].data[at(k)] = InfoHash[i]
    <3>1. pieces[k].data = PieceOf(InfoHash, id)
      BY <2>3
    <3>2. /\ i - id * PieceLength \in DOMAIN PieceOf(InfoHash, id)
          /\ PieceOf(InfoHash, id)[i - id * PieceLength] = InfoHash[i]
      <4>1. LET here == i - id * PieceLength
            IN  /\ here \in DOMAIN PieceOf(InfoHash, id)
                     <=> id * PieceLength < i /\ i <= id * PieceLength + PieceLength
                /\ here \in DOMAIN PieceOf(InfoHash, id) => PieceOf(InfoHash, id)[here] = InfoHash[i]
        BY PieceCovers
      <4> QED
        BY <2>2, <4>1, Zenon
    <3> QED
      BY <2>3, <3>1, <3>2, Zenon
  <2>5. ASSUME NEW j \in holds PROVE j = k
    <3>1. pieces[j].id \in 0 .. N /\ pieces[j].data = PieceOf(InfoHash, pieces[j].id)
      BY <2>5
    <3>2. i - pieces[j].id * PieceLength \in DOMAIN PieceOf(InfoHash, pieces[j].id)
      BY <2>5, <3>1, Zenon
    <3>3. pieces[j].id * PieceLength < i /\ i <= pieces[j].id * PieceLength + PieceLength
      BY <3>1, <3>2, PieceCovers, Zenon
    <3>4. pieces[j].id \in Int /\ id \in Int
      BY <2>2, <3>1
    <3>5. pieces[j].id = id
      BY <2>1, <2>2, <3>3, <3>4, OnePieceAt
    <3> QED
      BY <2>3, <2>5, <3>5
  <2>6. holds = {k}
    BY <2>3, <2>4, <2>5
  <2>7. Max({k}) = k
    BY <2>3 DEF Max
  <2> QED
    BY <2>4, <2>6, <2>7 DEF Copied
<1>2. InfoHash = [i \in 1 .. Len(InfoHash) |-> InfoHash[i]]
  OBVIOUS
<1> QED
  BY <1>1, <1>2 DEF Assemble

-----------------------------------------------------------------------------
(* The exchange.                                                           *)

Gathered == {pieces[k].id : k \in DOMAIN pieces}
Wanted == 0 .. NumPieces(Len(InfoHash)) - 1

\* The exchange with any peer.
ExchangeInv ==
  /\ torrent \in Torrents
  /\ InfoHash = Encode(torrent)
  /\ step = "ok" => metadata = torrent

\* The client's part: what has been asked for, and what it expects.
Progress ==
  /\ step \in {"handshake", "ext", "readExt", "request", "readPiece", "verify", "ok"}
  /\ step \in {"handshake", "ext", "readExt", "request"} => requested = {} /\ pieces = << >>
  /\ step \in {"request", "readPiece", "verify"} => size = Len(InfoHash)
  /\ step = "verify" => Len(pieces) = NumPieces(Len(InfoHash))
  /\ requested \subseteq Wanted

\* The pieces read are pieces of the torrent, each once.
PiecesRight ==
  /\ pieces \in Seq([id : Wanted, data : Seq(Symbols)])
  /\ \A k \in DOMAIN pieces : pieces[k].data = PieceOf(InfoHash, pieces[k].id)
  /\ \A k, l \in DOMAIN pieces : pieces[k].id = pieces[l].id => k = l
  /\ IsFiniteSet(Gathered) /\ Cardinality(Gathered) = Len(pieces)
  /\ Gathered \subseteq answered

\* What is on its way is an answer to what was asked, and no second one.
InboxRight ==
  \/ inbox = << >> \/ inbox = <<Chatter>>
  \/ step = "readExt" /\ inbox = <<ExtHandshake(Len(InfoHash))>>
  \/ /\ step \in {"readPiece", "verify", "ok"}
     /\ \E id \in (Wanted \cap answered) \ Gathered :
          inbox = <<PieceMessage(1, id, PieceOf(InfoHash, id))>>

\* All of it, which needs a faithful peer and a torrent that is not too long.
Steady == Progress /\ PiecesRight /\ InboxRight
FaithfulInv == faithful /\ Fits => Steady

LEMMA ExchangeStep ==
  ASSUME ExchangeInv, BTNext PROVE ExchangeInv'
<1>1. torrent \in Torrents /\ InfoHash = Encode(torrent)
  BY DEF ExchangeInv
<1>2. UNCHANGED <<torrent, InfoHash>>
  BY Zenon DEF BTNext, Client, Handshake, SendExtHandshake, SkipMessage, ReadExtHandshake, RequestPieces,
     ReadPiece, Verify, ReadTimesOut, ClientUnchanged, Answer, PeerExt, PeerPiece, PeerChatter,
     PeerLies, PeerUnchanged
<1>3. ASSUME Verify, step' = "ok" PROVE metadata' = torrent
  <2>1. LET r == DecodeDict(Encode(torrent), 1)
        IN  ValueOf(Encode(torrent), r.val) = torrent
    BY <1>1, ExchangeAssumption, Zenon
  <2>2. PICK bytes \in {Assemble} : \E r \in {DecodeDict(bytes, 1)} :
           IF /\ \A k \in DOMAIN pieces : pieces[k].id * PieceLength \in 0 .. size
              /\ bytes = InfoHash
              /\ r.kind = "ok"
           THEN metadata' = ValueOf(bytes, r.val) ELSE step' = "failed"
    BY <1>3, Zenon DEF Verify, Fail
  <2>3. bytes = InfoHash /\ metadata' = ValueOf(bytes, DecodeDict(bytes, 1).val)
    BY <1>3, <2>2
  <2> QED
    BY <1>1, <2>1, <2>3, Zenon
<1>4. ASSUME ~Verify, step' = "ok" PROVE step = "ok" /\ metadata' = metadata
  <2>1. ASSUME Client PROVE step = "ok" /\ metadata' = metadata
    BY <1>4, <2>1 DEF Client, Handshake, SendExtHandshake, SkipMessage, ReadExtHandshake,
       RequestPieces, ReadPiece, ReadTimesOut, Fail
  <2>2. ASSUME ~Client PROVE PeerUnchanged
    BY <2>2, Zenon DEF BTNext, Answer, PeerExt, PeerPiece, PeerChatter, PeerLies
  <2> QED
    BY <1>4, <2>1, <2>2, Zenon DEF PeerUnchanged
<1> QED
  BY <1>1, <1>2, <1>3, <1>4, Zenon DEF ExchangeInv

\* What GetMetadata returns is the metadata that was asked for, for every set of
\* torrents, every piece length and whatever messages the peer sends: the
\* comparison with the info hash leaves only one thing to decode.
THEOREM OnlyTheTorrent == BTSpec => []MetadataIsTheTorrents
<1>1. BTInit => ExchangeInv
  BY DEF BTInit, ExchangeInv
<1>2. ExchangeInv /\ [BTNext]_btVars => ExchangeInv'
  <2>1. ASSUME ExchangeInv, UNCHANGED btVars PROVE ExchangeInv'
    BY <2>1, Zenon DEF ExchangeInv, btVars
  <2> QED
    BY <2>1, ExchangeStep
<1>3. ExchangeInv => MetadataIsTheTorrents
  BY DEF ExchangeInv, MetadataIsTheTorrents
<1> QED
  BY <1>1, <1>2, <1>3, PTL DEF BTSpec

LEMMA TorrentAsBytes ==
  ASSUME ExchangeInv
  PROVE  InfoHash \in Seq(Symbols) /\ Len(InfoHash) \in Nat /\ NumPieces(Len(InfoHash)) \in Nat
<1>1. InfoHash \in Seq(Symbols)
  BY ExchangeAssumption, Zenon DEF ExchangeInv
<1>2. Len(InfoHash) \in Nat
  BY <1>1
<1>3. NumPieces(0) \in Int /\ NumPieces(Len(InfoHash)) \in Int
       /\ NumPieces(0) <= NumPieces(Len(InfoHash))
  BY <1>2, PiecesGrow
<1>4. 0 <= NumPieces(0)
  <2>1. PieceLength \in Nat \ {0}
    BY ExchangeAssumption
  <2>2. NumPieces(0) = (PieceLength - 1) \div PieceLength
    BY <2>1 DEF NumPieces
  <2> QED
    BY <2>1, <2>2
<1> QED
  BY <1>1, <1>2, <1>3, <1>4

\* A step that reads no piece.
LEMMA PiecesKept ==
  ASSUME PiecesRight, UNCHANGED <<InfoHash, pieces>>, answered \subseteq answered'
  PROVE  PiecesRight'
BY Zenon DEF PiecesRight, Gathered, Wanted

\* The peer's part.
LEMMA SteadyPeer ==
  ASSUME ExchangeInv, faithful, Fits, Steady, Answer \/ PeerChatter \/ PeerLies
  PROVE  Steady'
<1>1. UNCHANGED <<torrent, InfoHash, step, size, requested, pieces, metadata>>
  BY Zenon DEF Answer, PeerExt, PeerPiece, PeerChatter, PeerLies, PeerUnchanged
<1>2. answered \subseteq answered'
  BY DEF Answer, PeerExt, PeerPiece, PeerChatter, PeerLies
<1>3. PiecesRight'
  BY <1>1, <1>2, PiecesKept DEF Steady
<1>4. Progress'
  BY <1>1, Zenon DEF Steady, Progress, Wanted
<1>5. ASSUME PeerChatter PROVE InboxRight'
  BY <1>5 DEF PeerChatter, Sends, InboxRight, Chatter
<1>6. ASSUME PeerExt PROVE InboxRight'
  BY <1>1, <1>6, Zenon DEF PeerExt, Sends, InboxRight
<1>7. ASSUME NEW id \in requested, PeerPiece(id) PROVE InboxRight'
  <2>1. id \in Wanted /\ id \notin Gathered /\ id \in answered'
    BY <1>7, Zenon DEF Steady, Progress, PiecesRight, PeerPiece
  <2>2. step \in {"readPiece", "verify", "ok"}
    BY <1>7 DEF Steady, Progress
  <2>3. inbox' = <<PieceMessage(1, id, PieceOf(InfoHash, id))>>
    BY <1>7, Zenon DEF PeerPiece, Sends
  <2>4. Wanted' = Wanted /\ Gathered' = Gathered
    BY <1>1, Zenon DEF Wanted, Gathered
  <2>5. id \in ((Wanted \cap answered) \ Gathered)'
    BY <2>1, <2>4, Zenon
  <2> QED
    BY <1>1, <2>2, <2>3, <2>5, Zenon DEF InboxRight
<1>8. ~PeerLies
  BY Zenon DEF PeerLies
<1> QED
  BY <1>3, <1>4, <1>5, <1>6, <1>7, <1>8, Zenon DEF Steady, Answer

\* The client's steps up to its first piece.
LEMMA SteadyOpening ==
  ASSUME ExchangeInv, faithful, Fits, Steady, Handshake \/ SendExtHandshake \/ RequestPieces
  PROVE  Steady'
<1>1. UNCHANGED <<torrent, InfoHash, inbox, answered, pieces, size>>
  BY Zenon DEF Handshake, Fail, SendExtHandshake, RequestPieces, ClientUnchanged
<1>2. PiecesRight'
  BY <1>1, PiecesKept DEF Steady
<1>3. InboxRight'
  <2>1. inbox = << >> \/ inbox = <<Chatter>>
    BY Zenon DEF Steady, InboxRight, Handshake, SendExtHandshake, RequestPieces
  <2> QED
    BY <1>1, <2>1, Zenon DEF InboxRight, Chatter
<1>4. ASSUME Handshake PROVE Progress'
  <2>1. step = "handshake" /\ step' = "ext" /\ requested' = requested
    BY <1>4, Zenon DEF Handshake
  <2> QED
    BY <1>1, <2>1 DEF Steady, Progress, Wanted
<1>5. ASSUME SendExtHandshake PROVE Progress'
  BY <1>1, <1>5 DEF SendExtHandshake, Steady, Progress, Wanted
<1>6. ASSUME RequestPieces PROVE Progress'
  <2>1. NumPieces(Len(InfoHash)) \in Nat
    BY TorrentAsBytes
  <2>2. step = "request" /\ size = Len(InfoHash) /\ pieces = << >>
    BY <1>6 DEF RequestPieces, Steady, Progress
  <2>3. requested' = Wanted'
    BY <1>1, <1>6, <2>2, Zenon DEF RequestPieces, Wanted
  <2>4. /\ step' \in {"verify", "readPiece"}
        /\ step' = "verify" => NumPieces(Len(InfoHash)) = Len(pieces)
    BY <1>6, <2>1, <2>2 DEF RequestPieces
  <2> HIDE DEF RequestPieces
  <2> QED
    BY <1>1, <2>2, <2>3, <2>4 DEF Progress
<1> QED
  BY <1>2, <1>3, <1>4, <1>5, <1>6, Zenon DEF Steady

LEMMA SteadySkip ==
  ASSUME ExchangeInv, faithful, Fits, Steady, SkipMessage
  PROVE  Steady'
<1>1. UNCHANGED <<torrent, InfoHash, step, answered, pieces, size, requested>>
  BY Zenon DEF SkipMessage, ClientUnchanged
<1>2. PiecesRight'
  BY <1>1, PiecesKept DEF Steady
<1>3. Progress'
  BY <1>1, Zenon DEF Steady, Progress, Wanted
<1>4. inbox # << >> /\ inbox' = Tail(inbox)
  BY DEF SkipMessage
<1>5. \E msg : inbox = <<msg>>
  BY <1>4, Zenon DEF Steady, InboxRight
<1>6. inbox' = << >>
  BY <1>4, <1>5
<1> QED
  BY <1>2, <1>3, <1>6, Zenon DEF Steady, InboxRight

LEMMA SteadyReadExt ==
  ASSUME ExchangeInv, faithful, Fits, Steady, ReadExtHandshake
  PROVE  Steady'
<1> DEFINE msg == ExtHandshake(Len(InfoHash))
<1> DEFINE ext == DecodeDict(Tail(msg), 1)
<1>1. Len(InfoHash) \in 0 .. MaxSize
  BY TorrentAsBytes, ExchangeAssumption DEF Fits
<1>2. /\ msg[1] = "0" /\ ext.kind = "ok"
      /\ HasInt(ext.val, <<"m", "ut_metadata">>)
      /\ HasInt(ext.val, <<"metadata_size">>)
      /\ GetInt(ext.val, <<"metadata_size">>) = Len(InfoHash)
  BY <1>1, ExtHandshakeRead, Zenon
<1>3. step = "readExt" /\ inbox # << >> /\ Head(inbox) # Chatter /\ inbox' = Tail(inbox)
  BY DEF ReadExtHandshake, ExtMessage
<1>4. inbox = <<msg>>
  <2>1. inbox # <<Chatter>>
    BY <1>3
  <2> QED
    BY <1>3, <2>1 DEF Steady, InboxRight
<1>5. Head(inbox) = msg /\ inbox' = << >>
  BY <1>3, <1>4
<1> DEFINE read == DecodeDict(Tail(Head(inbox)), 1)
<1>6. IF /\ Head(inbox)[1] = "0"
         /\ read.kind = "ok"
         /\ HasInt(read.val, <<"metadata_size">>)
         /\ HasInt(read.val, <<"m", "ut_metadata">>)
         /\ GetInt(read.val, <<"metadata_size">>) <= MaxSize
      THEN /\ size' = GetInt(read.val, <<"metadata_size">>)
           /\ step' = "request"
           /\ UNCHANGED <<requested, pieces, metadata>>
      ELSE Fail
  BY Zenon DEF ReadExtHandshake
<1>7. GetInt(ext.val, <<"metadata_size">>) <= MaxSize
  BY <1>1, <1>2
<1>8. read = ext
  BY <1>5
<1> HIDE DEF read, ext, msg
<1>9. size' = Len(InfoHash) /\ step' = "request" /\ UNCHANGED <<requested, pieces>>
  BY <1>2, <1>5, <1>6, <1>7, <1>8, Zenon
<1>10. UNCHANGED <<torrent, InfoHash, answered>>
  BY Zenon DEF ReadExtHandshake, ClientUnchanged
<1>11. PiecesRight'
  BY <1>9, <1>10, PiecesKept DEF Steady
<1>12. Progress'
  BY <1>3, <1>9, <1>10 DEF Steady, Progress, Wanted
<1> QED
  BY <1>5, <1>11, <1>12, Zenon DEF Steady, InboxRight

LEMMA PieceAdded ==
  ASSUME ExchangeInv, PiecesRight, NEW id \in (Wanted \cap answered) \ Gathered,
         pieces' = Append(pieces, [id |-> id, data |-> PieceOf(InfoHash, id)]),
         UNCHANGED <<InfoHash, answered>>
  PROVE  PiecesRight'
<1> DEFINE R == [id : Wanted, data : Seq(Symbols)]
<1> DEFINE new == [id |-> id, data |-> PieceOf(InfoHash, id)]
<1>1. pieces \in Seq(R) /\ new \in R
  <2>1. InfoHash \in Seq(Symbols)
    BY TorrentAsBytes
  <2>2. PieceOf(InfoHash, id) \in Seq(Symbols)
    BY <2>1, PieceShows DEF Wanted
  <2>3. pieces \in Seq(R)
    BY Zenon DEF PiecesRight
  <2>4. new \in R
    BY <2>2
  <2> QED
    BY <2>3, <2>4, Zenon
<1>2. new.id = id /\ new.data = PieceOf(InfoHash, id)
  OBVIOUS
<1>3. Wanted' = Wanted
  BY Zenon DEF Wanted
<1> HIDE DEF R, new
<1>4. /\ pieces' \in Seq(R) /\ Len(pieces') = Len(pieces) + 1
      /\ DOMAIN pieces' = DOMAIN pieces \cup {Len(pieces) + 1}
      /\ Len(pieces) + 1 \notin DOMAIN pieces
      /\ \A k \in DOMAIN pieces : pieces'[k] = pieces[k]
      /\ pieces'[Len(pieces) + 1] = new
  BY <1>1 DEF new
<1>5. \A k \in DOMAIN pieces : pieces[k].id \in Gathered
  BY Zenon DEF Gathered
<1>6. Gathered' = Gathered \cup {id}
  <2>1. \A x : x \in Gathered' <=> \E k \in DOMAIN pieces' : pieces'[k].id = x
    BY Zenon DEF Gathered
  <2>2. \A x : x \in Gathered <=> \E k \in DOMAIN pieces : pieces[k].id = x
    BY Zenon DEF Gathered
  <2>3. ASSUME NEW x PROVE x \in Gathered' <=> x \in Gathered \cup {id}
    <3>1. (\E k \in DOMAIN pieces' : pieces'[k].id = x)
            <=> (\E k \in DOMAIN pieces : pieces[k].id = x) \/ id = x
      BY <1>2, <1>4, Zenon
    <3> QED
      BY <2>1, <2>2, <3>1, Zenon
  <2> QED
    BY <2>3, Zenon
<1>7. IsFiniteSet(Gathered') /\ Cardinality(Gathered') = Len(pieces')
  <2>1. IsFiniteSet(Gathered) /\ Cardinality(Gathered) = Len(pieces) /\ id \notin Gathered
    BY Zenon DEF PiecesRight
  <2>2. IsFiniteSet(Gathered \cup {id}) /\ Cardinality(Gathered \cup {id}) = Cardinality(Gathered) + 1
    BY <2>1, FS_AddElement, Zenon
  <2> QED
    BY <1>4, <1>6, <2>1, <2>2, Zenon
<1>8. \A k \in DOMAIN pieces' : pieces'[k].data = PieceOf(InfoHash, pieces'[k].id)
  BY <1>2, <1>4, Zenon DEF PiecesRight
<1>9. \A k, l \in DOMAIN pieces' : pieces'[k].id = pieces'[l].id => k = l
  <2>1. \A k, l \in DOMAIN pieces : pieces[k].id = pieces[l].id => k = l
    BY Zenon DEF PiecesRight
  <2>2. \A k \in DOMAIN pieces : pieces'[k].id # id /\ pieces'[k].id = pieces[k].id
    BY <1>4, <1>5, Zenon
  <2>3. pieces'[Len(pieces) + 1].id = id
    BY <1>2, <1>4, Zenon
  <2>4. \A k \in DOMAIN pieces' : k \in DOMAIN pieces \/ k = Len(pieces) + 1
    BY <1>4, Zenon
  <2> SUFFICES ASSUME NEW k \in DOMAIN pieces', NEW l \in DOMAIN pieces', pieces'[k].id = pieces'[l].id
              PROVE  k = l
    BY Zenon
  <2>5. CASE k \in DOMAIN pieces
    <3>1. l \in DOMAIN pieces
      BY <2>2, <2>3, <2>4, <2>5, Zenon
    <3> QED
      BY <2>1, <2>2, <2>5, <3>1, Zenon
  <2>6. CASE k = Len(pieces) + 1
    BY <2>2, <2>3, <2>4, <2>6, Zenon
  <2> QED
    BY <2>4, <2>5, <2>6, Zenon
<1>10. Gathered' \subseteq answered'
  BY <1>6, Zenon DEF PiecesRight
<1>11. pieces' \in Seq([id : Wanted', data : Seq(Symbols)])
  BY <1>3, <1>4, Zenon DEF R
<1> QED
  BY <1>7, <1>8, <1>9, <1>10, <1>11, Zenon DEF PiecesRight

LEMMA SteadyReadPiece ==
  ASSUME ExchangeInv, faithful, Fits, Steady, ReadPiece
  PROVE  Steady'
<1>1. step = "readPiece" /\ inbox # << >> /\ Head(inbox) # Chatter /\ inbox' = Tail(inbox)
  BY DEF ReadPiece, ExtMessage
<1>2. PICK id \in (Wanted \cap answered) \ Gathered :
           inbox = <<PieceMessage(1, id, PieceOf(InfoHash, id))>>
  <2>1. inbox # <<Chatter>>
    BY <1>1
  <2> QED
    BY <1>1, <2>1, Zenon DEF Steady, InboxRight
<1> DEFINE msg == PieceMessage(1, id, PieceOf(InfoHash, id))
<1> DEFINE dict == DecodeDict(Tail(msg), 1)
<1>3. Head(inbox) = msg /\ inbox' = << >>
  BY <1>1, <1>2
<1>4. /\ msg[1] # "0" /\ dict.kind = "ok" /\ dict.pos <= Len(msg)
      /\ GetInt(dict.val, <<"msg_type">>) = 1 /\ GetInt(dict.val, <<"piece">>) = id
      /\ Trailer(msg, dict) = PieceOf(InfoHash, id)
  <2>1. torrent \in Torrents /\ InfoHash = Encode(torrent) /\ Len(Encode(torrent)) <= MaxSize
    BY Zenon DEF ExchangeInv, Fits
  <2>2. id \in 0 .. NumPieces(Len(Encode(torrent))) - 1
    BY <1>2, <2>1, Zenon DEF Wanted
  <2> QED
    BY <2>1, <2>2, PieceRead, Zenon
<1>5. Len(PieceOf(InfoHash, id)) <= PieceLength
  <2>1. InfoHash \in Seq(Symbols) /\ id \in 0 .. NumPieces(Len(InfoHash)) - 1
    BY <1>2, TorrentAsBytes DEF Wanted
  <2> QED
    BY <2>1, PieceShows, Zenon
<1> DEFINE read == DecodeDict(Tail(Head(inbox)), 1)
<1>6. IF /\ Head(inbox)[1] # "0"
         /\ read.kind = "ok"
         /\ read.pos <= Len(Head(inbox))
         /\ GetInt(read.val, <<"msg_type">>) = 1
         /\ Len(Trailer(Head(inbox), read)) <= PieceLength
      THEN /\ pieces' = Append(pieces, [id |-> GetInt(read.val, <<"piece">>),
                                        data |-> Trailer(Head(inbox), read)])
           /\ step' = IF Len(pieces') = NumPieces(size) THEN "verify" ELSE "readPiece"
           /\ UNCHANGED <<size, requested, metadata>>
      ELSE Fail
  BY Zenon DEF ReadPiece
<1>7. read = dict
  BY <1>3
<1> HIDE DEF read, dict, msg
<1>8. /\ pieces' = Append(pieces, [id |-> id, data |-> PieceOf(InfoHash, id)])
      /\ step' = IF Len(pieces') = NumPieces(size) THEN "verify" ELSE "readPiece"
      /\ UNCHANGED <<size, requested>>
  BY <1>3, <1>4, <1>5, <1>6, <1>7, Zenon
<1>9. UNCHANGED <<torrent, InfoHash, answered>>
  BY Zenon DEF ReadPiece, ClientUnchanged
<1>10. PiecesRight'
  BY <1>8, <1>9, PieceAdded, Zenon DEF Steady
<1>11. Progress'
  <2>1. size = Len(InfoHash) /\ requested \subseteq Wanted
    BY <1>1 DEF Steady, Progress
  <2>2. size' = Len(InfoHash') /\ requested' \subseteq Wanted'
    BY <1>8, <1>9, <2>1, Zenon DEF Wanted
  <2>3. /\ step' \in {"verify", "readPiece"}
        /\ step' = "verify" => Len(pieces') = NumPieces(Len(InfoHash'))
    BY <1>8, <1>9, <2>1, Zenon
  <2> QED
    BY <2>2, <2>3 DEF Progress
<1> QED
  BY <1>3, <1>10, <1>11, Zenon DEF Steady, InboxRight

\* As many pieces as there are, none twice: they are all there.
LEMMA AllGathered ==
  ASSUME ExchangeInv, PiecesRight, Len(pieces) = NumPieces(Len(InfoHash))
  PROVE  Gathered = Wanted
<1> DEFINE n == NumPieces(Len(InfoHash))
<1>1. n \in Nat
  BY TorrentAsBytes
<1>2. IsFiniteSet(0 .. n - 1) /\ Cardinality(0 .. n - 1) = n
  <2>1. n - 1 \in Int
    BY <1>1
  <2> HIDE DEF n
  <2>2. /\ IsFiniteSet(0 .. n - 1)
        /\ Cardinality(0 .. n - 1) = IF 0 > n - 1 THEN 0 ELSE (n - 1) - 0 + 1
    <3>1. 0 \in Int
      OBVIOUS
    <3> QED
      BY <2>1, <3>1, FS_Interval, Zenon
  <2> QED
    BY <1>1, <2>2
<1>3. IsFiniteSet(Wanted) /\ Cardinality(Wanted) = n
  BY <1>2, Zenon DEF Wanted
<1>4. Gathered \in SUBSET Wanted
  <2>1. \A k \in DOMAIN pieces : pieces[k] \in [id : Wanted, data : Seq(Symbols)]
    <3>1. pieces \in Seq([id : Wanted, data : Seq(Symbols)])
      BY Zenon DEF PiecesRight
    <3>2. ASSUME NEW S, NEW q \in Seq(S) PROVE \A k \in DOMAIN q : q[k] \in S
      OBVIOUS
    <3> QED
      BY <3>1, <3>2, Zenon
  <2>2. \A k \in DOMAIN pieces : pieces[k].id \in Wanted
    BY <2>1
  <2> QED
    BY <2>2, Zenon DEF Gathered
<1>5. Cardinality(Wanted) = Cardinality(Gathered)
  BY <1>3, Zenon DEF PiecesRight
<1> QED
  BY <1>3, <1>4, <1>5, FS_Subset, Zenon

LEMMA SteadyVerify ==
  ASSUME ExchangeInv, faithful, Fits, Steady, Verify
  PROVE  Steady'
<1>1. step = "verify" /\ size = Len(InfoHash) /\ Len(pieces) = NumPieces(Len(InfoHash))
  BY DEF Verify, Steady, Progress
<1>2. InfoHash \in Seq(Symbols) /\ Len(InfoHash) \in Nat
  BY TorrentAsBytes
<1>3. Gathered = Wanted
  BY <1>1, AllGathered DEF Steady
<1>4. \A k \in DOMAIN pieces : /\ pieces[k].id \in 0 .. NumPieces(Len(InfoHash)) - 1
                               /\ pieces[k].data = PieceOf(InfoHash, pieces[k].id)
  <2>1. \A k \in DOMAIN pieces : pieces[k].id \in Wanted
    BY <1>3, Zenon DEF Gathered
  <2> QED
    BY <2>1, Zenon DEF Wanted, Steady, PiecesRight
<1>5. \A id \in 0 .. NumPieces(Len(InfoHash)) - 1 : \E k \in DOMAIN pieces : pieces[k].id = id
  BY <1>3, Zenon DEF Wanted, Gathered
<1>6. DOMAIN pieces \subseteq Int
  BY DEF Steady, PiecesRight
<1>7. \A k, l \in DOMAIN pieces : pieces[k].id = pieces[l].id => k = l
  BY Zenon DEF Steady, PiecesRight
<1>8. Assemble = InfoHash
  BY <1>1, <1>2, <1>4, <1>5, <1>6, <1>7, AssembledIsWhole, Zenon
<1>9. \A k \in DOMAIN pieces : pieces[k].id * PieceLength \in 0 .. size
  <2>1. ASSUME NEW k \in DOMAIN pieces PROVE pieces[k].id * PieceLength \in 0 .. Len(InfoHash)
    <3>1. pieces[k].id * PieceLength \in Nat /\ pieces[k].id * PieceLength < Len(InfoHash)
      BY <1>2, <1>4, PieceBegins
    <3> QED
      BY <1>2, <3>1
  <2> QED
    BY <1>1, <2>1
<1>10. DecodeDict(InfoHash, 1).kind = "ok"
  BY ExchangeAssumption, Zenon DEF ExchangeInv
<1>11. step' = "ok" /\ UNCHANGED <<size, requested, pieces, torrent, InfoHash, answered, inbox>>
  BY <1>8, <1>9, <1>10, Zenon DEF Verify, ClientUnchanged
<1>12. PiecesRight'
  BY <1>11, PiecesKept DEF Steady
<1>13. Progress'
  BY <1>11 DEF Steady, Progress, Wanted
<1>14. InboxRight'
  <2>1. \/ inbox = << >> \/ inbox = <<Chatter>>
        \/ \E id \in (Wanted \cap answered) \ Gathered :
             inbox = <<PieceMessage(1, id, PieceOf(InfoHash, id))>>
    BY <1>1 DEF Steady, InboxRight
  <2>2. ASSUME NEW id \in (Wanted \cap answered) \ Gathered PROVE FALSE
    BY <1>3, <2>2, Zenon
  <2> QED
    BY <1>11, <2>1, <2>2, Zenon DEF InboxRight, Chatter
<1> QED
  BY <1>12, <1>13, <1>14, Zenon DEF Steady

\* With a peer that follows the protocol GetMetadata never fails, for torrents of
\* any length up to maxMetadataSize, the last piece being short or not, and for
\* every order in which the pieces come: requestPieces asks for each piece once,
\* and the copies put every byte in its place.
THEOREM FaithfulNeverFails == BTSpec => []FaithfulSucceeds
<1>1. BTInit => ExchangeInv /\ FaithfulInv
  <2> SUFFICES ASSUME BTInit PROVE ExchangeInv /\ Steady
    BY Zenon DEF FaithfulInv
  <2>1. ExchangeInv
    BY DEF BTInit, ExchangeInv
  <2>2. pieces = << >> /\ requested = {} /\ answered = {} /\ inbox = << >> /\ step = "handshake"
    BY DEF BTInit
  <2>3. Gathered = {}
    BY <2>2 DEF Gathered
  <2>4. PiecesRight
    BY <2>2, <2>3, FS_EmptySet DEF PiecesRight
  <2>5. Progress /\ InboxRight
    BY <2>2 DEF Progress, InboxRight
  <2> QED
    BY <2>1, <2>4, <2>5, Zenon DEF Steady
<1>2. ExchangeInv /\ FaithfulInv /\ [BTNext]_btVars => (ExchangeInv /\ FaithfulInv)'
  <2> SUFFICES ASSUME ExchangeInv, FaithfulInv, [BTNext]_btVars PROVE ExchangeInv' /\ FaithfulInv'
    OBVIOUS
  <2>1. ASSUME UNCHANGED btVars PROVE ExchangeInv' /\ FaithfulInv'
    <3>1. ExchangeInv' /\ (Fits' => Fits) /\ (faithful' => faithful)
      BY <2>1, Zenon DEF btVars, ExchangeInv, Fits
    <3>2. PiecesRight => PiecesRight'
      BY <2>1, PiecesKept DEF btVars
    <3>3. Progress => Progress'
      BY <2>1, Zenon DEF btVars, Progress, Wanted
    <3>4. InboxRight => InboxRight'
      BY <2>1, Zenon DEF btVars, InboxRight, Wanted, Gathered
    <3> QED
      BY <3>1, <3>2, <3>3, <3>4, Zenon DEF FaithfulInv, Steady
  <2>2. ASSUME BTNext PROVE FaithfulInv'
    <3>1. UNCHANGED <<faithful, InfoHash>>
      BY <2>2, Zenon DEF BTNext, Client, Handshake, SendExtHandshake, SkipMessage, ReadExtHandshake,
         RequestPieces, ReadPiece, Verify, ReadTimesOut, ClientUnchanged, Answer, PeerExt,
         PeerPiece, PeerChatter, PeerLies, PeerUnchanged
    <3>2. ASSUME faithful', Fits' PROVE faithful /\ Fits
      BY <3>1, <3>2, Zenon DEF Fits
    <3>3. ASSUME faithful, Fits PROVE Steady'
      <4>1. Steady
        BY <3>3, Zenon DEF FaithfulInv
      <4>2. ~ReadTimesOut
        BY <3>3, Zenon DEF ReadTimesOut
      <4> QED
        BY <2>2, <3>3, <4>1, <4>2, SteadyPeer, SteadyOpening, SteadySkip, SteadyReadExt, SteadyReadPiece,
           SteadyVerify, Zenon DEF BTNext, Client
    <3> QED
      BY <3>2, <3>3, Zenon DEF FaithfulInv
  <2> QED
    BY <2>1, <2>2, ExchangeStep, Zenon
<1>3. FaithfulInv => FaithfulSucceeds
  <2>1. Progress => step # "failed"
    BY DEF Progress
  <2> QED
    BY <2>1, Zenon DEF FaithfulInv, FaithfulSucceeds, Steady
<1> QED
  BY <1>1, <1>2, <1>3, PTL DEF BTSpec
=============================================================================
