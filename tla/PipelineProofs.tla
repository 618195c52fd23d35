--------------------------- MODULE PipelineProofs ---------------------------
(***************************************************************************)
(* Proofs about Indexer and Pipeline.                                      *)
(*                                                                         *)
(* The indexer loses no message and acknowledges exactly its batch, for    *)
(* every batch size and any number of messages and restarts.               *)
(*                                                                         *)
(* The pipeline runs the indexer as it is, so that this holds in it, too;  *)
(* the counts of a document settle, and the index shows the newest ones,   *)
(* for any number of torrents, results, messages, any batch size and any   *)
(* prefetch.                                                               *)
(***************************************************************************)
EXTENDS Pipeline, SequenceTheorems, WellFoundedInduction, TLAPS

LEMMA EmptyDomain == DOMAIN << >> = {}
OBVIOUS

LEMMA LessOrEqual ==
  ASSUME NEW i \in Nat, NEW j \in Nat, i <= j
  PROVE  i = j \/ i < j
OBVIOUS

LEMMA NextIsAfter ==
  ASSUME NEW n \in Nat, NEW i \in 1 .. n
  PROVE  i < n + 1 /\ i \in Nat
OBVIOUS

\* The batch is what was delivered first of what is outstanding.
LEMMA BatchAtFront ==
  ASSUME TypeOK, BatchIsUnacked, NEW i \in DOMAIN batch
  PROVE  i \in Nat /\ i \in DOMAIN unacked /\ unacked[i] = batch[i]
BY SMTT(20) DEF TypeOK, BatchIsUnacked

-----------------------------------------------------------------------------
(* The identifiers in a sequence of messages.                              *)

LEMMA IdsAppend ==
  ASSUME NEW s \in Seq(Msg), NEW m \in Msg
  PROVE  Ids(Append(s, m)) = Ids(s) \cup {m.id}
BY AppendProperties DEF Ids

LEMMA IdsConcat ==
  ASSUME NEW s \in Seq(Msg), NEW t \in Seq(Msg)
  PROVE  Ids(s \o t) = Ids(s) \cup Ids(t)
<1>1. ASSUME NEW i \in DOMAIN s PROVE s[i].id \in Ids(s \o t)
  BY <1>1, ConcatProperties DEF Ids
<1>2. ASSUME NEW i \in DOMAIN t PROVE t[i].id \in Ids(s \o t)
  <2>1. Len(s) + i \in DOMAIN (s \o t) /\ (s \o t)[Len(s) + i] = t[i]
    BY <1>2, ConcatProperties
  <2> QED
    BY <2>1, Zenon DEF Ids
<1>3. ASSUME NEW i \in DOMAIN (s \o t) PROVE (s \o t)[i].id \in Ids(s) \cup Ids(t)
  BY <1>3, ConcatProperties DEF Ids
<1> QED
  BY <1>1, <1>2, <1>3, Zenon DEF Ids

LEMMA IdsHeadTail ==
  ASSUME NEW s \in Seq(Msg), s # << >>
  PROVE  Ids(s) = {Head(s).id} \cup Ids(Tail(s))
<1>1. ASSUME NEW i \in DOMAIN s PROVE s[i].id \in {Head(s).id} \cup Ids(Tail(s))
  <2>1. CASE i = 1
    BY <2>1
  <2>2. CASE i # 1
    <3>1. i - 1 \in DOMAIN Tail(s) /\ Tail(s)[i - 1] = s[i]
      BY <2>2, HeadTailProperties
    <3> QED
      BY <3>1, Zenon DEF Ids
  <2> QED
    BY <2>1, <2>2, Zenon
<1>2. ASSUME NEW i \in DOMAIN Tail(s) PROVE Tail(s)[i].id \in Ids(s)
  BY <1>2, HeadTailProperties DEF Ids
<1>3. Head(s).id \in Ids(s)
  BY DEF Ids
<1> QED
  BY <1>1, <1>2, <1>3, Zenon DEF Ids

\* Cutting a sequence after its n-th element splits its identifiers.
LEMMA IdsSplit ==
  ASSUME NEW s \in Seq(Msg), NEW n \in 0 .. Len(s)
  PROVE  /\ SubSeq(s, 1, n) \in Seq(Msg)
         /\ SubSeq(s, n + 1, Len(s)) \in Seq(Msg)
         /\ Ids(s) = Ids(SubSeq(s, 1, n)) \cup Ids(SubSeq(s, n + 1, Len(s)))
<1>1. SubSeq(s, 1, n) \in Seq(Msg) /\ SubSeq(s, n + 1, Len(s)) \in Seq(Msg)
  OBVIOUS
<1>2. SubSeq(s, 1, n) \o SubSeq(s, n + 1, Len(s)) = s
  <2>1. SubSeq(s, 1, Len(s)) = s
    BY SubSeqFull, Zenon
  <2>2. SubSeq(s, 1, n) \o SubSeq(s, n + 1, Len(s)) = SubSeq(s, 1, Len(s))
    <3>1. 1 \in 1 .. Len(s) + 1 /\ n \in 1 - 1 .. Len(s) /\ Len(s) \in n .. Len(s)
      OBVIOUS
    <3> QED
      BY <3>1, ConcatAdjacentSubSeq, Zenon
  <2> QED
    BY <2>1, <2>2, Zenon
<1> QED
  BY <1>1, <1>2, IdsConcat, Zenon

-----------------------------------------------------------------------------
(* A non-empty set of indices has a largest one, so Apply is well defined. *)
LEMMA LargestIndex ==
  ASSUME NEW n \in Nat, NEW S \in SUBSET (1 .. n), S # {}
  PROVE  \E i \in S : \A j \in S : j <= i
<1> DEFINE T == {n - i : i \in S}
<1>1. T \subseteq Nat /\ T # {}
  <2>1. \A i \in S : n - i \in Nat
    OBVIOUS
  <2>2. PICK i \in S : TRUE
    BY Zenon
  <2>3. n - i \in T
    BY <2>2, Zenon
  <2> QED
    BY <2>1, <2>3, Zenon
<1>2. PICK x \in T : \A y \in T : <<y, x>> \notin OpToRel(<, Nat)
  <2> HIDE DEF T
  <2> QED
    BY <1>1, NatLessThanWellFounded, WFMin, Zenon
<1>3. \A y \in T : ~(y < x)
  BY <1>1, <1>2, Zenon DEF OpToRel
<1>4. PICK i \in S : x = n - i
  OBVIOUS
<1>5. ASSUME NEW j \in S PROVE j <= i
  <2>1. ~(n - j < n - i)
    BY <1>3, <1>4, Zenon
  <2> QED
    BY <2>1
<1> QED
  BY <1>5, Zenon

LEMMA ApplyType ==
  ASSUME TypeOK, NEW items \in SUBSET DOMAIN batch, Apply(items)
  PROVE  es' \in [Hashes -> 0 .. MaxMsgs] /\ applied' \in SUBSET Msg
<1>1. DOMAIN batch = 1 .. Len(batch) /\ Len(batch) \in Nat
  BY DEF TypeOK
<1>2. ASSUME NEW h \in Hashes PROVE es'[h] \in 0 .. MaxMsgs
  <2> DEFINE hits == {i \in items : batch[i].hash = h}
  <2> DEFINE top == CHOOSE i \in hits : \A j \in hits : j <= i
  <2>1. es'[h] = IF hits = {} THEN es[h] ELSE batch[top].id
    BY Zenon DEF Apply
  <2>2. CASE hits = {}
    BY <2>1, <2>2, Zenon DEF TypeOK
  <2>3. CASE hits # {}
    <3>1. hits \in SUBSET (1 .. Len(batch))
      BY <1>1, Zenon
    <3>2. \E i \in hits : \A j \in hits : j <= i
      <4> HIDE DEF hits
      <4> QED
        BY <1>1, <2>3, <3>1, LargestIndex, Zenon
    <3>3. top \in hits
      <4> HIDE DEF hits
      <4> QED
        BY <3>2, Zenon
    <3>4. batch[top] \in Msg
      <4> HIDE DEF top
      <4> QED
        BY <3>1, <3>3 DEF TypeOK
    <3> HIDE DEF hits, top
    <3> QED
      BY <2>1, <2>3, <3>4 DEF Msg
  <2> QED
    BY <2>2, <2>3, Zenon
<1>3. es' = [h \in Hashes |-> es'[h]]
  BY DEF Apply
<1>4. applied' \in SUBSET Msg
  BY <1>1 DEF Apply, TypeOK
<1> QED
  BY <1>2, <1>3, <1>4, Zenon

-----------------------------------------------------------------------------
(* The inductive invariant.  NoLoss needs to know that what a cumulative   *)
(* Ack takes from the broker is the batch (BatchIsUnacked), and that the   *)
(* batch has been through a bulk request by then (SavedIsSettled).         *)

SavedIsSettled ==
  pc = "ack" => \A i \in DOMAIN batch : batch[i] \in applied \cup rejected

Inv == TypeOK /\ BatchIsUnacked /\ SavedIsSettled /\ NoLoss

LEMMA InitInv == Init => Inv
BY IndexerAssumption DEF Init, Inv, TypeOK, BatchIsUnacked, SavedIsSettled, NoLoss

\* A step that publishes nothing loses nothing if it keeps what is settled
\* and what leaves the broker is settled.
LEMMA KeepsAll ==
  ASSUME NoLoss, sent' = sent, SettledIds \subseteq SettledIds',
         Ids(ready) \cup Ids(unacked) \subseteq Ids(ready') \cup Ids(unacked') \cup SettledIds'
  PROVE  NoLoss'
BY Zenon DEF NoLoss

LEMMA StoreInv ==
  ASSUME Inv, NEW h \in Hashes, Store(h)
  PROVE  Inv'
<1>1. searchUpdated' \subseteq searchUpdated /\ UNCHANGED <<broker, process, history, es, exits>>
  BY Zenon DEF Store
<1> QED
  BY <1>1, Zenon DEF Inv, TypeOK, BatchIsUnacked, SavedIsSettled, NoLoss, SettledIds, broker, process,
              history

LEMMA PublishInv ==
  ASSUME Inv, NEW h \in Hashes, Publish(h) \/ PublishMalformed(h)
  PROVE  Inv'
<1>1. PICK b \in BOOLEAN : ready' = Append(ready, [id |-> sent + 1, hash |-> h, ok |-> b])
  BY Zenon DEF Publish, PublishMalformed
<1> DEFINE m == [id |-> sent + 1, hash |-> h, ok |-> b]
<1>2. m \in Msg /\ m.id = sent + 1
  BY IndexerAssumption DEF Msg, Inv, TypeOK, Publish, PublishMalformed
<1> HIDE DEF m
<1>3. Ids(ready') = Ids(ready) \cup {sent + 1} /\ ready' \in Seq(Msg)
  <2>1. ready' = Append(ready, m)
    BY <1>1, Zenon DEF m
  <2> QED
    BY <1>2, <2>1, IdsAppend DEF Inv, TypeOK
<1>4. TypeOK'
  <2>1. /\ sent' \in 0 .. MaxMsgs
        /\ latest' \in [Hashes -> 0 .. MaxMsgs]
        /\ searchUpdated' \in SUBSET Hashes
    <3>1. sent' = sent + 1 /\ sent + 1 \in 0 .. MaxMsgs
      BY IndexerAssumption DEF Inv, TypeOK, Publish, PublishMalformed
    <3>2. latest' = latest \/ latest' = [latest EXCEPT ![h] = sent + 1]
      BY Zenon DEF Publish, PublishMalformed
    <3>3. searchUpdated' \subseteq searchUpdated
      BY Zenon DEF Publish, PublishMalformed
    <3>4. latest' \in [Hashes -> 0 .. MaxMsgs]
      BY <3>1, <3>2, Zenon DEF Inv, TypeOK
    <3> QED
      BY <3>1, <3>3, <3>4, Zenon DEF Inv, TypeOK
  <2>2. UNCHANGED <<unacked, taken, pc, batch, es, marking, exits, applied, rejected, dropped>>
    BY Zenon DEF Publish, PublishMalformed, process, history
  <2> QED
    BY <1>3, <2>1, <2>2, Zenon DEF Inv, TypeOK
<1>5. BatchIsUnacked' /\ SavedIsSettled'
  BY Zenon DEF Inv, BatchIsUnacked, SavedIsSettled, Publish, PublishMalformed, process, history
<1>6. NoLoss'
  <2>1. sent \in Nat /\ sent' = sent + 1 /\ unacked' = unacked
    BY DEF Inv, TypeOK, Publish, PublishMalformed
  <2>2. SettledIds' = SettledIds
    BY Zenon DEF Publish, PublishMalformed, history, SettledIds
  <2>3. ASSUME NEW n \in 1 .. sent' PROVE n \in 1 .. sent \/ n = sent + 1
    BY <2>1, <2>3
  <2> QED
    BY <1>3, <2>1, <2>2, <2>3, Zenon DEF Inv, NoLoss
<1> QED
  BY <1>4, <1>5, <1>6, Zenon DEF Inv

LEMMA DeliverInv ==
  ASSUME Inv, Deliver
  PROVE  Inv'
<1>1. /\ Head(ready) \in Msg /\ Tail(ready) \in Seq(Msg)
      /\ unacked' = Append(unacked, Head(ready)) /\ ready' = Tail(ready)
  BY HeadTailProperties, Zenon DEF Inv, TypeOK, Deliver
<1>2. /\ unacked' \in Seq(Msg) /\ Len(unacked') = Len(unacked) + 1
      /\ \A i \in 1 .. Len(unacked) : unacked'[i] = unacked[i]
  BY <1>1, AppendProperties DEF Inv, TypeOK
<1>3. TypeOK'
  <2>1. ready' \in Seq(Msg) /\ unacked' \in Seq(Msg) /\ Len(unacked') <= BatchSize
    BY <1>1, <1>2, IndexerAssumption DEF Inv, TypeOK, Deliver, Prefetch
  <2> QED
    BY <2>1, Zenon DEF Inv, TypeOK, Deliver, process, history
<1>4. BatchIsUnacked' /\ SavedIsSettled'
  BY <1>2 DEF Inv, TypeOK, BatchIsUnacked, SavedIsSettled, Deliver, process, history
<1>5. NoLoss'
  <2>1. Ids(ready) \cup Ids(unacked) = Ids(ready') \cup Ids(unacked')
    <3>1. Ids(ready) = {Head(ready).id} \cup Ids(ready')
      BY <1>1, IdsHeadTail, Zenon DEF Inv, TypeOK, Deliver
    <3>2. Ids(unacked') = Ids(unacked) \cup {Head(ready).id}
      BY <1>1, IdsAppend, Zenon DEF Inv, TypeOK
    <3> QED
      BY <3>1, <3>2, Zenon
  <2> QED
    BY <2>1, KeepsAll, Zenon DEF Inv, Deliver, SettledIds, history
<1> QED
  BY <1>3, <1>4, <1>5, Zenon DEF Inv

LEMMA AroundOne ==
  ASSUME NEW s \in Seq(Msg), NEW n \in 0 .. Len(s) - 1
  PROVE  /\ SubSeq(s, 1, n) \in Seq(Msg) /\ Len(SubSeq(s, 1, n)) = n
         /\ SubSeq(s, n + 2, Len(s)) \in Seq(Msg) /\ Len(SubSeq(s, n + 2, Len(s))) = Len(s) - n - 1
         /\ \A i \in 1 .. n : SubSeq(s, 1, n)[i] = s[i]
OBVIOUS

LEMMA ReceiveMalformedInv ==
  ASSUME Inv, ReceiveMalformed
  PROVE  Inv'
<1> DEFINE m == unacked[taken + 1]
           front == SubSeq(unacked, 1, taken)
           back == SubSeq(unacked, taken + 2, Len(unacked))
<1>1. taken \in 0 .. Len(unacked) - 1 /\ Len(unacked) \in Nat /\ m \in Msg
  BY DEF Inv, TypeOK, ReceiveMalformed
<1>2. /\ front \in Seq(Msg) /\ Len(front) = taken
      /\ back \in Seq(Msg) /\ Len(back) = Len(unacked) - taken - 1
      /\ \A i \in 1 .. taken : front[i] = unacked[i]
  <2>1. unacked \in Seq(Msg)
    BY Zenon DEF Inv, TypeOK
  <2> QED
    BY <1>1, <2>1, AroundOne, Zenon
<1>3. unacked' = front \o back
  BY Zenon DEF ReceiveMalformed
<1>4. /\ unacked' \in Seq(Msg) /\ Len(unacked') = Len(unacked) - 1
      /\ \A i \in 1 .. taken : unacked'[i] = unacked[i]
  <2> HIDE DEF front, back
  <2> QED
    BY <1>1, <1>2, <1>3, ConcatProperties
<1>5. TypeOK'
  <2>1. dropped' \in SUBSET Msg
    BY <1>1, Zenon DEF Inv, TypeOK, ReceiveMalformed
  <2>2. UNCHANGED <<sent, latest, ready, taken, pc, batch, es, marking, searchUpdated, exits,
                    applied, rejected>>
    BY Zenon DEF ReceiveMalformed, process
  <2> QED
    BY <1>1, <1>4, <2>1, <2>2, IndexerAssumption DEF Inv, TypeOK
<1>6. BatchIsUnacked' /\ SavedIsSettled'
  <2>1. UNCHANGED <<taken, pc, batch, applied, rejected>>
    BY Zenon DEF ReceiveMalformed, process
  <2>2. BatchIsUnacked'
    BY <1>1, <1>4, <2>1 DEF Inv, BatchIsUnacked
  <2> QED
    BY <2>1, <2>2, Zenon DEF Inv, SavedIsSettled
<1>7. NoLoss'
  <2>1. Ids(unacked) \subseteq Ids(unacked') \cup {m.id}
    <3>1. Ids(unacked') = Ids(front) \cup Ids(back)
      <4> HIDE DEF front, back
      <4> QED
        BY <1>2, <1>3, IdsConcat, Zenon
    <3>2. ASSUME NEW i \in 1 .. Len(unacked)
          PROVE  unacked[i].id \in Ids(front) \cup Ids(back) \cup {m.id}
      <4>1. CASE i <= taken
        <5>1. i \in DOMAIN front /\ front[i] = unacked[i]
          BY <1>1, <1>2, <4>1
        <5> QED
          BY <5>1, Zenon DEF Ids
      <4>2. CASE i = taken + 1
        BY <4>2, Zenon
      <4>3. CASE i > taken + 1
        <5>1. i - taken - 1 \in DOMAIN back /\ back[i - taken - 1] = unacked[i]
          <6>1. i - taken - 1 \in 1 .. Len(unacked) - taken - 1 /\ taken + 1 + (i - taken - 1) = i
            BY <1>1, <4>3
          <6>2. unacked \in Seq(Msg)
            BY Zenon DEF Inv, TypeOK
          <6>3. \A j \in 1 .. Len(unacked) - taken - 1 : back[j] = unacked[taken + 1 + j]
            BY <1>1, <6>2
          <6> HIDE DEF back
          <6> QED
            BY <1>2, <6>1, <6>3, SMTT(20)
        <5> QED
          BY <5>1, Zenon DEF Ids
      <4> QED
        BY <1>1, <4>1, <4>2, <4>3
    <3>3. DOMAIN unacked = 1 .. Len(unacked)
      BY DEF Inv, TypeOK
    <3> QED
      BY <3>1, <3>2, <3>3, Zenon DEF Ids
  <2>2. SettledIds \cup {m.id} \subseteq SettledIds'
    BY Zenon DEF ReceiveMalformed, SettledIds
  <2>3. sent' = sent /\ ready' = ready
    BY Zenon DEF ReceiveMalformed
  <2> QED
    BY <2>1, <2>2, <2>3, KeepsAll, Zenon DEF Inv
<1> QED
  BY <1>5, <1>6, <1>7 DEF Inv

LEMMA ReceiveTorrentInv ==
  ASSUME Inv, ReceiveTorrent
  PROVE  Inv'
<1>1. /\ taken \in 0 .. Len(unacked) - 1 /\ Len(unacked) \in Nat
      /\ unacked[taken + 1] \in Msg
  BY DEF Inv, TypeOK, ReceiveTorrent
<1>2. /\ batch' \in Seq(Msg) /\ Len(batch') = Len(batch) + 1
      /\ \A i \in 1 .. Len(batch) : batch'[i] = batch[i]
      /\ batch'[Len(batch) + 1] = unacked[taken + 1]
  BY <1>1, AppendProperties DEF Inv, TypeOK, ReceiveTorrent
<1>3. taken = Len(batch) /\ taken' = taken + 1 /\ unacked' = unacked /\ pc' \in {"save", "receive"}
  BY Zenon DEF Inv, BatchIsUnacked, ReceiveTorrent, broker
<1>4. TypeOK'
  <2>1. UNCHANGED <<sent, latest, ready, unacked, es, marking, searchUpdated, exits,
                    applied, rejected, dropped>>
    BY Zenon DEF ReceiveTorrent, broker, history
  <2> QED
    BY <1>1, <1>2, <1>3, <2>1, IndexerAssumption DEF Inv, TypeOK
<1>5. BatchIsUnacked' /\ SavedIsSettled'
  BY <1>1, <1>2, <1>3 DEF Inv, BatchIsUnacked, SavedIsSettled
<1>6. NoLoss'
  BY Zenon DEF Inv, NoLoss, ReceiveTorrent, broker, history, SettledIds
<1> QED
  BY <1>4, <1>5, <1>6 DEF Inv

LEMMA BulkInv ==
  ASSUME Inv, NEW items \in SUBSET DOMAIN batch, BulkFails(items) \/ BulkSucceeds(items)
  PROVE  Inv'
<1>1. es' \in [Hashes -> 0 .. MaxMsgs] /\ applied' \in SUBSET Msg
  BY ApplyType, Zenon DEF Inv, BulkFails, BulkSucceeds
<1>2. /\ UNCHANGED <<sent, latest, ready, unacked, taken, batch, dropped, searchUpdated, exits>>
      /\ applied' = applied \cup {batch[i] : i \in items}
  BY Zenon DEF BulkFails, BulkSucceeds, Apply, broker
<1>3. CASE BulkFails(items)
  <2>1. pc' = "nack" /\ marking' = marking /\ rejected' = rejected
    BY <1>3, Zenon DEF BulkFails
  <2>2. TypeOK'
    BY <1>1, <1>2, <2>1, Zenon DEF Inv, TypeOK
  <2>3. BatchIsUnacked' /\ SavedIsSettled'
    BY <1>2, <2>1, Zenon DEF Inv, BatchIsUnacked, SavedIsSettled
  <2>4. NoLoss'
    BY <1>2, <2>1, KeepsAll, Zenon DEF Inv, SettledIds
  <2> QED
    BY <2>2, <2>3, <2>4, Zenon DEF Inv
<1>4. CASE BulkSucceeds(items)
  <2>1. /\ pc' = "ack"
        /\ marking' = marking \cup {{batch[i].hash : i \in DOMAIN batch}}
        /\ rejected' = rejected \cup {batch[i] : i \in DOMAIN batch \ items}
    BY <1>4, Zenon DEF BulkSucceeds
  <2>2. \A i \in DOMAIN batch : batch[i] \in Msg /\ batch[i].hash \in Hashes
    <3>1. \A i \in DOMAIN batch : batch[i] \in Msg
      BY DEF Inv, TypeOK
    <3> QED
      BY <3>1, Zenon DEF Msg
  <2>3. TypeOK'
    <3>1. marking' \in SUBSET (SUBSET Hashes) /\ rejected' \in SUBSET Msg
      BY <2>1, <2>2 DEF Inv, TypeOK
    <3> QED
      BY <1>1, <1>2, <2>1, <3>1, Zenon DEF Inv, TypeOK
  <2>4. BatchIsUnacked' /\ SavedIsSettled'
    BY <1>2, <2>1, Zenon DEF Inv, BatchIsUnacked, SavedIsSettled
  <2>5. NoLoss'
    BY <1>2, <2>1, KeepsAll, Zenon DEF Inv, SettledIds
  <2> QED
    BY <2>3, <2>4, <2>5 DEF Inv
<1> QED
  BY <1>3, <1>4, Zenon

\* Both acknowledgements empty the batch and cut its deliveries from unacked.
LEMMA AckInv ==
  ASSUME Inv, Ack
  PROVE  Inv'
<1>1. taken \in 0 .. Len(unacked) /\ Len(unacked) \in Nat
  BY DEF Inv, TypeOK, BatchIsUnacked
<1>2. /\ unacked' = SubSeq(unacked, taken + 1, Len(unacked))
      /\ batch' = << >> /\ taken' = 0 /\ pc' = "receive"
      /\ UNCHANGED <<sent, latest, ready, marking, applied, rejected, dropped, es,
                     searchUpdated, exits>>
  BY Zenon DEF Ack, AckMultiple, history
<1>3. unacked' \in Seq(Msg) /\ Len(unacked') = Len(unacked) - taken
  BY <1>1, <1>2 DEF Inv, TypeOK
<1>4. TypeOK'
  BY <1>1, <1>2, <1>3, IndexerAssumption DEF Inv, TypeOK
<1>5. BatchIsUnacked' /\ SavedIsSettled'
  BY <1>1, <1>2, <1>3 DEF BatchIsUnacked, SavedIsSettled
<1>6. NoLoss'
  <2>1. Ids(unacked) = Ids(SubSeq(unacked, 1, taken)) \cup Ids(unacked')
    BY <1>1, <1>2, IdsSplit, Zenon DEF Inv, TypeOK
  <2>2. \A i \in 1 .. taken : unacked[i].id \in SettledIds
    BY SMTT(20) DEF Inv, TypeOK, Ack, SavedIsSettled, BatchIsUnacked, SettledIds
  <2>3. Ids(SubSeq(unacked, 1, taken)) \subseteq SettledIds
    BY <1>1, <2>2 DEF Ids, Inv, TypeOK
  <2>4. SettledIds' = SettledIds
    BY <1>2, Zenon DEF SettledIds
  <2> QED
    BY <1>2, <2>1, <2>3, <2>4, KeepsAll, Zenon DEF Inv
<1> QED
  BY <1>4, <1>5, <1>6 DEF Inv

LEMMA NackInv ==
  ASSUME Inv, Nack
  PROVE  Inv'
<1>1. taken \in 0 .. Len(unacked) /\ Len(unacked) \in Nat
  BY DEF Inv, TypeOK, BatchIsUnacked
<1>2. /\ unacked' = SubSeq(unacked, taken + 1, Len(unacked))
      /\ ready' = SubSeq(unacked, 1, taken) \o ready
      /\ batch' = << >> /\ taken' = 0 /\ pc' = "receive"
      /\ UNCHANGED <<sent, latest, marking, applied, rejected, dropped, es,
                     searchUpdated, exits>>
  BY Zenon DEF Nack, NackMultiple, history
<1>3. unacked' \in Seq(Msg) /\ Len(unacked') = Len(unacked) - taken
  BY <1>1, <1>2 DEF Inv, TypeOK
<1>4. /\ SubSeq(unacked, 1, taken) \in Seq(Msg)
      /\ Ids(unacked) = Ids(SubSeq(unacked, 1, taken)) \cup Ids(unacked')
  BY <1>1, <1>2, IdsSplit, Zenon DEF Inv, TypeOK
<1>5. ready' \in Seq(Msg) /\ Ids(ready') = Ids(SubSeq(unacked, 1, taken)) \cup Ids(ready)
  BY <1>2, <1>4, ConcatProperties, IdsConcat, Zenon DEF Inv, TypeOK
<1>6. TypeOK'
  BY <1>1, <1>2, <1>3, <1>5, IndexerAssumption DEF Inv, TypeOK
<1>7. BatchIsUnacked' /\ SavedIsSettled'
  BY <1>1, <1>2, <1>3 DEF BatchIsUnacked, SavedIsSettled
<1>8. NoLoss'
  BY <1>2, <1>4, <1>5, KeepsAll, Zenon DEF Inv, SettledIds
<1> QED
  BY <1>6, <1>7, <1>8 DEF Inv

LEMMA ExitInv ==
  ASSUME Inv, Exit
  PROVE  Inv'
<1>1. /\ ready' = unacked \o ready /\ unacked' = << >> /\ exits' = exits + 1
      /\ batch' = << >> /\ taken' = 0 /\ pc' = "receive" /\ marking' = {}
      /\ UNCHANGED <<sent, latest, applied, rejected, dropped, es, searchUpdated>>
  BY Zenon DEF Exit, history
<1>2. ready' \in Seq(Msg) /\ Ids(ready') = Ids(unacked) \cup Ids(ready)
  BY <1>1, ConcatProperties, IdsConcat, Zenon DEF Inv, TypeOK
<1>3. exits' \in 0 .. MaxExits
  BY <1>1, IndexerAssumption DEF Inv, TypeOK, Exit
<1>4. TypeOK'
  BY <1>1, <1>2, <1>3, IndexerAssumption DEF Inv, TypeOK
<1>5. BatchIsUnacked' /\ SavedIsSettled'
  BY <1>1 DEF BatchIsUnacked, SavedIsSettled
<1>6. NoLoss'
  BY <1>1, <1>2, KeepsAll, Zenon DEF Inv, SettledIds
<1> QED
  BY <1>4, <1>5, <1>6 DEF Inv

LEMMA MarkInv ==
  ASSUME Inv, NEW hashes \in marking, MarkSearchUpdated(hashes)
  PROVE  Inv'
<1>1. /\ marking' \subseteq marking /\ searchUpdated' \subseteq searchUpdated \cup hashes
      /\ UNCHANGED <<sent, latest, ready, unacked, taken, pc, batch, applied, rejected,
                     dropped, es, exits>>
  BY Zenon DEF MarkSearchUpdated, broker, history
<1>2. TypeOK'
  <2>1. hashes \subseteq Hashes
    BY Zenon DEF Inv, TypeOK
  <2> QED
    BY <1>1, <2>1, Zenon DEF Inv, TypeOK
<1> QED
  BY <1>1, <1>2, Zenon DEF Inv, BatchIsUnacked, SavedIsSettled, NoLoss, SettledIds

LEMMA NextInv == Inv /\ [Next]_vars => Inv'
<1> SUFFICES ASSUME Inv, [Next]_vars PROVE Inv'
  OBVIOUS
<1>1. CASE UNCHANGED vars
  BY <1>1, Zenon DEF vars, broker, process, history, Inv, TypeOK, BatchIsUnacked, SavedIsSettled,
              NoLoss, SettledIds
<1> QED
  BY <1>1, StoreInv, PublishInv, DeliverInv, ReceiveMalformedInv, ReceiveTorrentInv, BulkInv, AckInv,
     NackInv, MarkInv, ExitInv, Zenon DEF Next

LEMMA InvAlways == Spec => []Inv
BY InitInv, NextInv, PTL DEF Spec

\* Type correctness; in particular a batch never outgrows BatchSize and the
\* broker never has more than the prefetch window outstanding.
THEOREM TypeCorrect == Spec => []TypeOK
<1>1. Inv => TypeOK
  BY Zenon DEF Inv
<1> QED
  BY <1>1, InvAlways, PTL

\* The cumulative Ack or Nack on the last delivery of a batch settles the
\* batch and nothing else.
THEOREM AcksItsBatch == Spec => []BatchIsUnacked
<1>1. Inv => BatchIsUnacked
  BY Zenon DEF Inv
<1> QED
  BY <1>1, InvAlways, PTL

\* No published message is lost by the indexer, through failed and partly
\* applied bulk requests, malformed deliveries and restarts at any point.
THEOREM NothingLost == Spec => []NoLoss
<1>1. Inv => NoLoss
  BY Zenon DEF Inv
<1> QED
  BY <1>1, InvAlways, PTL
-----------------------------------------------------------------------------
(* The index is current.  The argument is about order: what the broker     *)
(* holds is in the order of publication, unacknowledged before waiting,    *)
(* and a cumulative Nack keeps it so only because the batch it returns is  *)
(* all that is unacknowledged (the prefetch window is one batch wide).     *)
(* So once a torrent's newest version has left the broker, no older one    *)
(* is left to be written over it.                                          *)

Msgs(s) == {s[i] : i \in DOMAIN s}
Waiting == Msgs(unacked) \cup Msgs(ready)
Ordered(s) == \A i, j \in DOMAIN s : i < j => s[i].id < s[j].id
Before(S, T) == \A m \in S, n \in T : m.id < n.id
Shown(h) == es[h] = latest[h] \/ \E m \in rejected : m.id = latest[h]
Flaggable(h) == es[h] # 0 \/ \E m \in rejected : m.hash = h

InOrder ==
  /\ Ordered(unacked)
  /\ Ordered(ready)
  /\ Before(Msgs(unacked), Msgs(ready))
  /\ \A m \in Waiting : m.id <= sent

BatchIsWhole ==
  /\ pc # "receive" => taken = BatchSize
  /\ \A i \in DOMAIN batch : batch[i].ok

\* The newest version of a torrent that waits is the one latest names.
NewestWaits ==
  /\ \A h \in Hashes : latest[h] <= sent
  /\ \A m \in Waiting : m.ok => m.id <= latest[m.hash]
  /\ \A m \in Waiting : \A h \in Hashes : m.id = latest[h] => m.ok /\ m.hash = h

NoneLeft(h) == \A m \in Waiting : m.ok => m.hash # h
GoneIsShown ==
  \A h \in Hashes : latest[h] \in {m.id : m \in Waiting} \/ (Shown(h) /\ NoneLeft(h))

SavedIsShown ==
  pc = "ack" =>
    \A i \in DOMAIN batch : batch[i].id = latest[batch[i].hash] => Shown(batch[i].hash)

FlagsEarned == \A h \in searchUpdated \cup UNION marking : Flaggable(h)

OrderInv ==
  InOrder /\ BatchIsWhole /\ NewestWaits /\ GoneIsShown /\ SavedIsShown /\ FlagsEarned
LEMMA MsgsAppend ==
  ASSUME NEW s \in Seq(Msg), NEW x \in Msg
  PROVE  /\ Msgs(Append(s, x)) = Msgs(s) \cup {x}
         /\ Ordered(s) /\ Before(Msgs(s), {x}) => Ordered(Append(s, x))
<1>1. /\ Append(s, x) \in Seq(Msg) /\ Len(Append(s, x)) = Len(s) + 1 /\ Len(s) \in Nat
      /\ \A i \in 1 .. Len(s) : Append(s, x)[i] = s[i]
      /\ Append(s, x)[Len(s) + 1] = x
  BY AppendProperties
<1>2. DOMAIN s = 1 .. Len(s) /\ DOMAIN Append(s, x) = 1 .. Len(s) + 1
  BY <1>1
<1>3. Msgs(Append(s, x)) = Msgs(s) \cup {x}
  BY <1>1, <1>2 DEF Msgs
<1>4. ASSUME Ordered(s), Before(Msgs(s), {x}),
             NEW i \in 1 .. Len(s) + 1, NEW j \in 1 .. Len(s) + 1, i < j
      PROVE  Append(s, x)[i].id < Append(s, x)[j].id
  <2>1. i \in 1 .. Len(s) /\ Append(s, x)[i] = s[i] /\ s[i] \in Msgs(s)
    BY <1>1, <1>2, <1>4 DEF Msgs
  <2>2. CASE j \in 1 .. Len(s)
    BY <1>1, <1>2, <1>4, <2>1, <2>2, Zenon DEF Ordered
  <2>3. CASE j = Len(s) + 1
    BY <1>1, <1>4, <2>1, <2>3, Zenon DEF Before
  <2> QED
    BY <2>2, <2>3
<1> QED
  BY <1>2, <1>3, <1>4, Zenon DEF Ordered

LEMMA MsgsConcat ==
  ASSUME NEW s \in Seq(Msg), NEW t \in Seq(Msg)
  PROVE  /\ s \o t \in Seq(Msg)
         /\ Msgs(s \o t) = Msgs(s) \cup Msgs(t)
         /\ Ordered(s) /\ Ordered(t) /\ Before(Msgs(s), Msgs(t)) => Ordered(s \o t)
<1>1. /\ s \o t \in Seq(Msg) /\ Len(s \o t) = Len(s) + Len(t) /\ Len(s) \in Nat /\ Len(t) \in Nat
      /\ \A i \in 1 .. Len(s) : (s \o t)[i] = s[i]
      /\ \A i \in 1 .. Len(t) : (s \o t)[Len(s) + i] = t[i]
  BY ConcatProperties
<1>2. /\ DOMAIN s = 1 .. Len(s) /\ DOMAIN t = 1 .. Len(t)
      /\ DOMAIN (s \o t) = 1 .. Len(s) + Len(t)
  BY <1>1
<1>3. ASSUME NEW i \in DOMAIN (s \o t)
      PROVE  \/ i \in DOMAIN s /\ (s \o t)[i] = s[i]
             \/ i > Len(s) /\ i - Len(s) \in DOMAIN t /\ (s \o t)[i] = t[i - Len(s)]
  <2>1. CASE i <= Len(s)
    BY <1>1, <1>2, <1>3, <2>1
  <2>2. CASE i > Len(s)
    <3>1. i - Len(s) \in 1 .. Len(t) /\ Len(s) + (i - Len(s)) = i
      BY <1>1, <1>2, <1>3, <2>2
    <3> QED
      BY <1>1, <1>2, <2>2, <3>1, Zenon
  <2> QED
    BY <1>1, <1>2, <1>3, <2>1, <2>2
<1>4. \A i \in DOMAIN s : i \in DOMAIN (s \o t) /\ (s \o t)[i] = s[i]
  BY <1>1, <1>2
<1>5. \A i \in DOMAIN t : Len(s) + i \in DOMAIN (s \o t) /\ (s \o t)[Len(s) + i] = t[i]
  BY <1>1, <1>2
<1>6. Msgs(s \o t) = Msgs(s) \cup Msgs(t)
  <2>1. ASSUME NEW i \in DOMAIN (s \o t) PROVE (s \o t)[i] \in Msgs(s) \cup Msgs(t)
    BY <1>3, <2>1, Zenon DEF Msgs
  <2>2. ASSUME NEW i \in DOMAIN s PROVE s[i] \in Msgs(s \o t)
    BY <1>4, <2>2, Zenon DEF Msgs
  <2>3. ASSUME NEW i \in DOMAIN t PROVE t[i] \in Msgs(s \o t)
    BY <1>5, <2>3, Zenon DEF Msgs
  <2> QED
    BY <2>1, <2>2, <2>3, Zenon DEF Msgs
<1>7. ASSUME Ordered(s), Ordered(t), Before(Msgs(s), Msgs(t)),
             NEW i \in DOMAIN (s \o t), NEW j \in DOMAIN (s \o t), i < j
      PROVE  (s \o t)[i].id < (s \o t)[j].id
  <2>1. CASE i \in DOMAIN s /\ (s \o t)[i] = s[i] /\ j \in DOMAIN s /\ (s \o t)[j] = s[j]
    BY <1>7, <2>1, Zenon DEF Ordered
  <2>2. CASE /\ i \in DOMAIN s /\ (s \o t)[i] = s[i]
             /\ j - Len(s) \in DOMAIN t /\ (s \o t)[j] = t[j - Len(s)]
    BY <1>7, <2>2, SMTT(20) DEF Before, Msgs
  <2>3. CASE /\ i - Len(s) \in DOMAIN t /\ (s \o t)[i] = t[i - Len(s)]
             /\ j - Len(s) \in DOMAIN t /\ (s \o t)[j] = t[j - Len(s)]
    <3>1. i - Len(s) < j - Len(s)
      BY <1>1, <1>2, <1>7
    <3> QED
      BY <1>7, <2>3, <3>1, Zenon DEF Ordered
  <2>4. ~(i > Len(s) /\ j \in DOMAIN s)
    BY <1>1, <1>2, <1>7
  <2> QED
    BY <1>3, <2>1, <2>2, <2>3, <2>4, Zenon
<1> QED
  BY <1>1, <1>6, <1>7, Zenon DEF Ordered

LEMMA MsgsHeadTail ==
  ASSUME NEW s \in Seq(Msg), s # << >>
  PROVE  /\ Msgs(s) = {Head(s)} \cup Msgs(Tail(s))
         /\ Ordered(s) => Ordered(Tail(s)) /\ Before({Head(s)}, Msgs(Tail(s)))
<1>1. /\ Len(s) \in Nat \ {0} /\ DOMAIN s = 1 .. Len(s) /\ Head(s) = s[1]
      /\ DOMAIN Tail(s) = 1 .. Len(s) - 1
      /\ \A i \in 1 .. Len(s) - 1 : Tail(s)[i] = s[i + 1]
  BY HeadTailProperties
<1>2. ASSUME NEW i \in DOMAIN s PROVE s[i] \in {Head(s)} \cup Msgs(Tail(s))
  <2>1. CASE i = 1
    BY <1>1, <2>1, Zenon
  <2>2. CASE i # 1
    <3>1. i - 1 \in DOMAIN Tail(s) /\ Tail(s)[i - 1] = s[i]
      BY <1>1, <2>2
    <3> QED
      BY <3>1, Zenon DEF Msgs
  <2> QED
    BY <2>1, <2>2, Zenon
<1>3. \A i \in DOMAIN Tail(s) : i + 1 \in DOMAIN s /\ Tail(s)[i] = s[i + 1]
  BY <1>1
<1>4. Head(s) \in Msgs(s)
  BY <1>1 DEF Msgs
<1>5. Msgs(s) = {Head(s)} \cup Msgs(Tail(s))
  BY <1>2, <1>3, <1>4 DEF Msgs
<1>6. ASSUME Ordered(s) PROVE Ordered(Tail(s)) /\ Before({Head(s)}, Msgs(Tail(s)))
  BY <1>1, <1>3, <1>6 DEF Ordered, Before, Msgs
<1> QED
  BY <1>5, <1>6, Zenon

LEMMA WaitingType ==
  ASSUME Inv
  PROVE  /\ Msgs(unacked) \subseteq Msg /\ Msgs(ready) \subseteq Msg
         /\ \A m \in Waiting : m \in Msg /\ m.id \in Nat \ {0} /\ m.hash \in Hashes /\ m.ok \in BOOLEAN
         /\ \A i \in DOMAIN batch : batch[i] \in Msgs(unacked)
<1>1. Msgs(unacked) \subseteq Msg /\ Msgs(ready) \subseteq Msg
  BY DEF Inv, TypeOK, Msgs
<1>2. ASSUME NEW m \in Msg PROVE m.id \in Nat \ {0} /\ m.hash \in Hashes /\ m.ok \in BOOLEAN
  BY <1>2, IndexerAssumption DEF Msg
<1>3. ASSUME NEW i \in DOMAIN batch PROVE batch[i] \in Msgs(unacked)
  <2>1. i \in 1 .. taken /\ i \in DOMAIN unacked /\ unacked[i] = batch[i]
    BY <1>3 DEF Inv, TypeOK, BatchIsUnacked
  <2> QED
    BY <2>1, Zenon DEF Msgs
<1> QED
  BY <1>1, <1>2, <1>3, Zenon DEF Waiting

LEMMA InitOrder == Init => OrderInv
<1> SUFFICES ASSUME Init PROVE OrderInv
  OBVIOUS
<1>1. Waiting = {}
  BY DEF Init, Waiting, Msgs
<1>2. InOrder /\ BatchIsWhole
  BY <1>1 DEF Init, InOrder, BatchIsWhole, Ordered, Before, Msgs
<1>3. NewestWaits /\ GoneIsShown
  BY <1>1 DEF Init, NewestWaits, GoneIsShown, Shown, NoneLeft
<1>4. SavedIsShown /\ FlagsEarned
  BY Zenon DEF Init, SavedIsShown, FlagsEarned
<1> QED
  BY <1>2, <1>3, <1>4, Zenon DEF OrderInv

\* A step that keeps what waits, the index and the histories keeps what is
\* said of them.
LEMMA SameWaiting ==
  ASSUME OrderInv, Waiting' = Waiting, UNCHANGED <<sent, latest, es, rejected>>
  PROVE  NewestWaits' /\ GoneIsShown'
<1>1. \A h \in Hashes : (Shown(h) => Shown(h)') /\ (NoneLeft(h) => NoneLeft(h)')
  BY Zenon DEF Shown, NoneLeft
<1>2. NewestWaits'
  BY Zenon DEF OrderInv, NewestWaits
<1> QED
  BY <1>1, <1>2, Zenon DEF OrderInv, GoneIsShown

\* A step that touches the flags only.
LEMMA SameBroker ==
  ASSUME OrderInv, UNCHANGED <<sent, latest, ready, unacked, taken, pc, batch, rejected, es>>
  PROVE  InOrder' /\ BatchIsWhole' /\ NewestWaits' /\ GoneIsShown' /\ SavedIsShown'
<1>1. Waiting' = Waiting /\ Msgs(unacked)' = Msgs(unacked) /\ Msgs(ready)' = Msgs(ready)
  BY Zenon DEF Waiting, Msgs
<1>2. InOrder'
  BY <1>1, Zenon DEF OrderInv, InOrder, Ordered, Before
<1>3. BatchIsWhole' /\ SavedIsShown'
  BY Zenon DEF OrderInv, BatchIsWhole, SavedIsShown, Shown
<1> QED
  BY <1>1, <1>2, <1>3, SameWaiting, Zenon

LEMMA StoreOrder ==
  ASSUME OrderInv, NEW h \in Hashes, Store(h)
  PROVE  OrderInv'
<1>1. /\ searchUpdated' \subseteq searchUpdated
      /\ UNCHANGED <<sent, latest, ready, unacked, taken, pc, batch, marking, rejected, es>>
  BY Zenon DEF Store, broker, process, history
<1>2. FlagsEarned'
  BY <1>1, Zenon DEF OrderInv, FlagsEarned, Flaggable
<1> QED
  BY <1>1, <1>2, SameBroker, Zenon DEF OrderInv

LEMMA PublishOrder ==
  ASSUME Inv, OrderInv, NEW h \in Hashes, Publish(h) \/ PublishMalformed(h)
  PROVE  OrderInv'
<1>1. PICK b \in BOOLEAN :
        /\ ready' = Append(ready, [id |-> sent + 1, hash |-> h, ok |-> b])
        /\ b => latest' = [latest EXCEPT ![h] = sent + 1]
        /\ ~b => latest' = latest
  BY Zenon DEF Publish, PublishMalformed
<1> DEFINE m == [id |-> sent + 1, hash |-> h, ok |-> b]
<1>2. m \in Msg /\ m.id = sent + 1 /\ m.hash = h /\ m.ok = b
  BY IndexerAssumption DEF Msg, Inv, TypeOK, Publish, PublishMalformed
<1>3. ready' = Append(ready, m)
  BY <1>1, Zenon
<1> HIDE DEF m
<1>4. /\ sent' = sent + 1 /\ sent \in Nat
      /\ UNCHANGED <<unacked, taken, pc, batch, marking, rejected, es, searchUpdated>>
  BY DEF Publish, PublishMalformed, process, history, Inv, TypeOK
<1>5. \A x \in Waiting : x.id \in Nat /\ x.id <= sent
  BY WaitingType, Zenon DEF OrderInv, InOrder
<1>6. Msgs(ready') = Msgs(ready) \cup {m} /\ Msgs(unacked') = Msgs(unacked)
  BY <1>2, <1>3, <1>4, MsgsAppend, Zenon DEF Inv, TypeOK
<1>7. Waiting' = Waiting \cup {m}
  BY <1>6, Zenon DEF Waiting
<1>8. InOrder'
  <2>1. Before(Msgs(ready), {m}) /\ Before(Msgs(unacked), {m})
    BY <1>2, <1>4, <1>5 DEF Before, Waiting
  <2>2. Ordered(ready')
    BY <1>2, <1>3, <2>1, MsgsAppend, Zenon DEF Inv, TypeOK, OrderInv, InOrder
  <2>3. Before(Msgs(unacked'), Msgs(ready'))
    BY <1>6, <2>1, Zenon DEF Before, OrderInv, InOrder
  <2>4. \A x \in Waiting' : x.id <= sent'
    BY <1>2, <1>4, <1>5, <1>7
  <2> QED
    BY <1>4, <2>2, <2>3, <2>4, Zenon DEF OrderInv, InOrder
<1>9. \A k \in Hashes : /\ latest[k] \in Nat /\ latest[k] <= sent
                        /\ latest'[k] = IF b /\ k = h THEN sent + 1 ELSE latest[k]
  BY <1>1, IndexerAssumption, SMTT(20) DEF Inv, TypeOK, OrderInv, NewestWaits
<1>10. NewestWaits'
  <2>1. \A k \in Hashes : latest'[k] <= sent'
    BY <1>4, <1>9
  <2>2. ASSUME NEW x \in Waiting', x.ok PROVE x.id <= latest'[x.hash]
    <3>1. CASE x = m
      BY <1>2, <1>4, <1>9, <2>2, <3>1
    <3>2. CASE x \in Waiting
      BY <1>4, <1>5, <1>9, <2>2, <3>2, WaitingType DEF OrderInv, NewestWaits
    <3> QED
      BY <1>7, <3>1, <3>2, Zenon
  <2>3. ASSUME NEW x \in Waiting', NEW k \in Hashes, x.id = latest'[k] PROVE x.ok /\ x.hash = k
    <3>1. CASE x = m
      BY <1>2, <1>4, <1>9, <2>3, <3>1
    <3>2. CASE x \in Waiting
      BY <1>4, <1>5, <1>9, <2>3, <3>2 DEF OrderInv, NewestWaits
    <3> QED
      BY <1>7, <3>1, <3>2, Zenon
  <2> QED
    BY <2>1, <2>2, <2>3, Zenon DEF NewestWaits
<1>11. GoneIsShown'
  <2> SUFFICES ASSUME NEW k \in Hashes
               PROVE  latest'[k] \in {x.id : x \in Waiting'} \/ (Shown(k)' /\ NoneLeft(k)')
    BY Zenon DEF GoneIsShown
  <2>1. CASE b /\ k = h
    BY <1>2, <1>7, <1>9, <2>1
  <2>2. CASE ~(b /\ k = h)
    <3>1. latest'[k] = latest[k]
      BY <1>9, <2>2, Zenon
    <3>2. Shown(k) => Shown(k)'
      BY <1>4, <3>1, Zenon DEF Shown
    <3>3. NoneLeft(k) => NoneLeft(k)'
      BY <1>2, <1>7, <2>2, Zenon DEF NoneLeft
    <3> QED
      BY <1>7, <3>1, <3>2, <3>3, Zenon DEF OrderInv, GoneIsShown
  <2> QED
    BY <2>1, <2>2, Zenon
<1>12. SavedIsShown'
  <2>1. ASSUME pc = "ack", NEW i \in DOMAIN batch, batch[i].id = latest'[batch[i].hash]
        PROVE  \/ es[batch[i].hash] = latest'[batch[i].hash]
               \/ \E x \in rejected : x.id = latest'[batch[i].hash]
    <3>1. batch[i] \in Waiting /\ batch[i].hash \in Hashes
      BY <2>1, WaitingType, Zenon DEF Waiting
    <3>2. latest'[batch[i].hash] = latest[batch[i].hash]
      BY <1>4, <1>5, <1>9, <2>1, <3>1
    <3> QED
      BY <2>1, <3>1, <3>2, Zenon DEF OrderInv, SavedIsShown, Shown
  <2> QED
    BY <1>4, <2>1, Zenon DEF SavedIsShown, Shown
<1>13. BatchIsWhole' /\ FlagsEarned'
  BY <1>4, Zenon DEF OrderInv, BatchIsWhole, FlagsEarned, Flaggable
<1> QED
  BY <1>8, <1>10, <1>11, <1>12, <1>13, Zenon DEF OrderInv

LEMMA DeliverOrder ==
  ASSUME Inv, OrderInv, Deliver
  PROVE  OrderInv'
<1>1. /\ ready # << >> /\ ready \in Seq(Msg) /\ unacked \in Seq(Msg)
      /\ Head(ready) \in Msg
      /\ unacked' = Append(unacked, Head(ready)) /\ ready' = Tail(ready)
      /\ UNCHANGED <<sent, latest, taken, pc, batch, marking, rejected, es, searchUpdated>>
  BY HeadTailProperties, Zenon DEF Inv, TypeOK, Deliver, process, history
<1>2. /\ Msgs(ready) = {Head(ready)} \cup Msgs(ready') /\ Ordered(ready')
      /\ Before({Head(ready)}, Msgs(ready'))
  BY <1>1, MsgsHeadTail, Zenon DEF OrderInv, InOrder
<1>3. Before(Msgs(unacked), {Head(ready)}) /\ Before(Msgs(unacked), Msgs(ready'))
  BY <1>2, Zenon DEF Before, OrderInv, InOrder
<1>4. Msgs(unacked') = Msgs(unacked) \cup {Head(ready)} /\ Ordered(unacked')
  BY <1>1, <1>3, MsgsAppend, Zenon DEF OrderInv, InOrder
<1>5. Waiting' = Waiting
  BY <1>2, <1>4, Zenon DEF Waiting
<1>6. Before(Msgs(unacked'), Msgs(ready'))
  BY <1>2, <1>3, <1>4, Zenon DEF Before
<1>7. InOrder'
  BY <1>1, <1>2, <1>4, <1>5, <1>6, Zenon DEF OrderInv, InOrder
<1>8. BatchIsWhole' /\ FlagsEarned' /\ SavedIsShown'
  BY <1>1, Zenon DEF OrderInv, BatchIsWhole, FlagsEarned, Flaggable, SavedIsShown, Shown
<1> QED
  BY <1>1, <1>5, <1>7, <1>8, SameWaiting, Zenon DEF OrderInv

LEMMA ReceiveMalformedTakes ==
  ASSUME Inv, OrderInv, ReceiveMalformed
  PROVE  /\ Msgs(unacked') \subseteq Msgs(unacked) /\ Ordered(unacked')
         /\ Waiting' \subseteq Waiting
         /\ \E m \in Waiting : ~m.ok /\ Waiting \subseteq Waiting' \cup {m}
<1> DEFINE m == unacked[taken + 1]
           front == SubSeq(unacked, 1, taken)
           back == SubSeq(unacked, taken + 2, Len(unacked))
<1>1. /\ taken \in 0 .. Len(unacked) - 1 /\ Len(unacked) \in Nat
      /\ unacked \in Seq(Msg) /\ DOMAIN unacked = 1 .. Len(unacked) /\ ~m.ok
      /\ unacked' = front \o back
      /\ UNCHANGED <<sent, latest, ready, taken, pc, batch, marking, rejected, es, searchUpdated>>
  BY DEF Inv, TypeOK, ReceiveMalformed, process
<1>2. /\ front \in Seq(Msg) /\ DOMAIN front = 1 .. taken
      /\ \A i \in 1 .. taken : front[i] = unacked[i]
  BY <1>1
<1>3. /\ back \in Seq(Msg) /\ DOMAIN back = 1 .. Len(unacked) - taken - 1
      /\ \A i \in 1 .. Len(unacked) - taken - 1 : back[i] = unacked[taken + 1 + i]
  BY <1>1
<1>4. Ordered(front) /\ Ordered(back) /\ Before(Msgs(front), Msgs(back))
  <2>1. Ordered(unacked)
    BY Zenon DEF OrderInv, InOrder
  <2> HIDE DEF front, back
  <2>2. Ordered(front)
    BY <1>1, <1>2, <2>1 DEF Ordered
  <2>3. ASSUME NEW i \in DOMAIN back, NEW j \in DOMAIN back, i < j
        PROVE  back[i].id < back[j].id
    <3>1. /\ taken + 1 + i \in DOMAIN unacked /\ taken + 1 + j \in DOMAIN unacked
          /\ taken + 1 + i < taken + 1 + j
      BY <1>1, <1>3, <2>3, SMTT(20)
    <3> QED
      BY <1>3, <2>1, <2>3, <3>1, Zenon DEF Ordered
  <2>4. ASSUME NEW i \in DOMAIN front, NEW j \in DOMAIN back PROVE front[i].id < back[j].id
    <3>1. i \in DOMAIN unacked /\ taken + 1 + j \in DOMAIN unacked /\ i < taken + 1 + j
      BY <1>1, <1>2, <1>3, <2>4
    <3> QED
      BY <1>2, <1>3, <2>1, <2>4, <3>1, Zenon DEF Ordered
  <2> QED
    BY <2>2, <2>3, <2>4, Zenon DEF Ordered, Before, Msgs
<1>5. Msgs(unacked') = Msgs(front) \cup Msgs(back) /\ Ordered(unacked')
  <2> HIDE DEF front, back
  <2> QED
    BY <1>1, <1>2, <1>3, <1>4, MsgsConcat, Zenon
<1>6. Msgs(unacked') \subseteq Msgs(unacked) /\ Msgs(unacked) \subseteq Msgs(unacked') \cup {m}
  <2> HIDE DEF front, back
  <2>1. ASSUME NEW i \in DOMAIN front PROVE front[i] \in Msgs(unacked)
    BY <1>1, <1>2, <2>1 DEF Msgs
  <2>2. ASSUME NEW i \in DOMAIN back PROVE back[i] \in Msgs(unacked)
    <3>1. taken + 1 + i \in DOMAIN unacked /\ back[i] = unacked[taken + 1 + i]
      <4>1. i \in 1 .. Len(unacked) - taken - 1
        BY <1>3, <2>2, Zenon
      <4>2. taken + 1 + i \in 1 .. Len(unacked)
        BY <1>1, <4>1
      <4>3. back[i] = unacked[taken + 1 + i]
        BY <1>3, <4>1, Zenon
      <4> QED
        BY <1>1, <4>2, <4>3, Zenon
    <3> QED
      BY <3>1, Zenon DEF Msgs
  <2>3. ASSUME NEW i \in DOMAIN unacked PROVE unacked[i] \in Msgs(front) \cup Msgs(back) \cup {m}
    <3>1. CASE i <= taken
      BY <1>1, <1>2, <2>3, <3>1 DEF Msgs
    <3>2. CASE i = taken + 1
      BY <3>2, Zenon
    <3>3. CASE i > taken + 1
      <4>1. i - taken - 1 \in DOMAIN back /\ back[i - taken - 1] = unacked[i]
        BY <1>1, <1>3, <2>3, <3>3
      <4> QED
        BY <4>1, Zenon DEF Msgs
    <3> QED
      BY <1>1, <2>3, <3>1, <3>2, <3>3
  <2> QED
    BY <1>5, <2>1, <2>2, <2>3, Zenon DEF Msgs
<1> HIDE DEF m, front, back
<1>7. Waiting' \subseteq Waiting /\ Waiting \subseteq Waiting' \cup {m} /\ m \in Waiting
  <2>1. m \in Msgs(unacked)
    BY <1>1, SMTT(20) DEF m, Msgs
  <2> QED
    BY <1>1, <1>6, <2>1, Zenon DEF Waiting
<1> QED
  BY <1>1, <1>5, <1>6, <1>7, Zenon

LEMMA ReceiveMalformedOrder ==
  ASSUME Inv, OrderInv, ReceiveMalformed
  PROVE  OrderInv'
<1>1. UNCHANGED <<sent, latest, ready, taken, pc, batch, marking, rejected, es, searchUpdated>>
  BY Zenon DEF ReceiveMalformed, process
<1>2. /\ Msgs(unacked') \subseteq Msgs(unacked) /\ Ordered(unacked')
      /\ Waiting' \subseteq Waiting
  BY ReceiveMalformedTakes, Zenon
<1>3. PICK m \in Waiting : ~m.ok /\ Waiting \subseteq Waiting' \cup {m}
  BY ReceiveMalformedTakes, Zenon
<1>4. InOrder'
  BY <1>1, <1>2, Zenon DEF OrderInv, InOrder, Before
<1>5. NewestWaits'
  BY <1>1, <1>2, Zenon DEF OrderInv, NewestWaits
<1>6. GoneIsShown'
  <2>1. \A h \in Hashes : m.id # latest[h]
    BY <1>1, <1>3, Zenon DEF OrderInv, NewestWaits
  <2>2. \A h \in Hashes : (Shown(h) => Shown(h)') /\ (NoneLeft(h) => NoneLeft(h)')
    BY <1>1, <1>2, Zenon DEF Shown, NoneLeft
  <2>3. \A h \in Hashes : latest[h] \in {x.id : x \in Waiting} => latest[h] \in {x.id : x \in Waiting'}
    BY <1>3, <2>1, Zenon
  <2> QED
    BY <1>1, <2>2, <2>3, Zenon DEF OrderInv, GoneIsShown
<1>7. BatchIsWhole' /\ FlagsEarned' /\ SavedIsShown'
  BY <1>1, Zenon DEF OrderInv, BatchIsWhole, FlagsEarned, Flaggable, SavedIsShown, Shown
<1> QED
  BY <1>4, <1>5, <1>6, <1>7, Zenon DEF OrderInv

LEMMA ReceiveTorrentOrder ==
  ASSUME Inv, OrderInv, ReceiveTorrent
  PROVE  OrderInv'
<1>1. /\ taken < Len(unacked) /\ Len(unacked) \in Nat /\ Len(unacked) <= BatchSize
      /\ taken \in Nat /\ taken = Len(batch) /\ batch \in Seq(Msg)
      /\ unacked[taken + 1] \in Msg /\ unacked[taken + 1].ok
      /\ batch' = Append(batch, unacked[taken + 1]) /\ taken' = taken + 1
      /\ pc' = IF Len(batch) + 1 >= BatchSize THEN "save" ELSE "receive"
      /\ UNCHANGED <<sent, latest, ready, unacked, marking, rejected, es, searchUpdated>>
  BY DEF Inv, TypeOK, BatchIsUnacked, ReceiveTorrent, broker, history
<1>2. \A i \in DOMAIN batch' : batch'[i].ok
  <2>1. \A i \in DOMAIN batch' : \/ i \in DOMAIN batch /\ batch'[i] = batch[i]
                                 \/ batch'[i] = unacked[taken + 1]
    BY <1>1, AppendProperties
  <2> QED
    BY <1>1, <2>1, Zenon DEF OrderInv, BatchIsWhole
<1>3. pc' # "receive" => taken' = BatchSize
  BY <1>1, IndexerAssumption
<1>4. BatchIsWhole' /\ SavedIsShown'
  BY <1>1, <1>2, <1>3, Zenon DEF BatchIsWhole, SavedIsShown
<1>5. Waiting' = Waiting /\ InOrder'
  BY <1>1 DEF OrderInv, InOrder, Waiting, Msgs, Ordered, Before
<1>6. FlagsEarned'
  BY <1>1, Zenon DEF OrderInv, FlagsEarned, Flaggable
<1> QED
  BY <1>1, <1>4, <1>5, <1>6, SameWaiting, Zenon DEF OrderInv

\* What Apply does to one torrent.
LEMMA ApplyTop ==
  ASSUME Inv, NEW items \in SUBSET DOMAIN batch, Apply(items), NEW h \in Hashes
  PROVE  \/ es'[h] = es[h] /\ \A i \in items : batch[i].hash # h
         \/ \E top \in items : /\ batch[top].hash = h /\ es'[h] = batch[top].id
                               /\ \A j \in items : batch[j].hash = h => j <= top
<1> DEFINE hits == {i \in items : batch[i].hash = h}
<1> DEFINE top == CHOOSE i \in hits : \A j \in hits : j <= i
<1>1. es'[h] = IF hits = {} THEN es[h] ELSE batch[top].id
  BY Zenon DEF Apply
<1>2. CASE hits = {}
  BY <1>1, <1>2, Zenon
<1>3. CASE hits # {}
  <2>1. hits \in SUBSET (1 .. Len(batch)) /\ Len(batch) \in Nat
    BY DEF Inv, TypeOK
  <2>2. top \in hits /\ \A j \in hits : j <= top
    <3> HIDE DEF hits
    <3>1. \E i \in hits : \A j \in hits : j <= i
      BY <1>3, <2>1, LargestIndex, Zenon
    <3> QED
      BY <3>1, Zenon
  <2>3. es'[h] = batch[top].id
    BY <1>1, <1>3, Zenon
  <2> HIDE DEF top
  <2>4. top \in items /\ batch[top].hash = h /\ \A j \in items : batch[j].hash = h => j <= top
    BY <2>2, Zenon
  <2> QED
    BY <2>3, <2>4, Zenon
<1> QED
  BY <1>2, <1>3, Zenon

LEMMA BulkOrder ==
  ASSUME Inv, OrderInv, NEW items \in SUBSET DOMAIN batch, BulkFails(items) \/ BulkSucceeds(items)
  PROVE  OrderInv'
<1>1. /\ Apply(items) /\ pc = "save" /\ rejected \subseteq rejected'
      /\ UNCHANGED <<sent, latest, ready, unacked, taken, batch, searchUpdated>>
  BY Zenon DEF BulkFails, BulkSucceeds, broker
<1>2. \A i \in DOMAIN batch : /\ batch[i] \in Waiting /\ batch[i].ok
                              /\ batch[i].id \in Nat \ {0} /\ batch[i].hash \in Hashes
  BY WaitingType, Zenon DEF Waiting, OrderInv, BatchIsWhole
<1>3. \A h \in Hashes : NoneLeft(h) => es'[h] = es[h]
  <2> SUFFICES ASSUME NEW h \in Hashes, NoneLeft(h) PROVE es'[h] = es[h]
    OBVIOUS
  <2>1. \A i \in items : batch[i].hash # h
    BY <1>2, Zenon DEF NoneLeft
  <2> QED
    BY <1>1, <2>1, ApplyTop, Zenon
<1>4. Waiting' = Waiting /\ InOrder' /\ NewestWaits'
  <2>1. Waiting' = Waiting /\ Msgs(unacked)' = Msgs(unacked) /\ Msgs(ready)' = Msgs(ready)
    BY <1>1, Zenon DEF Waiting, Msgs
  <2>2. InOrder'
    BY <1>1, <2>1, Zenon DEF OrderInv, InOrder, Ordered, Before
  <2> QED
    BY <1>1, <2>1, <2>2, Zenon DEF OrderInv, NewestWaits
<1>5. GoneIsShown'
  <2>1. \A h \in Hashes : Shown(h) /\ NoneLeft(h) => Shown(h)' /\ NoneLeft(h)'
    BY <1>1, <1>3, <1>4, Zenon DEF Shown, NoneLeft
  <2> QED
    BY <1>1, <1>4, <2>1, Zenon DEF OrderInv, GoneIsShown
<1>6. BatchIsWhole'
  BY <1>1, Zenon DEF OrderInv, BatchIsWhole
<1>7. \A h \in Hashes : Flaggable(h) => Flaggable(h)'
  <2> SUFFICES ASSUME NEW h \in Hashes, Flaggable(h) PROVE Flaggable(h)'
    OBVIOUS
  <2>1. es'[h] = es[h] \/ es'[h] # 0
    BY <1>1, <1>2, ApplyTop
  <2> QED
    BY <1>1, <2>1, Zenon DEF Flaggable
<1>8. searchUpdated \subseteq Hashes /\ UNION marking \subseteq Hashes
  BY Zenon DEF Inv, TypeOK
<1>9. CASE BulkFails(items)
  <2>1. pc' = "nack" /\ marking' = marking
    BY <1>9, Zenon DEF BulkFails
  <2>2. FlagsEarned'
    BY <1>1, <1>7, <1>8, <2>1, Zenon DEF OrderInv, FlagsEarned
  <2> QED
    BY <1>4, <1>5, <1>6, <2>1, <2>2, Zenon DEF OrderInv, SavedIsShown
<1>10. CASE BulkSucceeds(items)
  <2>1. /\ marking' = marking \cup {{batch[i].hash : i \in DOMAIN batch}}
        /\ rejected' = rejected \cup {batch[i] : i \in DOMAIN batch \ items}
    BY <1>10, Zenon DEF BulkSucceeds
  <2>2. ASSUME NEW i \in DOMAIN batch PROVE Flaggable(batch[i].hash)'
    <3>1. CASE i \in items
      <4>1. es'[batch[i].hash] # 0
        BY <1>1, <1>2, <3>1, ApplyTop
      <4> QED
        BY <1>1, <4>1, Zenon DEF Flaggable
    <3>2. CASE i \notin items
      BY <1>1, <2>1, <2>2, <3>2, Zenon DEF Flaggable
    <3> QED
      BY <3>1, <3>2, Zenon
  <2>3. FlagsEarned'
    <3>1. ASSUME NEW h \in searchUpdated' \cup UNION marking' PROVE Flaggable(h)'
      <4>1. CASE h \in searchUpdated \cup UNION marking
        BY <1>7, <1>8, <4>1, Zenon DEF OrderInv, FlagsEarned
      <4>2. CASE h \in {batch[i].hash : i \in DOMAIN batch}
        <5>1. PICK i \in DOMAIN batch : h = batch[i].hash
          BY <4>2, Zenon
        <5>2. Flaggable(batch[i].hash)'
          BY <2>2, Zenon
        <5> QED
          BY <1>1, <5>1, <5>2, Zenon DEF Flaggable
      <4> QED
        BY <1>1, <2>1, <3>1, <4>1, <4>2, Zenon
    <3> QED
      BY <3>1, Zenon DEF FlagsEarned
  <2>4. ASSUME NEW i \in DOMAIN batch, batch[i].id = latest[batch[i].hash]
        PROVE  es'[batch[i].hash] = latest[batch[i].hash] \/ batch[i] \in rejected'
    <3>1. CASE i \notin items
      BY <2>1, <2>4, <3>1, Zenon
    <3>2. CASE i \in items
      <4>1. PICK top \in items : /\ batch[top].hash = batch[i].hash
                                 /\ es'[batch[i].hash] = batch[top].id /\ i <= top
        BY <1>1, <1>2, <3>2, ApplyTop, SMTT(20)
      <4>2. batch[top].id <= batch[i].id
        BY <1>2, <2>4, <4>1 DEF OrderInv, NewestWaits
      <4>3. ~(i < top)
        <5>1. /\ i \in DOMAIN unacked /\ top \in DOMAIN unacked
              /\ unacked[i] = batch[i] /\ unacked[top] = batch[top]
          BY <2>4, <4>1, BatchAtFront, Zenon DEF Inv
        <5>2. i < top => batch[i].id < batch[top].id
          BY <5>1, SMTT(20) DEF OrderInv, InOrder, Ordered
        <5> QED
          BY <1>2, <4>1, <4>2, <5>2, SMTT(20)
      <4>4. i = top
        BY <4>1, <4>3 DEF Inv, TypeOK
      <4> QED
        BY <2>4, <4>1, <4>4, SMTT(20)
    <3> QED
      BY <3>1, <3>2, Zenon
  <2>5. SavedIsShown'
    BY <1>1, <2>4, Zenon DEF SavedIsShown, Shown
  <2> QED
    BY <1>4, <1>5, <1>6, <2>3, <2>5, Zenon DEF OrderInv, BatchIsWhole
<1> QED
  BY <1>9, <1>10, Zenon

\* A batch that has been sent is all that is unacknowledged.
LEMMA WholeWindow ==
  ASSUME Inv, OrderInv, pc # "receive"
  PROVE  taken = Len(unacked) /\ Len(unacked) \in Nat
BY IndexerAssumption DEF Inv, TypeOK, BatchIsUnacked, OrderInv, BatchIsWhole

LEMMA AckTakes ==
  ASSUME Inv, OrderInv, Ack
  PROVE  /\ pc = "ack" /\ unacked' = << >> /\ batch' = << >> /\ taken' = 0 /\ pc' = "receive"
         /\ UNCHANGED <<sent, latest, ready, marking, rejected, es, searchUpdated>>
<1>1. pc = "ack" /\ unacked' = SubSeq(unacked, taken + 1, Len(unacked))
  BY Zenon DEF Ack, AckMultiple
<1>2. unacked' = << >>
  BY <1>1, WholeWindow DEF Inv, TypeOK
<1> QED
  BY <1>1, <1>2, Zenon DEF Ack, AckMultiple, history

LEMMA AckOrder ==
  ASSUME Inv, OrderInv, Ack
  PROVE  OrderInv'
<1>1. /\ pc = "ack" /\ unacked' = << >> /\ batch' = << >> /\ taken' = 0 /\ pc' = "receive"
      /\ UNCHANGED <<sent, latest, ready, marking, rejected, es, searchUpdated>>
  BY AckTakes, Zenon
<1>2. Msgs(unacked') = {} /\ Waiting' = Msgs(ready) /\ Waiting' \subseteq Waiting
  BY <1>1 DEF Msgs, Waiting
<1>3. InOrder' /\ NewestWaits' /\ BatchIsWhole' /\ SavedIsShown'
  <2>1. InOrder'
    BY <1>1, <1>2 DEF OrderInv, InOrder, Ordered, Before
  <2> QED
    BY <1>1, <1>2, <2>1 DEF OrderInv, NewestWaits, BatchIsWhole, SavedIsShown
<1>4. FlagsEarned'
  BY <1>1, Zenon DEF OrderInv, FlagsEarned, Flaggable
<1>5. GoneIsShown'
  <2> SUFFICES ASSUME NEW h \in Hashes
               PROVE  latest[h] \in {m.id : m \in Waiting'} \/ (Shown(h) /\ NoneLeft(h)')
    BY <1>1, Zenon DEF GoneIsShown, Shown
  <2>1. CASE Shown(h) /\ NoneLeft(h)
    BY <1>2, <2>1, Zenon DEF NoneLeft
  <2>2. CASE latest[h] \in {m.id : m \in Msgs(ready)}
    BY <1>2, <2>2, Zenon
  <2>3. CASE latest[h] \in {m.id : m \in Msgs(unacked)}
    <3>1. PICK i \in DOMAIN unacked : unacked[i].id = latest[h]
      BY <2>3, Zenon DEF Msgs
    <3>2. unacked[i] \in Waiting /\ unacked[i] \in Msgs(unacked)
      BY <3>1, Zenon DEF Waiting, Msgs
    <3>3. unacked[i].hash = h
      BY <3>1, <3>2, Zenon DEF OrderInv, NewestWaits
    <3>4. i \in DOMAIN batch /\ batch[i] = unacked[i]
      <4>1. taken = Len(unacked)
        BY <1>1, WholeWindow, Zenon
      <4>2. i \in 1 .. taken /\ taken = Len(batch)
        BY <3>1, <4>1 DEF Inv, TypeOK, BatchIsUnacked
      <4> QED
        BY <4>2 DEF Inv, TypeOK, BatchIsUnacked
    <3>5. Shown(h)
      BY <1>1, <3>1, <3>3, <3>4, Zenon DEF OrderInv, SavedIsShown
    <3>6. ASSUME NEW m \in Msgs(ready), m.ok, m.hash = h PROVE FALSE
      <4>1. m \in Waiting /\ m.id <= latest[h] /\ latest[h] < m.id
        BY <3>1, <3>2, <3>6, Zenon DEF Waiting, OrderInv, NewestWaits, InOrder, Before
      <4> QED
        BY <4>1, WaitingType DEF Inv, TypeOK
    <3> QED
      BY <1>2, <3>5, <3>6, Zenon DEF NoneLeft
  <2> QED
    BY <2>1, <2>2, <2>3, Zenon DEF OrderInv, GoneIsShown, Waiting
<1> QED
  BY <1>3, <1>4, <1>5, Zenon DEF OrderInv

LEMMA RequeueTakes ==
  ASSUME Inv, OrderInv, Nack \/ Exit
  PROVE  /\ Waiting' = Waiting /\ Ordered(ready') /\ unacked' = << >>
         /\ batch' = << >> /\ pc' = "receive" /\ marking' \subseteq marking
         /\ UNCHANGED <<sent, latest, rejected, es, searchUpdated>>
<1>1. /\ ready' = unacked \o ready /\ unacked' = << >> /\ batch' = << >> /\ pc' = "receive"
      /\ marking' \subseteq marking
      /\ UNCHANGED <<sent, latest, rejected, es, searchUpdated>>
  <2>1. CASE Nack
    <3>1. /\ unacked' = SubSeq(unacked, taken + 1, Len(unacked))
          /\ ready' = SubSeq(unacked, 1, taken) \o ready /\ pc = "nack"
      BY <2>1, Zenon DEF Nack, NackMultiple
    <3>2. unacked' = << >> /\ SubSeq(unacked, 1, taken) = unacked
      BY <3>1, WholeWindow, SubSeqFull DEF Inv, TypeOK
    <3> QED
      BY <2>1, <3>1, <3>2, Zenon DEF Nack, history
  <2>2. CASE Exit
    BY <2>2, Zenon DEF Exit, history
  <2> QED
    BY <2>1, <2>2, Zenon
<1>2. Msgs(ready') = Msgs(unacked) \cup Msgs(ready) /\ Ordered(ready')
  BY <1>1, MsgsConcat, Zenon DEF Inv, TypeOK, OrderInv, InOrder
<1>3. Msgs(unacked') = {}
  BY <1>1 DEF Msgs
<1>4. Waiting' = Waiting
  BY <1>2, <1>3, Zenon DEF Waiting
<1> QED
  BY <1>1, <1>2, <1>4, Zenon

LEMMA RequeueOrder ==
  ASSUME Inv, OrderInv, Nack \/ Exit
  PROVE  OrderInv'
<1>1. /\ Waiting' = Waiting /\ Ordered(ready') /\ unacked' = << >>
      /\ batch' = << >> /\ pc' = "receive" /\ marking' \subseteq marking
      /\ UNCHANGED <<sent, latest, rejected, es, searchUpdated>>
  BY RequeueTakes, Zenon
<1>2. Msgs(unacked') = {} /\ Ordered(unacked')
  BY <1>1 DEF Msgs, Ordered
<1>3. InOrder'
  BY <1>1, <1>2, Zenon DEF OrderInv, InOrder, Before
<1>4. BatchIsWhole' /\ SavedIsShown' /\ FlagsEarned'
  <2>1. FlagsEarned'
    BY <1>1, Zenon DEF OrderInv, FlagsEarned, Flaggable
  <2> QED
    BY <1>1, <2>1 DEF BatchIsWhole, SavedIsShown
<1> QED
  BY <1>1, <1>3, <1>4, SameWaiting, Zenon DEF OrderInv

LEMMA MarkOrder ==
  ASSUME OrderInv, NEW hashes \in marking, MarkSearchUpdated(hashes)
  PROVE  OrderInv'
<1>1. /\ marking' \subseteq marking /\ searchUpdated' \subseteq searchUpdated \cup hashes
      /\ UNCHANGED <<sent, latest, ready, unacked, taken, pc, batch, rejected, es>>
  BY Zenon DEF MarkSearchUpdated, broker, history
<1>2. FlagsEarned'
  BY <1>1, Zenon DEF OrderInv, FlagsEarned, Flaggable
<1> QED
  BY <1>1, <1>2, SameBroker, Zenon DEF OrderInv

LEMMA NextOrder == Inv /\ OrderInv /\ [Next]_vars => OrderInv'
<1> SUFFICES ASSUME Inv, OrderInv, [Next]_vars PROVE OrderInv'
  BY Zenon
<1>1. CASE UNCHANGED vars
  <2>1. UNCHANGED <<sent, latest, ready, unacked, taken, pc, batch, marking, rejected, es, searchUpdated>>
    BY <1>1, Zenon DEF vars, broker, process, history
  <2>2. FlagsEarned'
    BY <2>1, Zenon DEF OrderInv, FlagsEarned, Flaggable
  <2> QED
    BY <2>1, <2>2, SameBroker, Zenon DEF OrderInv
<1> QED
  BY <1>1, StoreOrder, PublishOrder, DeliverOrder, ReceiveMalformedOrder, ReceiveTorrentOrder,
     BulkOrder, AckOrder, RequeueOrder, MarkOrder, Zenon DEF Next

LEMMA OrderAlways == Spec => [](Inv /\ OrderInv)
<1>1. Inv /\ OrderInv /\ [Next]_vars => Inv' /\ OrderInv'
  BY NextInv, NextOrder, Zenon
<1> QED
  BY <1>1, InitInv, InitOrder, PTL DEF Spec

\* A redelivered older version never ends up over a newer one: the index
\* shows a torrent's newest version unless that is still with the broker or
\* was refused, for any batch size, failures and restarts.
THEOREM IndexCurrent == Spec => []IndexIsCurrent
<1>1. Inv /\ OrderInv => IndexIsCurrent
  <2> SUFFICES ASSUME Inv, OrderInv, NEW h \in Hashes
               PROVE  latest[h] \in Ids(ready) \cup Ids(unacked) \/ Shown(h)
    BY Zenon DEF IndexIsCurrent, Shown
  <2>1. {m.id : m \in Waiting} \subseteq Ids(ready) \cup Ids(unacked)
    BY Zenon DEF Waiting, Msgs, Ids
  <2>2. latest[h] \in {m.id : m \in Waiting} \/ Shown(h)
    BY Zenon DEF OrderInv, GoneIsShown
  <2> QED
    BY <2>1, <2>2, Zenon
<1> QED
  BY <1>1, OrderAlways, PTL

\* search_updated is only set on torrents that are in the index or whose
\* item was refused, whenever the goroutine that sets it gets to run.
THEOREM FlagsAreEarned == Spec => []FlagMeansIndexed
<1>1. Inv /\ OrderInv => FlagMeansIndexed
  BY Zenon DEF OrderInv, FlagsEarned, Flaggable, FlagMeansIndexed
<1> QED
  BY <1>1, OrderAlways, PTL

-----------------------------------------------------------------------------
(* The inductive invariant.  A snapshot is on its way first with the       *)
(* updater and then in the queue; unless one got lost, the last one of a   *)
(* torrent on its way carries its newest counts, and a torrent with none   *)
(* on its way has settled.                                                 *)

DocsOK ==
  /\ counts \in [Hashes -> Absent .. MaxResults]
  /\ newest \in [Hashes -> Null .. MaxResults]
  /\ results \in 0 .. MaxResults
  /\ snapshot \in Seq(Snapshot) /\ Len(snapshot) <= 1
  /\ persist \in Seq(Snapshot)
  /\ failed \in BOOLEAN

NoneOf(s, h) == \A i \in DOMAIN s : s[i].hash # h
EndsNewest(s, h) ==
  \E i \in DOMAIN s : /\ s[i].hash = h
                      /\ s[i].counts = newest[h]
                      /\ \A j \in DOMAIN s : j > i => s[j].hash # h
Settled(h) == counts[h] \in {Absent, Null, newest[h]}

OnItsWay(h) ==
  \/ EndsNewest(snapshot, h)
  \/ NoneOf(snapshot, h) /\ EndsNewest(persist, h)
  \/ NoneOf(snapshot, h) /\ NoneOf(persist, h) /\ Settled(h)

DocsInv == DocsOK /\ (~failed => \A h \in Hashes : OnItsWay(h))

LEMMA InitDocs == PipelineInit => DocsInv
<1> SUFFICES ASSUME PipelineInit PROVE DocsInv
  OBVIOUS
<1>1. DocsOK
  <2>1. Absent \in Absent .. MaxResults /\ Null \in Null .. MaxResults /\ 0 \in 0 .. MaxResults
    BY PipelineAssumption DEF Absent, Null
  <2>2. << >> \in Seq(Snapshot) /\ Len(<< >>) <= 1
    BY SMTT(20)
  <2> QED
    BY <2>1, <2>2, Zenon DEF PipelineInit, DocsOK
<1>2. \A h \in Hashes : OnItsWay(h)
  <2>1. snapshot = << >> /\ persist = << >> /\ \A h \in Hashes : counts[h] = Absent
    BY Zenon DEF PipelineInit
  <2>2. DOMAIN << >> = {}
    OBVIOUS
  <2>3. \A h \in Hashes : NoneOf(snapshot, h) /\ NoneOf(persist, h)
    BY <2>1, <2>2, Zenon DEF NoneOf
  <2> QED
    BY <2>1, <2>3, Zenon DEF OnItsWay, Settled
<1> QED
  BY <1>1, <1>2, Zenon DEF DocsInv

LEMMA PullDocs ==
  ASSUME DocsInv, NEW k \in Hashes, Pull(k)
  PROVE  DocsInv'
<1>1. /\ counts' = [counts EXCEPT ![k] = Null]
      /\ UNCHANGED <<newest, results, snapshot, persist, failed>>
  BY Zenon DEF Pull
<1>2. DocsOK'
  BY <1>1, PipelineAssumption DEF DocsInv, DocsOK, Absent, Null
<1>3. \A h \in Hashes : Settled(h) => Settled(h)'
  BY <1>1, Zenon DEF DocsInv, DocsOK, Settled
<1>4. \A h \in Hashes : OnItsWay(h) => OnItsWay(h)'
  BY <1>1, <1>3 DEF OnItsWay, NoneOf, EndsNewest
<1> QED
  BY <1>1, <1>2, <1>4, Zenon DEF DocsInv

LEMMA HandleResultDocs ==
  ASSUME DocsInv, NEW k \in Hashes, HandleResult(k)
  PROVE  DocsInv'
<1> DEFINE s == [hash |-> k, counts |-> results + 1]
<1>1. /\ snapshot = << >> /\ snapshot' = <<s>> /\ results' = results + 1
      /\ counts' = [counts EXCEPT ![k] = results + 1]
      /\ newest' = [newest EXCEPT ![k] = results + 1]
      /\ UNCHANGED <<persist, failed>>
      /\ results + 1 \in 1 .. MaxResults /\ results + 1 \in Null .. MaxResults
      /\ results + 1 \in Absent .. MaxResults /\ results + 1 \in 0 .. MaxResults
  BY PipelineAssumption DEF HandleResult, DocsInv, DocsOK, Null, Absent
<1>2. s \in Snapshot /\ s.hash = k /\ s.counts = results + 1
  BY <1>1, Zenon DEF Snapshot
<1> HIDE DEF s
<1>3. snapshot' \in Seq(Snapshot) /\ Len(snapshot') = 1 /\ DOMAIN snapshot' = {1} /\ snapshot'[1] = s
  BY <1>1, <1>2
<1>4. DocsOK'
  BY <1>1, <1>3 DEF DocsInv, DocsOK
<1>5. ASSUME NEW h \in Hashes, OnItsWay(h) PROVE OnItsWay(h)'
  <2>1. CASE h = k
    <3>1. newest'[k] = results + 1
      BY <1>1, Zenon DEF DocsInv, DocsOK
    <3> QED
      BY <1>2, <1>3, <2>1, <3>1 DEF OnItsWay, EndsNewest
  <2>2. CASE h # k
    <3>1. NoneOf(snapshot, h)'
      BY <1>2, <1>3, <2>2, Zenon DEF NoneOf
    <3>2. newest'[h] = newest[h] /\ counts'[h] = counts[h]
      BY <1>1, <2>2, Zenon DEF DocsInv, DocsOK
    <3>3. ~EndsNewest(snapshot, h)
      BY <1>1 DEF EndsNewest
    <3>4. /\ NoneOf(persist, h) => NoneOf(persist, h)'
          /\ EndsNewest(persist, h) => EndsNewest(persist, h)'
          /\ Settled(h) => Settled(h)'
      BY <1>1, <3>2, Zenon DEF NoneOf, EndsNewest, Settled
    <3> QED
      BY <1>5, <3>1, <3>3, <3>4, Zenon DEF OnItsWay
  <2> QED
    BY <2>1, <2>2, Zenon
<1> QED
  BY <1>1, <1>4, <1>5, Zenon DEF DocsInv

LEMMA PublishSnapshotDocs ==
  ASSUME DocsInv, PublishSnapshot
  PROVE  DocsInv'
<1> DEFINE s == snapshot[1]
<1>1. /\ snapshot # << >> /\ snapshot' = << >> /\ persist' = Append(persist, s)
      /\ UNCHANGED <<counts, newest, results, failed>>
  BY Zenon DEF PublishSnapshot
<1>2. s \in Snapshot /\ DOMAIN snapshot = {1} /\ persist \in Seq(Snapshot)
  <2>1. /\ snapshot \in Seq(Snapshot) /\ Len(snapshot) \in Nat /\ Len(snapshot) <= 1
        /\ DOMAIN snapshot = 1 .. Len(snapshot) /\ persist \in Seq(Snapshot)
    BY DEF DocsInv, DocsOK
  <2>2. Len(snapshot) = 1
    BY <1>1, <2>1, EmptySeq
  <2> QED
    BY <2>1, <2>2
<1> HIDE DEF s
<1>3. /\ persist' \in Seq(Snapshot) /\ Len(persist) \in Nat
      /\ DOMAIN persist = 1 .. Len(persist) /\ DOMAIN persist' = 1 .. Len(persist) + 1
      /\ \A i \in 1 .. Len(persist) : persist'[i] = persist[i]
      /\ persist'[Len(persist) + 1] = s
  BY <1>1, <1>2, AppendProperties
<1>4. DocsOK'
  <2>1. snapshot' \in Seq(Snapshot) /\ Len(snapshot') <= 1
    BY <1>1
  <2> QED
    BY <1>1, <1>3, <2>1, Zenon DEF DocsInv, DocsOK
<1>5. ASSUME NEW h \in Hashes, OnItsWay(h) PROVE OnItsWay(h)'
  <2>1. NoneOf(snapshot, h)'
    BY <1>1 DEF NoneOf
  <2>2. CASE s.hash = h
    <3>1. s.counts = newest[h]
      BY <1>2, <1>5, <2>2, Zenon DEF OnItsWay, NoneOf, EndsNewest, s
    <3>2. EndsNewest(persist, h)'
      BY <1>1, <1>3, <2>2, <3>1 DEF EndsNewest
    <3> QED
      BY <2>1, <3>2, Zenon DEF OnItsWay
  <2>3. CASE s.hash # h
    <3>1. ~EndsNewest(snapshot, h)
      BY <1>2, <2>3, Zenon DEF EndsNewest, s
    <3>2. EndsNewest(persist, h) => EndsNewest(persist, h)'
      BY <1>1, <1>3, <2>3 DEF EndsNewest
    <3>3. NoneOf(persist, h) => NoneOf(persist, h)'
      BY <1>3, <2>3 DEF NoneOf
    <3>4. Settled(h) => Settled(h)'
      BY <1>1, Zenon DEF Settled
    <3> QED
      BY <1>5, <2>1, <3>1, <3>2, <3>3, <3>4, Zenon DEF OnItsWay
  <2> QED
    BY <2>2, <2>3, Zenon
<1> QED
  BY <1>1, <1>4, <1>5, Zenon DEF DocsInv

LEMMA ConsumeDocs ==
  ASSUME DocsInv, ConsumeNewTorrent
  PROVE  DocsInv'
<1> DEFINE p == persist[1]
<1>1. /\ persist # << >> /\ persist' \in {persist, Tail(persist)}
      /\ counts' = [counts EXCEPT ![p.hash] = p.counts]
      /\ UNCHANGED <<newest, results, snapshot, failed>>
  BY Zenon DEF ConsumeNewTorrent
<1>2. /\ persist \in Seq(Snapshot) /\ Len(persist) \in Nat \ {0} /\ DOMAIN persist = 1 .. Len(persist)
      /\ p \in Snapshot /\ p.hash \in Hashes /\ p.counts \in 1 .. MaxResults
  <2>1. persist \in Seq(Snapshot) /\ Len(persist) \in Nat \ {0} /\ DOMAIN persist = 1 .. Len(persist)
    BY <1>1 DEF DocsInv, DocsOK
  <2>2. p \in Snapshot
    BY <2>1
  <2> QED
    BY <2>1, <2>2, Zenon DEF Snapshot
<1>3. /\ Tail(persist) \in Seq(Snapshot) /\ DOMAIN Tail(persist) = 1 .. Len(persist) - 1
      /\ \A i \in 1 .. Len(persist) - 1 : Tail(persist)[i] = persist[i + 1]
  BY <1>1, <1>2, HeadTailProperties
<1> HIDE DEF p
<1>4. DocsOK'
  <2>1. p.counts \in Absent .. MaxResults
    BY <1>2, PipelineAssumption DEF Absent
  <2> QED
    BY <1>1, <1>2, <1>3, <2>1, Zenon DEF DocsInv, DocsOK
<1>5. \A h \in Hashes : counts'[h] = IF h = p.hash THEN p.counts ELSE counts[h]
  BY <1>1, <1>2, Zenon DEF DocsInv, DocsOK
<1>6. ASSUME NEW h \in Hashes, OnItsWay(h) PROVE OnItsWay(h)'
  <2>1. CASE EndsNewest(snapshot, h)
    BY <1>1, <2>1, Zenon DEF OnItsWay, EndsNewest
  <2>2. CASE NoneOf(snapshot, h) /\ EndsNewest(persist, h)
    <3>1. PICK i \in DOMAIN persist : /\ persist[i].hash = h /\ persist[i].counts = newest[h]
                                      /\ \A j \in DOMAIN persist : j > i => persist[j].hash # h
      BY <2>2, Zenon DEF EndsNewest
    <3>2. CASE persist' = persist
      BY <1>1, <2>2, <3>2, Zenon DEF OnItsWay, NoneOf, EndsNewest
    <3>3. CASE persist' = Tail(persist) /\ i = 1
      <4>1. h = p.hash /\ p.counts = newest[h]
        BY <3>1, <3>3, Zenon DEF p
      <4>2. Settled(h)'
        BY <1>1, <1>5, <4>1, Zenon DEF Settled
      <4>3. NoneOf(persist, h)'
        BY <1>2, <1>3, <3>1, <3>3 DEF NoneOf
      <4> QED
        BY <1>1, <2>2, <4>2, <4>3, Zenon DEF OnItsWay, NoneOf
    <3>4. CASE persist' = Tail(persist) /\ i # 1
      <4>1. i - 1 \in DOMAIN persist' /\ persist'[i - 1] = persist[i]
        BY <1>2, <1>3, <3>1, <3>4
      <4>2. \A j \in DOMAIN persist' : j > i - 1 => persist'[j].hash # h
        BY <1>2, <1>3, <3>1, <3>4
      <4>3. EndsNewest(persist, h)'
        BY <1>1, <3>1, <4>1, <4>2, Zenon DEF EndsNewest
      <4> QED
        BY <1>1, <2>2, <4>3, Zenon DEF OnItsWay, NoneOf
    <3> QED
      BY <1>1, <3>2, <3>3, <3>4, Zenon
  <2>3. CASE NoneOf(snapshot, h) /\ NoneOf(persist, h) /\ Settled(h)
    <3>1. p.hash # h
      BY <1>2, <2>3 DEF NoneOf, p
    <3>2. NoneOf(persist, h)'
      <4>1. \A i \in DOMAIN Tail(persist) : i + 1 \in DOMAIN persist /\ Tail(persist)[i].hash # h
        BY <1>2, <1>3, <2>3 DEF NoneOf
      <4> QED
        BY <1>1, <2>3, <4>1, Zenon DEF NoneOf
    <3> QED
      BY <1>1, <1>5, <2>3, <3>1, <3>2, Zenon DEF OnItsWay, NoneOf, Settled
  <2> QED
    BY <1>6, <2>1, <2>2, <2>3, Zenon DEF OnItsWay
<1> QED
  BY <1>1, <1>4, <1>6, Zenon DEF DocsInv

\* The other steps leave the documents alone, or lose a snapshot.
LEMMA QueueFailureDocs ==
  ASSUME DocsInv, ConsumeNewTorrentFails \/ PublishSnapshotFails
  PROVE  DocsInv'
<1>1. failed' = TRUE /\ UNCHANGED <<counts, newest, results>>
  BY Zenon DEF ConsumeNewTorrentFails, PublishSnapshotFails
<1>2. snapshot' \in Seq(Snapshot) /\ Len(snapshot') <= 1
  <2>1. snapshot' = snapshot \/ snapshot' = << >>
    BY Zenon DEF ConsumeNewTorrentFails, PublishSnapshotFails
  <2>2. << >> \in Seq(Snapshot) /\ Len(<< >>) <= 1
    OBVIOUS
  <2> QED
    BY <2>1, <2>2, Zenon DEF DocsInv, DocsOK
<1>3. persist' \in Seq(Snapshot)
  <2>1. CASE persist' = persist
    BY <2>1, Zenon DEF DocsInv, DocsOK
  <2>2. CASE ConsumeNewTorrentFails
    <3>1. PICK n \in 1 .. PreFetch :
            /\ n <= Len(persist)
            /\ persist' = SubSeq(persist, 2, n) \o <<persist[1]>> \o SubSeq(persist, n + 1, Len(persist))
      BY <2>2, Zenon DEF ConsumeNewTorrentFails
    <3>2. persist \in Seq(Snapshot) /\ Len(persist) \in Nat /\ n \in Nat /\ n >= 1
      BY PipelineAssumption DEF DocsInv, DocsOK
    <3>3. SubSeq(persist, 2, n) \in Seq(Snapshot) /\ SubSeq(persist, n + 1, Len(persist)) \in Seq(Snapshot)
      BY <3>1, <3>2
    <3>4. <<persist[1]>> \in Seq(Snapshot)
      BY <3>1, <3>2, SMTT(20)
    <3> QED
      BY <3>1, <3>3, <3>4
  <2> QED
    BY <2>1, <2>2, Zenon DEF PublishSnapshotFails
<1> QED
  BY <1>1, <1>2, <1>3, Zenon DEF DocsInv, DocsOK

LEMMA OtherDocs ==
  ASSUME DocsInv, UNCHANGED <<counts, newest, results, snapshot, persist, failed>>
  PROVE  DocsInv'
BY SMTT(20) DEF DocsInv, DocsOK, OnItsWay, NoneOf, EndsNewest, Settled

LEMMA NextDocs == DocsInv /\ [PipelineNext]_pipelineVars => DocsInv'
<1> SUFFICES ASSUME DocsInv, [PipelineNext]_pipelineVars PROVE DocsInv'
  OBVIOUS
<1>1. CASE UNCHANGED pipelineVars
  BY <1>1, OtherDocs, Zenon DEF pipelineVars, documents
<1>2. ASSUME NEW h \in Hashes, AnnounceTorrent(h) \/ AnnounceTorrentFails(h) PROVE DocsInv'
  BY <1>2, OtherDocs, Zenon DEF AnnounceTorrent, AnnounceTorrentFails
<1>3. CASE Malformed
  BY <1>3, OtherDocs, Zenon DEF Malformed
<1>5. CASE RecoverFind \/ RecoverFails \/ \E d \in found : RecoverPublish(d)
  BY <1>5, OtherDocs, Zenon DEF RecoverFind, RecoverFails, RecoverPublish
<1>4. CASE IndexerMoves \/ IndexerBulks \/ IndexerMarks \/ IndexerExits
  BY <1>4, OtherDocs, ZenonT(30) DEF IndexerMoves, IndexerBulks, IndexerSaves, IndexerSaveFails, IndexerMarks,
                                  IndexerExits, documents
<1> QED
  BY <1>1, <1>2, <1>3, <1>4, <1>5, PullDocs, HandleResultDocs, PublishSnapshotDocs, ConsumeDocs,
     QueueFailureDocs, Zenon DEF PipelineNext

LEMMA DocsAlways == PipelineSpec => []DocsInv
BY InitDocs, NextDocs, PTL DEF PipelineSpec

\* Writing old snapshots back heals itself: when no snapshot is on its way
\* and none was lost, every document has its newest counts or, pulled again,
\* none.
THEOREM DocumentsSettle == PipelineSpec => []CountsSettle
<1>1. DocsInv => CountsSettle
  BY DEF DocsInv, OnItsWay, EndsNewest, Settled, CountsSettle, Quiet
<1> QED
  BY <1>1, DocsAlways, PTL

-----------------------------------------------------------------------------
(* No copy of a document is newer than the updater's newest result.        *)

AgesInv ==
  /\ found \in SUBSET Document /\ behind \in SUBSET Hashes
  /\ \A h \in Hashes : counts[h] <= newest[h] /\ newest[h] <= results
  /\ \A i \in DOMAIN snapshot : snapshot[i].counts = newest[snapshot[i].hash]
  /\ \A i \in DOMAIN persist : persist[i].counts <= newest[persist[i].hash]
  /\ \A d \in found : d.counts <= newest[d.hash]

LEMMA InitAges == PipelineInit => AgesInv
BY DEF PipelineInit, AgesInv, Absent, Null

LEMMA SameAges ==
  ASSUME AgesInv, UNCHANGED <<counts, newest, results, snapshot, persist, recover>>
  PROVE  AgesInv'
BY Zenon DEF AgesInv, recover

LEMMA PullAges ==
  ASSUME DocsInv, AgesInv, NEW k \in Hashes, Pull(k)
  PROVE  AgesInv'
<1>1. /\ counts' = [counts EXCEPT ![k] = Null]
      /\ UNCHANGED <<newest, results, snapshot, persist, found, behind>>
  BY Zenon DEF Pull, recover
<1>2. \A h \in Hashes : counts'[h] <= newest[h]
  BY <1>1 DEF DocsInv, DocsOK, AgesInv, Null
<1> QED
  BY <1>1, <1>2, Zenon DEF AgesInv

LEMMA HandleResultAges ==
  ASSUME DocsInv, AgesInv, NEW k \in Hashes, HandleResult(k)
  PROVE  AgesInv'
<1>1. /\ snapshot' = <<[hash |-> k, counts |-> results + 1]>> /\ results' = results + 1
      /\ counts' = [counts EXCEPT ![k] = results + 1]
      /\ newest' = [newest EXCEPT ![k] = results + 1]
      /\ UNCHANGED <<persist, found, behind>>
  BY Zenon DEF HandleResult, recover
<1>2. /\ results \in Nat /\ persist \in Seq(Snapshot)
      /\ \A h \in Hashes : newest[h] \in Int /\ newest[h] <= results /\ counts[h] \in Int
  BY DEF DocsInv, DocsOK, AgesInv, Null, Absent
<1>3. \A h \in Hashes : /\ newest'[h] = IF h = k THEN results + 1 ELSE newest[h]
                        /\ counts'[h] = IF h = k THEN results + 1 ELSE counts[h]
  BY <1>1, Zenon DEF DocsInv, DocsOK
<1>4. ASSUME NEW h \in Hashes, NEW c \in Int, c <= newest[h] PROVE c <= newest'[h]
  BY <1>2, <1>3, <1>4
<1>5. \A h \in Hashes : counts'[h] <= newest'[h] /\ newest'[h] <= results + 1
  BY <1>2, <1>3 DEF AgesInv
<1>6. DOMAIN snapshot' = {1} /\ snapshot'[1].counts = results + 1 /\ snapshot'[1].hash = k
  BY <1>1
<1>7. \A i \in DOMAIN snapshot' : snapshot'[i].counts = newest'[snapshot'[i].hash]
  BY <1>3, <1>6, Zenon
<1>8. \A i \in DOMAIN persist : persist[i].counts <= newest'[persist[i].hash]
  <2>1. ASSUME NEW i \in DOMAIN persist PROVE persist[i].hash \in Hashes /\ persist[i].counts \in Int
    <3>1. persist[i] \in Snapshot
      BY <1>2
    <3>2. persist[i].counts \in 1 .. MaxResults
      BY <3>1, Zenon DEF Snapshot
    <3> QED
      BY <3>1, <3>2, SMTT(20) DEF Snapshot
  <2> QED
    BY <1>4, <2>1, Zenon DEF AgesInv
<1>9. \A d \in found : d.counts <= newest'[d.hash]
  <2>1. ASSUME NEW d \in found PROVE d.hash \in Hashes /\ d.counts \in Int
    BY DEF AgesInv, Document, Null
  <2> QED
    BY <1>4, <2>1, Zenon DEF AgesInv
<1> QED
  BY <1>1, <1>5, <1>7, <1>8, <1>9, Zenon DEF AgesInv

LEMMA SnapshotAges ==
  ASSUME DocsInv, AgesInv, PublishSnapshot \/ PublishSnapshotFails
  PROVE  AgesInv'
<1> DEFINE s == snapshot[1]
<1>1. /\ snapshot # << >> /\ snapshot' = << >> /\ persist' \in {persist, Append(persist, s)}
      /\ behind' \in {behind \ {s.hash}, behind \cup {s.hash}}
      /\ UNCHANGED <<counts, newest, results, found>>
  BY Zenon DEF PublishSnapshot, PublishSnapshotFails
<1>2. 1 \in DOMAIN snapshot /\ s \in Snapshot /\ persist \in Seq(Snapshot)
  BY <1>1 DEF DocsInv, DocsOK
<1>3. s.hash \in Hashes /\ s.counts \in 1 .. MaxResults /\ s.counts = newest[s.hash]
  BY <1>2, Zenon DEF Snapshot, AgesInv
<1> HIDE DEF s
<1>4. behind' \in SUBSET Hashes
  BY <1>1, <1>3, Zenon DEF AgesInv
<1>5. s.counts <= newest[s.hash]
  BY <1>3
<1>6. \A i \in DOMAIN persist' : persist'[i].counts <= newest[persist'[i].hash]
  <2>1. CASE persist' = persist
    BY <2>1, Zenon DEF AgesInv
  <2>2. CASE persist' = Append(persist, s)
    <3>1. ASSUME NEW i \in DOMAIN persist' PROVE (i \in DOMAIN persist /\ persist'[i] = persist[i]) \/ persist'[i] = s
      BY <1>2, <2>2, AppendProperties
    <3> QED
      BY <1>5, <3>1, Zenon DEF AgesInv
  <2> QED
    BY <1>1, <2>1, <2>2, Zenon
<1>7. DOMAIN snapshot' = {}
  BY <1>1, EmptyDomain, Zenon
<1> QED
  BY <1>1, <1>4, <1>6, <1>7, Zenon DEF AgesInv

LEMMA ConsumeAges ==
  ASSUME DocsInv, AgesInv, ConsumeNewTorrent \/ ConsumeNewTorrentFails
  PROVE  AgesInv'
<1>1. persist # << >> /\ UNCHANGED <<newest, results, snapshot, found, behind>>
  BY Zenon DEF ConsumeNewTorrent, ConsumeNewTorrentFails, recover
<1>2. persist \in Seq(Snapshot) /\ 1 \in DOMAIN persist /\ Len(persist) \in Nat
  BY <1>1 DEF DocsInv, DocsOK
<1>3. persist[1].hash \in Hashes /\ persist[1].counts <= newest[persist[1].hash]
  <2>1. persist[1] \in Snapshot
    BY <1>2
  <2> QED
    BY <1>2, <2>1, Zenon DEF Snapshot, AgesInv
<1>4. \A h \in Hashes : counts'[h] <= newest[h]
  <2>1. CASE ConsumeNewTorrent
    <3>1. counts' = [counts EXCEPT ![persist[1].hash] = persist[1].counts]
      BY <2>1, Zenon DEF ConsumeNewTorrent
    <3>2. ASSUME NEW h \in Hashes
          PROVE  counts'[h] = counts[h] \/ (h = persist[1].hash /\ counts'[h] = persist[1].counts)
      BY <3>1, Zenon DEF DocsInv, DocsOK
    <3> QED
      BY <1>3, <3>2, Zenon DEF AgesInv
  <2>2. CASE ConsumeNewTorrentFails
    BY <2>2, Zenon DEF ConsumeNewTorrentFails, AgesInv
  <2> QED
    BY <2>1, <2>2, Zenon
<1>5. \A i \in DOMAIN persist' : \E j \in DOMAIN persist : persist'[i] = persist[j]
  <2> DEFINE S == {persist[j] : j \in DOMAIN persist}
  <2>1. persist \in Seq(S) /\ persist[1] \in S
    BY <1>2
  <2> HIDE DEF S
  <2>2. ConsumeNewTorrent => persist' \in Seq(S)
    <3>1. Tail(persist) \in Seq(S)
      BY <1>1, <2>1, HeadTailProperties, Zenon
    <3> QED
      BY <2>1, <3>1, Zenon DEF ConsumeNewTorrent
  <2>3. ASSUME ConsumeNewTorrentFails PROVE persist' \in Seq(S)
    <3>1. PICK n \in 1 .. PreFetch :
            /\ n <= Len(persist)
            /\ persist' = SubSeq(persist, 2, n) \o <<persist[1]>> \o SubSeq(persist, n + 1, Len(persist))
      BY <2>3, Zenon DEF ConsumeNewTorrentFails
    <3>2. n \in Nat /\ n >= 1 /\ n <= Len(persist)
      BY <3>1, PipelineAssumption
    <3>3. SubSeq(persist, 2, n) \in Seq(S) /\ SubSeq(persist, n + 1, Len(persist)) \in Seq(S)
      BY <1>2, <2>1, <3>2
    <3>4. <<persist[1]>> \in Seq(S)
      BY <2>1
    <3> QED
      BY <3>1, <3>3, <3>4, SMTT(20)
  <2>4. persist' \in Seq(S)
    BY <2>2, <2>3, Zenon
  <2>5. \A i \in DOMAIN persist' : persist'[i] \in S
    BY <2>4, SMTT(20)
  <2> QED
    BY <2>5, Zenon DEF S
<1> QED
  BY <1>1, <1>4, <1>5, Zenon DEF AgesInv

LEMMA RecoverAges ==
  ASSUME DocsInv, AgesInv,
         RecoverFind \/ RecoverFails \/ \E d \in found : RecoverPublish(d)
  PROVE  AgesInv'
<1>1. UNCHANGED <<counts, newest, results, snapshot, persist>>
  BY Zenon DEF RecoverFind, RecoverFails, RecoverPublish
<1>2. CASE RecoverFind
  <2>1. PICK hs \in SUBSET {h \in Hashes : counts[h] # Absent} :
          found' = {[hash |-> h, counts |-> counts[h]] : h \in hs}
    BY <1>2, Zenon DEF RecoverFind
  <2>2. ASSUME NEW h \in hs
        PROVE  /\ [hash |-> h, counts |-> counts[h]] \in Document
               /\ counts[h] <= newest[h]
    <3>1. h \in Hashes /\ counts[h] \in Null .. MaxResults
      BY PipelineAssumption DEF DocsInv, DocsOK, Absent, Null
    <3> QED
      BY <3>1, Zenon DEF Document, AgesInv
  <2>3. found' \in SUBSET Document /\ \A d \in found' : d.counts <= newest[d.hash]
    BY <2>1, <2>2
  <2> QED
    BY <1>1, <1>2, <2>3, Zenon DEF AgesInv, RecoverFind
<1>3. CASE RecoverFails
  BY <1>1, <1>3, Zenon DEF AgesInv, RecoverFails
<1>4. ASSUME NEW d \in found, RecoverPublish(d) PROVE AgesInv'
  <2>1. d.hash \in Hashes /\ found' = found \ {d}
    BY <1>4, Zenon DEF AgesInv, Document, RecoverPublish
  <2>2. behind' \in {behind, behind \ {d.hash}, behind \cup {d.hash}}
    BY <1>4 DEF RecoverPublish
  <2> QED
    BY <1>1, <2>1, <2>2, Zenon DEF AgesInv
<1> QED
  BY <1>2, <1>3, <1>4, Zenon

LEMMA NextAges == DocsInv /\ AgesInv /\ [PipelineNext]_pipelineVars => AgesInv'
<1> SUFFICES ASSUME DocsInv, AgesInv, [PipelineNext]_pipelineVars PROVE AgesInv'
  OBVIOUS
<1>1. CASE UNCHANGED pipelineVars
  BY <1>1, SameAges, Zenon DEF pipelineVars, documents, recover
<1>2. ASSUME NEW h \in Hashes, AnnounceTorrent(h) \/ AnnounceTorrentFails(h) PROVE AgesInv'
  BY <1>2, SameAges, Zenon DEF AnnounceTorrent, AnnounceTorrentFails
<1>3. CASE Malformed
  BY <1>3, SameAges, Zenon DEF Malformed
<1>4. CASE IndexerMoves \/ IndexerBulks \/ IndexerMarks \/ IndexerExits
  <2>1. UNCHANGED documents
    BY <1>4, Zenon DEF IndexerMoves, IndexerBulks, IndexerSaves, IndexerSaveFails, IndexerMarks, IndexerExits
  <2> QED
    BY <2>1, SameAges, Zenon DEF documents, recover
<1> QED
  BY <1>1, <1>2, <1>3, <1>4, PullAges, HandleResultAges, SnapshotAges, ConsumeAges, RecoverAges,
     Zenon DEF PipelineNext

LEMMA AgesAlways == PipelineSpec => []AgesInv
BY InitAges, NextAges, DocsAlways, PTL DEF PipelineSpec

-----------------------------------------------------------------------------
(* The indexer in the pipeline.                                            *)

LEMMA StepIsIndexers == DocsInv /\ AgesInv /\ [PipelineNext]_pipelineVars => [Next]_vars
<1> SUFFICES ASSUME DocsInv, AgesInv, [PipelineNext]_pipelineVars PROVE [Next]_vars
  OBVIOUS
<1>1. CASE UNCHANGED pipelineVars
  BY <1>1, Zenon DEF pipelineVars
<1>2. ASSUME NEW h \in Hashes,
             Pull(h) \/ AnnounceTorrent(h) \/ AnnounceTorrentFails(h) \/ HandleResult(h)
      PROVE  [Next]_vars
  BY <1>2, Zenon DEF Pull, AnnounceTorrent, AnnounceTorrentFails, HandleResult, Next
<1>3. CASE ConsumeNewTorrentFails \/ PublishSnapshotFails
  BY <1>3, Zenon DEF ConsumeNewTorrentFails, PublishSnapshotFails
<1>4. CASE IndexerMoves \/ IndexerMarks \/ IndexerExits
  BY <1>4, Zenon DEF IndexerMoves, IndexerMarks, IndexerExits, Next
<1>5. CASE IndexerBulks
  BY <1>5, Zenon DEF IndexerBulks, IndexerSaves, IndexerSaveFails, Next
<1>6. CASE Malformed
  <2>1. (CHOOSE h \in Hashes : TRUE) \in Hashes
    BY PipelineAssumption, Zenon
  <2> QED
    BY <1>6, <2>1, Zenon DEF Malformed, Next
<1>7. ASSUME NEW s \in Seq(Snapshot), s # << >> PROVE s[1].hash \in Hashes
  <2>1. Head(s) \in Snapshot /\ Head(s) = s[1]
    BY <1>7, HeadTailProperties
  <2> QED
    BY <2>1, Zenon DEF Snapshot
<1>8. CASE PublishSnapshot
  BY <1>7, <1>8, Zenon DEF PublishSnapshot, Next, DocsInv, DocsOK
<1>9. CASE ConsumeNewTorrent
  BY <1>7, <1>9, Zenon DEF ConsumeNewTorrent, Next, DocsInv, DocsOK
<1>10. CASE RecoverFind \/ RecoverFails
  BY <1>10, Zenon DEF RecoverFind, RecoverFails
<1>11. ASSUME NEW d \in found, RecoverPublish(d) PROVE [Next]_vars
  <2>1. d.hash \in Hashes
    BY Zenon DEF AgesInv, Document
  <2> QED
    BY <1>11, <2>1, Zenon DEF RecoverPublish, Next
<1> QED
  BY <1>1, <1>2, <1>3, <1>4, <1>5, <1>6, <1>8, <1>9, <1>10, <1>11, Zenon DEF PipelineNext

\* Fetchers, updater and DBPersist only do to the indexer what its own
\* specification expects of its surroundings: the pipeline implements Indexer,
\* and so inherits NoLoss, IndexIsCurrent and the rest.
THEOREM PipelineRunsIndexer == PipelineSpec => Spec
<1>1. PipelineInit => Init
  BY Zenon DEF PipelineInit
<1> QED
  BY <1>1, StepIsIndexers, DocsAlways, AgesAlways, PTL DEF PipelineSpec, Spec

\* The index of the pipeline is current.
THEOREM PipelineIndexCurrent == PipelineSpec => []IndexIsCurrent
BY PipelineRunsIndexer, IndexCurrent, PTL

-----------------------------------------------------------------------------
(* The index shows the newest counts.  A torrent's messages are indexed in *)
(* the order they were published.  So the newest counts are on their way   *)
(* when a waiting message carries them and no later one carries others,    *)
(* and they stay in the index when no waiting message carries others.      *)

CarriesOK ==
  /\ carries \in Seq(Null .. MaxResults) /\ Len(carries) = sent
  /\ shown \in [Hashes -> Null .. MaxResults]
  /\ pulled \in SUBSET Hashes

NoneNewer ==
  /\ \A h \in Hashes : shown[h] <= newest[h]
  /\ \A m \in Waiting : carries[m.id] <= newest[m.hash] /\ (~m.ok => carries[m.id] = Null)

NothingElse(m) == carries[m.id] \in {Null, newest[m.hash]}
IsLast(m) ==
  /\ carries[m.id] = newest[m.hash] /\ newest[m.hash] # Null
  /\ \A n \in Waiting : n.hash = m.hash /\ m.id < n.id => NothingElse(n)

NewestOnItsWay(h) == \E m \in Waiting : m.hash = h /\ IsLast(m)
NewestShown(h) == shown[h] = newest[h] \/ \E m \in rejected : m.hash = h
NoOlderWaits(h) == \A m \in Waiting : m.hash = h => NothingElse(m)
Arrives(h) == NewestOnItsWay(h) \/ (NewestShown(h) /\ NoOlderWaits(h))

SavedCountsShown ==
  pc = "ack" => \A i \in DOMAIN batch : IsLast(batch[i]) => NewestShown(batch[i].hash)

ShownInv ==
  /\ CarriesOK /\ NoneNewer /\ SavedCountsShown
  /\ \A h \in Hashes \ behind : NoneOf(snapshot, h) => Arrives(h)

PipeInv == DocsInv /\ AgesInv /\ Inv /\ OrderInv /\ ShownInv

\* What a waiting message carries is well defined.
LEMMA WaitingCarries ==
  ASSUME PipeInv, NEW m \in Waiting
  PROVE  /\ m.id \in 1 .. sent /\ m.id \in DOMAIN carries /\ m.hash \in Hashes
         /\ carries[m.id] \in Null .. MaxResults /\ newest[m.hash] \in Null .. MaxResults
<1>1. m.id \in Nat \ {0} /\ m.id <= sent /\ m.hash \in Hashes
  BY WaitingType, Zenon DEF PipeInv, OrderInv, InOrder
<1>2. sent \in Nat /\ carries \in Seq(Null .. MaxResults) /\ Len(carries) = sent
  BY DEF PipeInv, ShownInv, CarriesOK, Inv, TypeOK
<1>3. m.id \in 1 .. sent
  BY <1>1, <1>2
<1> DEFINE S == Null .. MaxResults
<1> HIDE DEF S
<1>4. m.id \in DOMAIN carries /\ carries[m.id] \in S
  <2>1. carries \in Seq(S)
    BY <1>2, Zenon DEF S
  <2> QED
    BY <1>2, <1>3, <2>1
<1>5. newest[m.hash] \in Null .. MaxResults
  BY <1>1, Zenon DEF PipeInv, DocsInv, DocsOK
<1> QED
  BY <1>1, <1>3, <1>4, <1>5, Zenon DEF S

LEMMA InitShown == PipelineInit => ShownInv
<1> SUFFICES ASSUME PipelineInit PROVE ShownInv
  OBVIOUS
<1>1. Waiting = {} /\ sent = 0 /\ pc = "receive"
  BY DEF PipelineInit, Init, Waiting, Msgs
<1>2. CarriesOK
  <2>1. Null \in Null .. MaxResults
    BY PipelineAssumption DEF Null
  <2>2. << >> \in Seq(Null .. MaxResults) /\ Len(<< >>) = 0
    OBVIOUS
  <2> QED
    BY <1>1, <2>1, <2>2, Zenon DEF PipelineInit, CarriesOK
<1>3. NoneNewer /\ \A h \in Hashes : Arrives(h)
  BY <1>1 DEF PipelineInit, NoneNewer, Arrives, NewestShown, NoOlderWaits, Null
<1> QED
  BY <1>1, <1>2, <1>3, Zenon DEF ShownInv, SavedCountsShown

\* A step that neither publishes nor indexes, and takes away at most messages
\* that carry nothing.
LEMMA SameShown ==
  ASSUME ShownInv, Waiting' \subseteq Waiting, \A m \in Waiting \ Waiting' : carries[m.id] = Null,
         UNCHANGED <<sent, newest, snapshot, carries, shown, rejected>>,
         behind \subseteq behind',
         pulled' \in SUBSET Hashes, pc' # "ack" \/ UNCHANGED <<pc, batch>>
  PROVE  ShownInv'
<1>1. CarriesOK' /\ NoneNewer'
  BY Zenon DEF ShownInv, CarriesOK, NoneNewer
<1>2. \A m : NothingElse(m)' <=> NothingElse(m)
  BY Zenon DEF NothingElse
<1>3. \A m : IsLast(m)' <=> IsLast(m)
  BY <1>2, Zenon DEF IsLast, NothingElse
<1>4. SavedCountsShown'
  BY <1>3, Zenon DEF ShownInv, SavedCountsShown, NewestShown
<1>5. ASSUME NEW h \in Hashes, Arrives(h) PROVE Arrives(h)'
  <2>1. NewestOnItsWay(h) => NewestOnItsWay(h)'
    BY <1>3, Zenon DEF NewestOnItsWay, IsLast
  <2> QED
    BY <1>2, <1>5, <2>1, Zenon DEF Arrives, NewestShown, NoOlderWaits
<1>6. \A h \in Hashes : NoneOf(snapshot, h)' => NoneOf(snapshot, h)
  BY Zenon DEF NoneOf
<1> QED
  BY <1>1, <1>4, <1>5, <1>6, Zenon DEF ShownInv

LEMMA PublishShown ==
  ASSUME PipeInv, NEW h \in Hashes, NEW b \in BOOLEAN, NEW c \in Null .. MaxResults,
         Waiting' = Waiting \cup {[id |-> sent + 1, hash |-> h, ok |-> b]},
         sent' = sent + 1, carries' = Append(carries, c), c = Null \/ (b /\ c <= newest[h]),
         pulled' \in SUBSET Hashes,
         UNCHANGED <<newest, shown, rejected, pc, batch>>,
         behind \ {h} \subseteq behind',
         c = Null => behind' = behind,
         c # Null /\ c # newest[h] => h \in behind',
         \/ snapshot' = snapshot
         \/ /\ snapshot' = << >> /\ c = newest[h] /\ c # Null
            /\ \A k \in Hashes \ {h} : NoneOf(snapshot, k)
  PROVE  ShownInv'
<1>1. /\ sent \in Nat /\ carries' \in Seq(Null .. MaxResults) /\ Len(carries') = sent + 1
      /\ carries'[sent + 1] = c /\ \A i \in 1 .. sent : carries'[i] = carries[i]
  <2>1. sent \in Nat /\ carries \in Seq(Null .. MaxResults) /\ Len(carries) = sent
    BY DEF PipeInv, ShownInv, CarriesOK, Inv, TypeOK
  <2> QED
    BY <2>1, AppendProperties, SMTT(20)
<1>2. PICK n : Waiting' = Waiting \cup {n} /\ n.id = sent + 1 /\ n.hash = h /\ n.ok = b
  <2> DEFINE r == [id |-> sent + 1, hash |-> h, ok |-> b]
  <2>1. Waiting' = Waiting \cup {r} /\ r.id = sent + 1 /\ r.hash = h /\ r.ok = b
    OBVIOUS
  <2> HIDE DEF r
  <2> QED
    BY <2>1, Zenon
<1>3. \A m \in Waiting : /\ carries'[m.id] = carries[m.id] /\ m.id < n.id /\ m.id \in Nat
                         /\ m.hash \in Hashes /\ carries[m.id] \in Null .. MaxResults
  <2> SUFFICES ASSUME NEW m \in Waiting
               PROVE  /\ carries'[m.id] = carries[m.id] /\ m.id < n.id /\ m.id \in Nat
                      /\ m.hash \in Hashes /\ carries[m.id] \in Null .. MaxResults
    BY Zenon
  <2>1. m.id \in 1 .. sent /\ m.hash \in Hashes /\ carries[m.id] \in Null .. MaxResults
    BY WaitingCarries, Zenon
  <2>2. m.id < n.id /\ m.id \in Nat
    BY <1>1, <1>2, <2>1, NextIsAfter, Zenon
  <2> QED
    BY <1>1, <2>1, <2>2, Zenon
<1>4. carries'[n.id] = c /\ c <= newest[h] /\ newest[h] \in Null .. MaxResults /\ (~b => c = Null)
  BY <1>1, <1>2 DEF PipeInv, DocsInv, DocsOK, Null
<1>5. CarriesOK'
  BY <1>1, Zenon DEF PipeInv, ShownInv, CarriesOK
<1>6. NoneNewer'
  <2>1. ASSUME NEW m \in Waiting'
        PROVE  carries'[m.id] <= newest[m.hash] /\ (~m.ok => carries'[m.id] = Null)
    <3>1. CASE m \in Waiting
      BY <1>3, <3>1, Zenon DEF PipeInv, ShownInv, NoneNewer
    <3>2. CASE m = n
      BY <1>2, <1>4, <3>2, Zenon
    <3> QED
      BY <1>2, <3>1, <3>2, Zenon
  <2> QED
    BY <2>1, Zenon DEF PipeInv, ShownInv, NoneNewer
<1>7. \A m \in Waiting : NothingElse(m)' <=> NothingElse(m)
  BY <1>3, Zenon DEF NothingElse
<1>8. NothingElse(n)' <=> c \in {Null, newest[h]}
  BY <1>2, <1>4, Zenon DEF NothingElse
<1>9. \A m \in Waiting : IsLast(m)' => IsLast(m)
  BY <1>2, <1>3, <1>7, Zenon DEF IsLast, NothingElse
<1>10. ASSUME NEW m \in Waiting, IsLast(m), m.hash = h => c \in {Null, newest[h]} PROVE IsLast(m)'
  <2>1. ASSUME NEW x \in Waiting', x.hash = m.hash, m.id < x.id PROVE NothingElse(x)'
    <3>1. CASE x \in Waiting
      BY <1>7, <1>10, <2>1, <3>1, Zenon DEF IsLast
    <3>2. CASE x = n
      BY <1>2, <1>8, <1>10, <2>1, <3>2, Zenon
    <3> QED
      BY <1>2, <3>1, <3>2, Zenon
  <2> QED
    BY <1>3, <1>10, <2>1, Zenon DEF IsLast
<1>11. SavedCountsShown'
  <2>1. \A i \in DOMAIN batch : batch[i] \in Waiting /\ batch[i].hash \in Hashes
    BY WaitingType, Zenon DEF PipeInv, Waiting
  <2>2. \A k \in Hashes : NewestShown(k)' <=> NewestShown(k)
    BY Zenon DEF NewestShown
  <2>3. pc' = pc /\ batch' = batch
    OBVIOUS
  <2>4. \A i \in DOMAIN batch : IsLast(batch[i])' => IsLast(batch[i])
    BY <1>9, <2>1, <2>3, Zenon
  <2> QED
    BY <2>1, <2>2, <2>3, <2>4, Zenon DEF PipeInv, ShownInv, SavedCountsShown
<1>12. ASSUME NEW k \in Hashes, Arrives(k), k = h => c \in {Null, newest[h]} PROVE Arrives(k)'
  <2>1. NewestOnItsWay(k) => NewestOnItsWay(k)'
    BY <1>2, <1>10, <1>12, Zenon DEF NewestOnItsWay
  <2>2. NewestShown(k) => NewestShown(k)'
    BY Zenon DEF NewestShown
  <2>3. NoOlderWaits(k) => NoOlderWaits(k)'
    BY <1>2, <1>7, <1>8, <1>12, Zenon DEF NoOlderWaits
  <2> QED
    BY <1>12, <2>1, <2>2, <2>3, Zenon DEF Arrives
<1>13. c = newest[h] /\ c # Null => Arrives(h)'
  <2>1. \A m \in Waiting' : ~(n.id < m.id)
    BY <1>1, <1>2, <1>3, SMTT(20)
  <2> QED
    BY <1>2, <1>4, <2>1, Zenon DEF Arrives, NewestOnItsWay, IsLast
<1>14. ASSUME NEW k \in Hashes \ behind', NoneOf(snapshot', k) PROVE Arrives(k)'
  <2>1. CASE k = h /\ c = newest[h] /\ c # Null
    BY <1>13, <2>1, Zenon
  <2>2. CASE ~(k = h /\ c = newest[h] /\ c # Null)
    <3>1. k = h => c = Null
      BY <1>14, <2>2, Zenon
    <3>2. k \notin behind /\ NoneOf(snapshot, k)
      BY <1>14, <2>2, <3>1, Zenon
    <3> QED
      BY <1>12, <3>1, <3>2, Zenon DEF PipeInv, ShownInv
  <2> QED
    BY <2>1, <2>2, Zenon
<1>15. \A k \in Hashes : NoneOf(snapshot, k)' <=> NoneOf(snapshot', k)
  BY Zenon DEF NoneOf
<1> QED
  BY <1>5, <1>6, <1>11, <1>14, <1>15, Zenon DEF ShownInv

\* The steps that publish.
LEMMA PublishersShown ==
  ASSUME PipeInv
  PROVE  /\ \A h \in Hashes : AnnounceTorrent(h) => ShownInv'
         /\ Malformed => ShownInv'
         /\ PublishSnapshot => ShownInv'
         /\ \A d \in found : RecoverPublish(d) => ShownInv'
<1>1. ready \in Seq(Msg) /\ sent \in Nat /\ pulled \in SUBSET Hashes
  BY DEF PipeInv, Inv, TypeOK, ShownInv, CarriesOK
<1>2. Null \in Null .. MaxResults
  BY PipelineAssumption DEF Null
<1>3. ASSUME NEW h \in Hashes, NEW b \in BOOLEAN, sent < MaxMsgs, unacked' = unacked,
             ready' = Append(ready, [id |-> sent + 1, hash |-> h, ok |-> b])
      PROVE  Waiting' = Waiting \cup {[id |-> sent + 1, hash |-> h, ok |-> b]}
  <2>1. [id |-> sent + 1, hash |-> h, ok |-> b] \in Msg
    BY <1>1, <1>3, IndexerAssumption DEF Msg
  <2>2. Msgs(ready') = Msgs(ready) \cup {[id |-> sent + 1, hash |-> h, ok |-> b]}
    BY <1>1, <1>3, <2>1, MsgsAppend, Zenon
  <2> QED
    BY <1>3, <2>2, Zenon DEF Waiting, Msgs
<1>4. ASSUME NEW h \in Hashes, AnnounceTorrent(h) PROVE ShownInv'
  <2>1. /\ sent < MaxMsgs /\ sent' = sent + 1 /\ carries' = Append(carries, Null)
        /\ ready' = Append(ready, [id |-> sent + 1, hash |-> h, ok |-> TRUE])
        /\ pulled' \in SUBSET Hashes
        /\ UNCHANGED <<unacked, newest, shown, rejected, pc, batch, snapshot, behind>>
    BY <1>1, <1>4, Zenon DEF AnnounceTorrent, Publish, process, history, recover
  <2>2. Waiting' = Waiting \cup {[id |-> sent + 1, hash |-> h, ok |-> TRUE]}
    BY <1>3, <2>1, Zenon
  <2> QED
    BY <1>2, <2>1, <2>2, PublishShown, Zenon
<1>5. CASE Malformed
  <2> DEFINE h == CHOOSE k \in Hashes : TRUE
  <2>1. /\ sent < MaxMsgs /\ sent' = sent + 1 /\ carries' = Append(carries, Null)
        /\ ready' = Append(ready, [id |-> sent + 1, hash |-> h, ok |-> FALSE])
        /\ UNCHANGED <<unacked, newest, pulled, shown, rejected, pc, batch, snapshot, behind>>
    BY <1>5, Zenon DEF Malformed, PublishMalformed, process, history, recover
  <2>2. h \in Hashes
    BY PipelineAssumption, Zenon
  <2> HIDE DEF h
  <2>3. Waiting' = Waiting \cup {[id |-> sent + 1, hash |-> h, ok |-> FALSE]}
    BY <1>3, <2>1, <2>2, Zenon
  <2> QED
    BY <1>1, <1>2, <2>1, <2>2, <2>3, PublishShown, Zenon
<1>6. CASE PublishSnapshot
  <2> DEFINE h == snapshot[1].hash
             c == snapshot[1].counts
  <2>1. /\ sent < MaxMsgs /\ sent' = sent + 1 /\ carries' = Append(carries, c)
        /\ ready' = Append(ready, [id |-> sent + 1, hash |-> h, ok |-> TRUE])
        /\ snapshot # << >> /\ snapshot' = << >> /\ behind' = behind \ {h}
        /\ UNCHANGED <<unacked, newest, pulled, shown, rejected, pc, batch>>
    BY <1>6, Zenon DEF PublishSnapshot, Publish, process, history
  <2>2. snapshot \in Seq(Snapshot) /\ DOMAIN snapshot = {1} /\ snapshot[1] \in Snapshot
    <3>1. /\ snapshot \in Seq(Snapshot) /\ Len(snapshot) \in Nat /\ Len(snapshot) <= 1
          /\ DOMAIN snapshot = 1 .. Len(snapshot)
      BY DEF PipeInv, DocsInv, DocsOK
    <3>2. Len(snapshot) = 1
      BY <2>1, <3>1, EmptySeq
    <3> QED
      BY <3>1, <3>2
  <2>3. h \in Hashes /\ c \in 1 .. MaxResults /\ c = newest[h]
    BY <2>2, Zenon DEF Snapshot, PipeInv, AgesInv
  <2>4. c \in Null .. MaxResults /\ c # Null /\ c <= newest[h]
    BY <2>3, PipelineAssumption DEF Null
  <2>5. \A k \in Hashes \ {h} : NoneOf(snapshot, k)
    BY <2>2, Zenon DEF NoneOf
  <2> HIDE DEF h, c
  <2>6. Waiting' = Waiting \cup {[id |-> sent + 1, hash |-> h, ok |-> TRUE]}
    BY <1>3, <2>1, <2>3, Zenon
  <2> QED
    BY <1>1, <2>1, <2>3, <2>4, <2>5, <2>6, PublishShown, Zenon
<1>7. ASSUME NEW d \in found, RecoverPublish(d) PROVE ShownInv'
  <2> DEFINE h == d.hash
             c == d.counts
  <2>1. /\ sent < MaxMsgs /\ sent' = sent + 1 /\ carries' = Append(carries, c)
        /\ ready' = Append(ready, [id |-> sent + 1, hash |-> h, ok |-> TRUE])
        /\ UNCHANGED <<unacked, newest, pulled, shown, rejected, pc, batch, snapshot>>
    BY <1>7, Zenon DEF RecoverPublish, Publish, process, history
  <2>2. /\ behind \ {h} \subseteq behind' /\ (c = Null => behind' = behind)
        /\ c # Null /\ c # newest[h] => h \in behind'
    BY <1>7 DEF RecoverPublish
  <2>3. h \in Hashes /\ c \in Null .. MaxResults /\ c <= newest[h]
    BY Zenon DEF PipeInv, AgesInv, Document
  <2> HIDE DEF h, c
  <2>4. Waiting' = Waiting \cup {[id |-> sent + 1, hash |-> h, ok |-> TRUE]}
    BY <1>3, <2>1, <2>3, Zenon
  <2> QED
    BY <1>1, <2>1, <2>2, <2>3, <2>4, PublishShown, Zenon
<1> QED
  BY <1>4, <1>5, <1>6, <1>7, Zenon

\* The new result is newer than any count on its way.
LEMMA HandleResultShown ==
  ASSUME PipeInv, NEW k \in Hashes, HandleResult(k)
  PROVE  ShownInv'
<1> DEFINE s == [hash |-> k, counts |-> results + 1]
<1>1. /\ snapshot = << >> /\ snapshot' = <<s>> /\ results' = results + 1
      /\ newest' = [newest EXCEPT ![k] = results + 1]
      /\ UNCHANGED <<sent, ready, unacked, pc, batch, rejected, pulled, carries, shown, behind>>
  BY Zenon DEF HandleResult, Store, broker, process, history, recover
<1>2. results \in Nat /\ newest \in [Hashes -> Null .. MaxResults]
  BY DEF PipeInv, DocsInv, DocsOK
<1>3. s.hash = k /\ s.counts = results + 1 /\ DOMAIN snapshot' = {1} /\ snapshot'[1] = s
  BY <1>1
<1> HIDE DEF s
<1>4. Waiting' = Waiting
  BY <1>1, Zenon DEF Waiting, Msgs
<1>5. \A h \in Hashes : newest'[h] = IF h = k THEN results + 1 ELSE newest[h]
  BY <1>1, <1>2, Zenon
<1>6. \A h \in Hashes : /\ newest[h] <= results /\ newest[h] \in Int /\ shown[h] <= newest[h]
                        /\ shown[h] \in Int
  BY <1>2 DEF PipeInv, AgesInv, ShownInv, NoneNewer, CarriesOK, Null
<1>7. \A h \in Hashes : shown[h] <= newest'[h] /\ newest[h] <= newest'[h] /\ newest'[h] <= results + 1
  <2>1. ASSUME NEW r \in Nat, NEW b \in Int, NEW c \in Int, b <= r, c <= b, NEW a, a = r + 1 \/ a = b
        PROVE  c <= a /\ b <= a /\ a <= r + 1
    BY <2>1
  <2>2. ASSUME NEW h \in Hashes PROVE newest'[h] = results + 1 \/ newest'[h] = newest[h]
    BY <1>5, Zenon
  <2> QED
    BY <1>2, <1>6, <2>1, <2>2, Zenon
<1>8. \A m \in Waiting : /\ m.hash \in Hashes /\ carries[m.id] \in Int
                         /\ carries[m.id] <= newest[m.hash]
  <2>1. \A m \in Waiting : m.hash \in Hashes /\ carries[m.id] \in Null .. MaxResults
    BY WaitingCarries, Zenon
  <2>2. \A x \in Null .. MaxResults : x \in Int
    BY DEF Null
  <2>3. \A m \in Waiting : carries[m.id] <= newest[m.hash]
    BY Zenon DEF PipeInv, ShownInv, NoneNewer
  <2> QED
    BY <2>1, <2>2, <2>3, Zenon
<1>9. \A m \in Waiting : carries[m.id] <= newest'[m.hash] /\ carries[m.id] # results + 1
  BY <1>2, <1>5, <1>6, <1>7, <1>8
<1>10. CarriesOK'
  BY <1>1, Zenon DEF PipeInv, ShownInv, CarriesOK
<1>11. NoneNewer'
  <2>1. \A h \in Hashes : shown'[h] <= newest'[h]
    BY <1>1, <1>7, Zenon
  <2>2. \A m \in Waiting' : carries'[m.id] <= newest'[m.hash] /\ (~m.ok => carries'[m.id] = Null)
    BY <1>1, <1>4, <1>9, Zenon DEF PipeInv, ShownInv, NoneNewer
  <2> QED
    BY <2>1, <2>2, Zenon DEF NoneNewer
<1>12. \A m \in Waiting : m.hash # k => /\ NothingElse(m)' <=> NothingElse(m)
                                        /\ IsLast(m)' <=> IsLast(m)
  <2>1. \A m \in Waiting : m.hash # k => newest'[m.hash] = newest[m.hash] /\ carries' = carries
    BY <1>1, <1>5, <1>8, Zenon
  <2>2. \A m \in Waiting : m.hash # k => (NothingElse(m)' <=> NothingElse(m))
    BY <2>1, Zenon DEF NothingElse
  <2> QED
    BY <1>4, <2>1, <2>2, Zenon DEF IsLast
<1>13. \A m \in Waiting : m.hash = k => ~IsLast(m)'
  <2>1. newest'[k] = results + 1 /\ carries' = carries
    BY <1>1, <1>5, Zenon
  <2> QED
    BY <1>9, <2>1, Zenon DEF IsLast
<1>14. \A h \in Hashes : h # k => (NewestShown(h)' <=> NewestShown(h))
  BY <1>1, <1>5, Zenon DEF NewestShown
<1>15. SavedCountsShown'
  <2>1. \A i \in DOMAIN batch : batch[i] \in Waiting /\ batch[i].hash \in Hashes
    BY <1>8, WaitingType, Zenon DEF PipeInv, Waiting
  <2>2. \A i \in DOMAIN batch : IsLast(batch[i])' => batch[i].hash # k /\ IsLast(batch[i])
    BY <1>1, <1>12, <1>13, <2>1, Zenon
  <2> QED
    BY <1>1, <1>14, <2>1, <2>2, Zenon DEF PipeInv, ShownInv, SavedCountsShown
<1>16. ASSUME NEW h \in Hashes \ behind, NoneOf(snapshot', h) PROVE Arrives(h)'
  <2>1. h # k /\ NoneOf(snapshot, h)
    <3>1. h # k
      BY <1>3, <1>16, Zenon DEF NoneOf
    <3>2. NoneOf(<< >>, h)
      BY EmptyDomain, Zenon DEF NoneOf
    <3> QED
      BY <1>1, <3>1, <3>2, Zenon
  <2>2. Arrives(h)
    BY <1>16, <2>1, Zenon DEF PipeInv, ShownInv
  <2>3. NewestOnItsWay(h) => NewestOnItsWay(h)'
    BY <1>4, <1>12, <2>1, Zenon DEF NewestOnItsWay
  <2>4. NoOlderWaits(h) => NoOlderWaits(h)'
    BY <1>4, <1>12, <2>1, Zenon DEF NoOlderWaits
  <2> QED
    BY <1>14, <2>1, <2>2, <2>3, <2>4, Zenon DEF Arrives
<1>17. \A h \in Hashes : NoneOf(snapshot, h)' <=> NoneOf(snapshot', h)
  BY Zenon DEF NoneOf
<1> QED
  BY <1>1, <1>10, <1>11, <1>15, <1>16, <1>17, Zenon DEF ShownInv

\* A bulk request writes the counts of the last item that carries any.
LEMMA ShowTop ==
  ASSUME PipeInv, NEW items \in SUBSET DOMAIN batch, Show(items), NEW h \in Hashes
  PROVE  \/ /\ shown'[h] = shown[h]
            /\ \A i \in items : batch[i].hash = h => carries[batch[i].id] = Null
         \/ \E top \in items : /\ batch[top].hash = h /\ carries[batch[top].id] # Null
                               /\ shown'[h] = carries[batch[top].id]
                               /\ \A j \in items : batch[j].hash = h /\ carries[batch[j].id] # Null
                                                     => j <= top
<1> DEFINE hits == {i \in items : batch[i].hash = h /\ carries[batch[i].id] # Null}
<1> DEFINE top == CHOOSE i \in hits : \A j \in hits : j <= i
<1>1. shown'[h] = IF hits = {} THEN shown[h] ELSE carries[batch[top].id]
  BY Zenon DEF Show
<1>2. CASE hits = {}
  BY <1>1, <1>2, Zenon
<1>3. CASE hits # {}
  <2>1. hits \in SUBSET (1 .. Len(batch)) /\ Len(batch) \in Nat
    BY DEF PipeInv, Inv, TypeOK
  <2>2. top \in hits /\ \A j \in hits : j <= top
    <3> HIDE DEF hits
    <3>1. \E i \in hits : \A j \in hits : j <= i
      BY <1>3, <2>1, LargestIndex, Zenon
    <3> QED
      BY <3>1, Zenon
  <2>3. shown'[h] = carries[batch[top].id]
    BY <1>1, <1>3, Zenon
  <2> HIDE DEF top
  <2>4. /\ top \in items /\ batch[top].hash = h /\ carries[batch[top].id] # Null
        /\ \A j \in items : batch[j].hash = h /\ carries[batch[j].id] # Null => j <= top
    BY <2>2, Zenon
  <2> QED
    BY <2>3, <2>4, Zenon
<1> QED
  BY <1>2, <1>3, Zenon

LEMMA BulkShown ==
  ASSUME PipeInv, NEW items \in SUBSET DOMAIN batch, BulkFails(items) \/ BulkSucceeds(items),
         Show(items), UNCHANGED documents
  PROVE  ShownInv'
<1>1. /\ rejected \subseteq rejected'
      /\ UNCHANGED <<sent, ready, unacked, batch, newest, snapshot, pulled, carries, behind>>
  BY Zenon DEF BulkFails, BulkSucceeds, broker, documents
<1>2. Waiting' = Waiting
  BY <1>1, Zenon DEF Waiting, Msgs
<1>3. \A i \in DOMAIN batch : /\ batch[i] \in Waiting /\ batch[i].hash \in Hashes
                              /\ carries[batch[i].id] \in Null .. MaxResults
                              /\ carries[batch[i].id] <= newest[batch[i].hash]
  <2>1. \A i \in DOMAIN batch : batch[i] \in Waiting
    BY WaitingType, ZenonT(30) DEF PipeInv, Waiting
  <2> QED
    BY <2>1, WaitingCarries, Zenon DEF PipeInv, ShownInv, NoneNewer
<1>4. ASSUME NEW h \in Hashes
      PROVE  shown'[h] \in Null .. MaxResults /\ shown'[h] <= newest[h]
  <2>1. shown[h] \in Null .. MaxResults /\ shown[h] <= newest[h]
    BY Zenon DEF PipeInv, ShownInv, CarriesOK, NoneNewer
  <2>2. CASE shown'[h] = shown[h]
    BY <2>1, <2>2, Zenon
  <2>3. CASE \E top \in items : batch[top].hash = h /\ shown'[h] = carries[batch[top].id]
    <3>1. PICK top \in items : batch[top].hash = h /\ shown'[h] = carries[batch[top].id]
      BY <2>3, Zenon
    <3>2. top \in DOMAIN batch
      BY <3>1, Zenon
    <3> QED
      BY <1>3, <3>1, <3>2, Zenon
  <2> QED
    BY <2>2, <2>3, ShowTop, Zenon
<1>5. CarriesOK'
  <2>1. shown' = [h \in Hashes |-> shown'[h]]
    <3> DEFINE after(h) ==
          LET hits == {i \in items : batch[i].hash = h /\ carries[batch[i].id] # Null}
          IN  IF hits = {} THEN shown[h]
              ELSE carries[batch[CHOOSE i \in hits : \A j \in hits : j <= i].id]
    <3>1. shown' = [h \in Hashes |-> after(h)]
      BY Zenon DEF Show
    <3> HIDE DEF after
    <3> QED
      BY <3>1, SMTT(20)
  <2>2. shown' \in [Hashes -> Null .. MaxResults]
    BY <1>4, <2>1, Zenon
  <2> QED
    BY <1>1, <2>2, Zenon DEF PipeInv, ShownInv, CarriesOK
<1>6. NoneNewer'
  BY <1>1, <1>2, <1>4, Zenon DEF PipeInv, ShownInv, NoneNewer
<1>7. \A m : (NothingElse(m)' <=> NothingElse(m)) /\ (IsLast(m)' <=> IsLast(m))
  BY <1>1, <1>2, Zenon DEF NothingElse, IsLast
<1>8. ASSUME NEW h \in Hashes, Arrives(h) PROVE Arrives(h)'
  <2>1. NewestShown(h) /\ NoOlderWaits(h) => NewestShown(h)'
    <3>1. NoOlderWaits(h) => shown'[h] \in {shown[h], newest[h]}
      BY <1>3, ShowTop DEF NoOlderWaits, NothingElse
    <3> QED
      BY <1>1, <3>1, ZenonT(30) DEF NewestShown
  <2>2. NewestOnItsWay(h) => NewestOnItsWay(h)'
    BY <1>2, <1>7, Zenon DEF NewestOnItsWay
  <2>3. NoOlderWaits(h) => NoOlderWaits(h)'
    BY <1>2, <1>7, Zenon DEF NoOlderWaits
  <2> QED
    BY <1>8, <2>1, <2>2, <2>3, Zenon DEF Arrives
<1>9. SavedCountsShown'
  <2>1. CASE BulkFails(items)
    BY <2>1, Zenon DEF BulkFails, SavedCountsShown
  <2>2. CASE BulkSucceeds(items)
    <3>1. rejected' = rejected \cup {batch[i] : i \in DOMAIN batch \ items}
      BY <2>2, Zenon DEF BulkSucceeds
    <3>2. ASSUME NEW i \in DOMAIN batch, IsLast(batch[i])
          PROVE  shown'[batch[i].hash] = newest[batch[i].hash] \/ batch[i] \in rejected'
      <4>1. CASE i \notin items
        BY <3>1, <4>1, Zenon
      <4>2. CASE i \in items
        <5>1. carries[batch[i].id] = newest[batch[i].hash] /\ carries[batch[i].id] # Null
          BY <3>2, Zenon DEF IsLast
        <5>2. PICK top \in items : /\ batch[top].hash = batch[i].hash
                                   /\ carries[batch[top].id] # Null
                                   /\ shown'[batch[i].hash] = carries[batch[top].id] /\ i <= top
          BY <1>3, <4>2, <5>1, ShowTop, SMTT(20)
        <5>3. /\ i \in DOMAIN unacked /\ top \in DOMAIN unacked /\ i \in Nat /\ top \in Nat
              /\ unacked[i] = batch[i] /\ unacked[top] = batch[top]
          BY <3>2, <5>2, BatchAtFront, ZenonT(30) DEF PipeInv, Inv
        <5>4. CASE i = top
          BY <5>1, <5>2, <5>4, Zenon
        <5>5. CASE i < top
          <6>1. batch[i].id < batch[top].id
            BY <5>3, <5>5, Zenon DEF PipeInv, OrderInv, InOrder, Ordered
          <6>2. batch[top] \in Waiting
            BY <1>3, <5>2, Zenon
          <6>3. NothingElse(batch[top])
            BY <3>2, <5>2, <6>1, <6>2, Zenon DEF IsLast
          <6> QED
            BY <5>2, <6>3, Zenon DEF NothingElse
        <5> QED
          BY <5>2, <5>3, <5>4, <5>5, LessOrEqual, ZenonT(30)
      <4> QED
        BY <4>1, <4>2, Zenon
    <3>3. \A i \in DOMAIN batch : IsLast(batch[i]) => NewestShown(batch[i].hash)'
      BY <1>1, <3>2, Zenon DEF NewestShown
    <3>4. \A i \in DOMAIN batch : IsLast(batch[i])' => IsLast(batch[i])
      BY <1>1, <1>7, Zenon
    <3> QED
      BY <1>1, <3>3, <3>4, Zenon DEF SavedCountsShown, NewestShown
  <2> QED
    BY <2>1, <2>2, Zenon
<1>10. \A h \in Hashes : NoneOf(snapshot, h)' => NoneOf(snapshot, h)
  BY <1>1, Zenon DEF NoneOf
<1> QED
  BY <1>1, <1>5, <1>6, <1>8, <1>9, <1>10, Zenon DEF PipeInv, ShownInv

LEMMA AckShown ==
  ASSUME PipeInv, Ack, UNCHANGED <<documents, shown>>
  PROVE  ShownInv'
<1>1. /\ pc = "ack" /\ unacked' = << >> /\ pc' = "receive"
      /\ UNCHANGED <<sent, ready, rejected, newest, snapshot, pulled, carries, behind, shown>>
  BY AckTakes, Zenon DEF PipeInv, documents
<1>2. Waiting' = Msgs(ready) /\ Waiting' \subseteq Waiting
  BY <1>1 DEF Msgs, Waiting
<1>3. CarriesOK' /\ NoneNewer' /\ SavedCountsShown'
  BY <1>1, <1>2, Zenon DEF PipeInv, ShownInv, CarriesOK, NoneNewer, SavedCountsShown
<1>4. \A m : NothingElse(m)' <=> NothingElse(m)
  BY <1>1, Zenon DEF NothingElse
<1>5. ASSUME NEW h \in Hashes, Arrives(h) PROVE Arrives(h)'
  <2>1. CASE NewestShown(h) /\ NoOlderWaits(h)
    BY <1>1, <1>2, <1>4, <2>1, Zenon DEF Arrives, NewestShown, NoOlderWaits
  <2>2. CASE NewestOnItsWay(h)
    <3>1. PICK m \in Waiting : m.hash = h /\ IsLast(m)
      BY <2>2, Zenon DEF NewestOnItsWay
    <3>2. CASE m \in Msgs(ready)
      <4>1. m \in Waiting' /\ IsLast(m)'
        BY <1>1, <1>2, <1>4, <3>1, <3>2, Zenon DEF IsLast
      <4> QED
        BY <3>1, <4>1, Zenon DEF Arrives, NewestOnItsWay
    <3>3. CASE m \in Msgs(unacked)
      <4>1. PICK i \in DOMAIN unacked : m = unacked[i]
        BY <3>3, ZenonT(30) DEF Msgs
      <4>2. i \in DOMAIN batch /\ batch[i] = m
        <5>1. taken = Len(unacked)
          BY <1>1, WholeWindow, Zenon DEF PipeInv
        <5>2. i \in 1 .. taken /\ taken = Len(batch)
          BY <4>1, <5>1 DEF PipeInv, Inv, TypeOK, BatchIsUnacked
        <5> QED
          BY <4>1, <5>2 DEF PipeInv, Inv, TypeOK, BatchIsUnacked
      <4>3. NewestShown(h)'
        BY <1>1, <3>1, <4>2, Zenon DEF PipeInv, ShownInv, SavedCountsShown, NewestShown
      <4>4. \A n \in Waiting' : n \in Waiting /\ m.id < n.id
        BY <1>2, <3>3, Zenon DEF PipeInv, OrderInv, InOrder, Before
      <4>5. NoOlderWaits(h)'
        BY <1>4, <3>1, <4>4, Zenon DEF NoOlderWaits, IsLast
      <4> QED
        BY <4>3, <4>5, Zenon DEF Arrives
    <3> QED
      BY <3>2, <3>3, Zenon DEF Waiting
  <2> QED
    BY <1>5, <2>1, <2>2, Zenon DEF Arrives
<1>6. \A h \in Hashes : NoneOf(snapshot, h)' => NoneOf(snapshot, h)
  BY <1>1, Zenon DEF NoneOf
<1> QED
  BY <1>1, <1>3, <1>5, <1>6, Zenon DEF PipeInv, ShownInv

LEMMA IndexerStepsShown ==
  ASSUME PipeInv, UNCHANGED <<documents, shown>>,
         \/ Deliver \/ ReceiveMalformed \/ ReceiveTorrent \/ Nack \/ Exit
         \/ \E hashes \in marking : MarkSearchUpdated(hashes)
  PROVE  ShownInv'
<1>1. /\ UNCHANGED <<newest, snapshot, pulled, carries, behind, shown>>
      /\ pulled \in SUBSET Hashes /\ ShownInv
  BY Zenon DEF documents, PipeInv, ShownInv, CarriesOK
<1>2. CASE Deliver
  <2>1. /\ ready # << >> /\ ready \in Seq(Msg) /\ unacked \in Seq(Msg) /\ Head(ready) \in Msg
        /\ unacked' = Append(unacked, Head(ready)) /\ ready' = Tail(ready)
        /\ UNCHANGED <<sent, pc, batch, rejected>>
    BY <1>2, HeadTailProperties, Zenon DEF PipeInv, Inv, TypeOK, Deliver, process, history
  <2>2. Msgs(ready) = {Head(ready)} \cup Msgs(ready') /\ Msgs(unacked') = Msgs(unacked) \cup {Head(ready)}
    BY <2>1, MsgsHeadTail, MsgsAppend, Zenon
  <2>3. Waiting' = Waiting
    BY <2>2, Zenon DEF Waiting
  <2> QED
    BY <1>1, <2>1, <2>3, SameShown
<1>3. CASE ReceiveMalformed
  <2>1. UNCHANGED <<sent, pc, batch, rejected>>
    BY <1>3, Zenon DEF ReceiveMalformed, process
  <2>2. PICK m \in Waiting : ~m.ok /\ Waiting \subseteq Waiting' \cup {m}
    BY <1>3, ReceiveMalformedTakes, Zenon DEF PipeInv
  <2>3. \A x \in Waiting \ Waiting' : carries[x.id] = Null
    BY <2>2, Zenon DEF PipeInv, ShownInv, NoneNewer
  <2>4. Waiting' \subseteq Waiting
    BY <1>3, ReceiveMalformedTakes, Zenon DEF PipeInv
  <2> QED
    BY <1>1, <2>1, <2>3, <2>4, SameShown
<1>4. CASE ReceiveTorrent
  <2>1. UNCHANGED <<sent, ready, unacked, rejected>> /\ pc' # "ack"
    BY <1>4, Zenon DEF ReceiveTorrent, broker, history
  <2>2. Waiting' = Waiting
    BY <2>1, Zenon DEF Waiting, Msgs
  <2> QED
    BY <1>1, <2>1, <2>2, SameShown, Zenon
<1>5. CASE Nack \/ Exit
  <2>1. Waiting' = Waiting /\ pc' # "ack" /\ UNCHANGED <<sent, rejected>>
    BY <1>5, RequeueTakes, Zenon DEF PipeInv
  <2> QED
    BY <1>1, <2>1, SameShown, Zenon
<1>6. CASE \E hashes \in marking : MarkSearchUpdated(hashes)
  <2>1. UNCHANGED <<sent, ready, unacked, rejected, pc, batch>>
    BY <1>6, Zenon DEF MarkSearchUpdated, broker, history
  <2>2. Waiting' = Waiting
    BY <2>1, Zenon DEF Waiting, Msgs
  <2> QED
    BY <1>1, <2>1, <2>2, SameShown, Zenon
<1> QED
  BY <1>2, <1>3, <1>4, <1>5, <1>6

\* The steps of the documents that publish nothing.
LEMMA DocumentStepsShown ==
  ASSUME PipeInv
  PROVE  /\ \A h \in Hashes : Pull(h) \/ AnnounceTorrentFails(h) => ShownInv'
         /\ ConsumeNewTorrent \/ ConsumeNewTorrentFails \/ UNCHANGED pipelineVars => ShownInv'
         /\ RecoverFind \/ RecoverFails => ShownInv'
         /\ PublishSnapshotFails => ShownInv'
<1>1. ShownInv /\ pulled \in SUBSET Hashes
  BY Zenon DEF PipeInv, ShownInv, CarriesOK
<1>2. UNCHANGED <<ready, unacked>> => Waiting' = Waiting
  BY Zenon DEF Waiting, Msgs
<1>3. ASSUME NEW h \in Hashes, Pull(h) \/ AnnounceTorrentFails(h) PROVE ShownInv'
  <2>1. /\ UNCHANGED <<sent, ready, unacked, pc, batch, rejected, newest, snapshot, carries,
                       shown, behind>>
        /\ pulled' \in SUBSET Hashes
    <3>1. CASE Pull(h)
      BY <1>1, <3>1, Zenon DEF Pull, Store, broker, process, history, recover
    <3>2. CASE AnnounceTorrentFails(h)
      BY <1>1, <3>2, Zenon DEF AnnounceTorrentFails, vars, broker, process, history, recover
    <3> QED
      BY <1>3, <3>1, <3>2, Zenon
  <2> QED
    BY <1>1, <1>2, <2>1, SameShown, Zenon
<1>4. ASSUME \/ ConsumeNewTorrent \/ ConsumeNewTorrentFails \/ UNCHANGED pipelineVars
             \/ RecoverFind \/ RecoverFails
      PROVE  ShownInv'
  <2>1. UNCHANGED <<sent, ready, unacked, pc, batch, rejected, newest, snapshot, carries, pulled, shown, behind>>
    <3>1. CASE ConsumeNewTorrent
      BY <3>1, Zenon DEF ConsumeNewTorrent, Store, broker, process, history, recover
    <3>2. CASE ConsumeNewTorrentFails
      BY <3>2, Zenon DEF ConsumeNewTorrentFails, vars, broker, process, history, recover
    <3>3. CASE UNCHANGED pipelineVars
      BY <3>3, Zenon DEF pipelineVars, documents, vars, broker, process, history
    <3>4. CASE RecoverFind \/ RecoverFails
      BY <3>4, Zenon DEF RecoverFind, RecoverFails, vars, broker, process, history
    <3> QED
      BY <1>4, <3>1, <3>2, <3>3, <3>4, Zenon
  <2> QED
    BY <1>1, <1>2, <2>1, SameShown, Zenon
<1>5. CASE PublishSnapshotFails
  <2>1. /\ UNCHANGED <<sent, ready, unacked, pc, batch, rejected, newest, carries, pulled, shown>>
        /\ snapshot' = << >> /\ behind' = behind \cup {snapshot[1].hash}
    BY <1>5, Zenon DEF PublishSnapshotFails, vars, broker, process, history
  <2>2. Waiting' = Waiting
    BY <1>2, <2>1, Zenon
  <2>3. CarriesOK' /\ NoneNewer'
    BY <1>1, <2>1, <2>2, Zenon DEF ShownInv, CarriesOK, NoneNewer
  <2>4. \A m : (NothingElse(m)' <=> NothingElse(m)) /\ (IsLast(m)' <=> IsLast(m))
    BY <2>1, <2>2, Zenon DEF NothingElse, IsLast
  <2>5. SavedCountsShown'
    BY <1>1, <2>1, <2>4, Zenon DEF ShownInv, SavedCountsShown, NewestShown
  <2>6. \A h \in Hashes : Arrives(h) => Arrives(h)'
    BY <2>1, <2>2, <2>4, Zenon DEF Arrives, NewestOnItsWay, NewestShown, NoOlderWaits
  <2>7. \A h \in Hashes \ behind' : NoneOf(snapshot, h)
    <3>1. /\ Len(snapshot) \in Nat /\ Len(snapshot) <= 1 /\ DOMAIN snapshot = 1 .. Len(snapshot)
      BY DEF PipeInv, DocsInv, DocsOK
    <3>2. \A i \in DOMAIN snapshot : i = 1
      BY <3>1
    <3> QED
      BY <2>1, <3>2, Zenon DEF NoneOf
  <2> QED
    BY <1>1, <2>1, <2>3, <2>5, <2>6, <2>7, Zenon DEF ShownInv
<1> QED
  BY <1>3, <1>4, <1>5, Zenon

LEMMA NextShown == PipeInv /\ [PipelineNext]_pipelineVars => ShownInv'
<1> SUFFICES ASSUME PipeInv, [PipelineNext]_pipelineVars PROVE ShownInv'
  OBVIOUS
<1>1. ASSUME NEW h \in Hashes,
             Pull(h) \/ AnnounceTorrent(h) \/ AnnounceTorrentFails(h) \/ HandleResult(h)
      PROVE  ShownInv'
  BY <1>1, DocumentStepsShown, PublishersShown, HandleResultShown, Zenon
<1>2. CASE Malformed \/ PublishSnapshot
  BY <1>2, PublishersShown, Zenon
<1>3. CASE \/ PublishSnapshotFails \/ ConsumeNewTorrent \/ ConsumeNewTorrentFails
           \/ RecoverFind \/ RecoverFails \/ UNCHANGED pipelineVars
  BY <1>3, DocumentStepsShown, Zenon
<1>4. CASE IndexerMoves \/ IndexerMarks \/ IndexerExits
  BY <1>4, AckShown, IndexerStepsShown, Zenon DEF IndexerMoves, IndexerMarks, IndexerExits
<1>5. CASE IndexerBulks
  BY <1>5, BulkShown, Zenon DEF IndexerBulks, IndexerSaves, IndexerSaveFails
<1>6. ASSUME NEW d \in found, RecoverPublish(d) PROVE ShownInv'
  BY <1>6, PublishersShown, Zenon
<1> QED
  BY <1>1, <1>2, <1>3, <1>4, <1>5, <1>6, Zenon DEF PipelineNext

LEMMA PipeAlways == PipelineSpec => []PipeInv
<1>1. PipelineSpec => [](DocsInv /\ AgesInv /\ Inv /\ OrderInv)
  BY DocsAlways, AgesAlways, PipelineRunsIndexer, OrderAlways, PTL
<1>2. DocsInv /\ AgesInv /\ Inv /\ OrderInv /\ ShownInv /\ [PipelineNext]_pipelineVars => ShownInv'
  BY NextShown, Zenon DEF PipeInv
<1>3. PipelineSpec => []ShownInv
  BY <1>1, <1>2, InitShown, PTL DEF PipelineSpec
<1>4. DocsInv /\ AgesInv /\ Inv /\ OrderInv /\ ShownInv => PipeInv
  BY Zenon DEF PipeInv
<1> QED
  BY <1>1, <1>3, <1>4, PTL

\* Every document, snapshot, message and count of the composition is well
\* formed: the updater has at most one document to publish, and every message
\* has its counts.
THEOREM PipelineTypeCorrect == PipelineSpec => []PipelineTypeOK
<1>1. PipeInv => PipelineTypeOK
  BY Zenon DEF PipeInv, DocsInv, DocsOK, AgesInv, ShownInv, CarriesOK, PipelineTypeOK
<1> QED
  BY <1>1, PipeAlways, PTL

\* Elasticsearch never shows counts the updater has not stored.  Once nothing
\* of a torrent is with the broker it shows the newest ones, if those were
\* the last announced: whatever was requeued, applied twice, announced again
\* without counts, or announced by Recover before them.
THEOREM NewestIsShown == PipelineSpec => []IndexShowsNewest
<1>1. ASSUME PipeInv, NEW h \in Hashes
      PROVE  /\ shown[h] <= newest[h]
             /\ \/ shown[h] = newest[h]
                \/ h \in behind
                \/ \E i \in DOMAIN snapshot : snapshot[i].hash = h
                \/ \E m \in rejected : m.hash = h
                \/ \E i \in DOMAIN ready : ready[i].hash = h
                \/ \E i \in DOMAIN unacked : unacked[i].hash = h
  <2>1. shown[h] <= newest[h]
    BY <1>1, Zenon DEF PipeInv, ShownInv, NoneNewer
  <2>2. CASE h \notin behind /\ NoneOf(snapshot, h)
    <3>1. Arrives(h)
      BY <1>1, <2>2, Zenon DEF PipeInv, ShownInv
    <3>2. NewestOnItsWay(h) => \/ \E i \in DOMAIN ready : ready[i].hash = h
                               \/ \E i \in DOMAIN unacked : unacked[i].hash = h
      BY Zenon DEF NewestOnItsWay, Waiting, Msgs
    <3> QED
      BY <2>1, <3>1, <3>2, Zenon DEF Arrives, NewestShown
  <2> QED
    BY <2>1, <2>2, Zenon DEF NoneOf
<1>2. PipeInv => IndexShowsNewest
  BY <1>1, Zenon DEF IndexShowsNewest
<1> QED
  BY <1>2, PipeAlways, PTL
=============================================================================
