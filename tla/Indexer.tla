------------------------------ MODULE Indexer -------------------------------
(***************************************************************************)
(* indexer/internal/svc/indexer.go and common/amqp/client.go: torrents are *)
(* consumed from the durable queue "indexer", collected into a batch,      *)
(* written to Elasticsearch in one bulk request, and acknowledged together *)
(* through the last delivery of the batch.                                 *)
(*                                                                         *)
(* External: the broker (RabbitMQ) with its prefetch window, cumulative    *)
(* acknowledgements and requeueing, the publishers, and Elasticsearch.     *)
(* A message is numbered by its place in the order of publication, and     *)
(* that number stands for the version of the torrent it carries.           *)
(***************************************************************************)
EXTENDS Integers, Sequences, FiniteSets

CONSTANTS Hashes,     \* info hashes
          BatchSize,  \* conf.BatchSize
          MaxMsgs,    \* bound: messages published
          MaxExits    \* bound: times the process stops, panics or is killed

ASSUME IndexerAssumption ==
  /\ BatchSize \in Nat \ {0}
  /\ MaxMsgs \in Nat
  /\ MaxExits \in Nat

VARIABLES sent,           \* number of messages published so far
          latest,         \* hash -> number of its newest message, 0 if none
          ready,          \* broker: messages waiting in the queue
          unacked,        \* broker: delivered and not acknowledged, in tag order
          taken,          \* how many of unacked the loop of Start has received
          pc,             \* "receive", "save", "ack" or "nack"
          batch,          \* i.batch
          es,             \* index: hash -> number of the message it shows, 0 if none
          marking,        \* batches whose search_updated goroutine is still to run
          searchUpdated,  \* hashes whose search_updated flag is true in MongoDB
          exits,          \* times the process has gone down
          applied,        \* history: messages Elasticsearch has applied
          rejected,       \* history: items refused inside a bulk that succeeded
          dropped         \* history: messages acknowledged because malformed

broker == <<sent, latest, ready, unacked>>
process == <<taken, pc, batch, marking>>
history == <<applied, rejected, dropped>>
vars == <<broker, process, history, es, searchUpdated, exits>>

\* ok: does json.Unmarshal accept the body?
Msg == [id : 1 .. MaxMsgs, hash : Hashes, ok : BOOLEAN]
Ids(seq) == {seq[i].id : i \in DOMAIN seq}

TypeOK ==
  /\ sent \in 0 .. MaxMsgs
  /\ latest \in [Hashes -> 0 .. MaxMsgs]
  /\ ready \in Seq(Msg)
  /\ unacked \in Seq(Msg) /\ Len(unacked) <= BatchSize
  /\ taken \in Nat
  /\ pc \in {"receive", "save", "ack", "nack"}
  /\ batch \in Seq(Msg) /\ Len(batch) <= BatchSize
  /\ es \in [Hashes -> 0 .. MaxMsgs]
  /\ marking \in SUBSET (SUBSET Hashes)
  /\ searchUpdated \in SUBSET Hashes
  /\ exits \in 0 .. MaxExits
  /\ applied \in SUBSET Msg
  /\ rejected \in SUBSET Msg
  /\ dropped \in SUBSET Msg

Init ==
  /\ sent = 0
  /\ latest = [h \in Hashes |-> 0]
  /\ ready = << >>
  /\ unacked = << >>
  /\ taken = 0
  /\ pc = "receive"
  /\ batch = << >>
  /\ es = [h \in Hashes |-> 0]
  /\ marking = {}
  /\ searchUpdated = {}
  /\ exits = 0
  /\ applied = {}
  /\ rejected = {}
  /\ dropped = {}

-----------------------------------------------------------------------------
(* The broker.                                                             *)

\* A new version of a torrent is stored, with its flag cleared ...
Store(h) ==
  /\ searchUpdated' = searchUpdated \ {h}
  /\ UNCHANGED <<broker, process, history, es, exits>>

\* ... and later published: the crawler's new_torrent and the tracker's
\* tracker_updated.
Publish(h) ==
  /\ sent < MaxMsgs
  /\ sent' = sent + 1
  /\ latest' = [latest EXCEPT ![h] = sent + 1]
  /\ ready' = Append(ready, [id |-> sent + 1, hash |-> h, ok |-> TRUE])
  /\ UNCHANGED <<unacked, process, history, es, searchUpdated, exits>>

\* Something that is not a torrent reaches one of the bound exchanges.
PublishMalformed(h) ==
  /\ sent < MaxMsgs
  /\ sent' = sent + 1
  /\ ready' = Append(ready, [id |-> sent + 1, hash |-> h, ok |-> FALSE])
  /\ UNCHANGED <<latest, unacked, process, history, es, searchUpdated, exits>>

\* Mutant: the batch is refused without requeueing it.
NackMultipleDiscards(n) ==
  /\ unacked' = SubSeq(unacked, n + 1, Len(unacked))
  /\ ready' = ready

\* Mutant: the batch is published again, behind what is waiting.
NackMultipleBehind(n) ==
  /\ unacked' = SubSeq(unacked, n + 1, Len(unacked))
  /\ ready' = ready \o SubSeq(unacked, 1, n)

\* Mutant: a window that cannot hold a batch.
PrefetchShort == BatchSize - 1

\* client.SetQos(int(conf.BatchSize))
Prefetch == BatchSize

Deliver ==
  /\ ready # << >>
  /\ Len(unacked) < Prefetch
  /\ unacked' = Append(unacked, Head(ready))
  /\ ready' = Tail(ready)
  /\ UNCHANGED <<sent, latest, process, history, es, searchUpdated, exits>>

\* delivery.Ack(true) and delivery.Nack(true, true) on the n-th unacknowledged
\* delivery settle it and all before it; requeued messages go back in front.
AckMultiple(n) ==
  /\ unacked' = SubSeq(unacked, n + 1, Len(unacked))
  /\ ready' = ready

NackMultiple(n) ==
  /\ unacked' = SubSeq(unacked, n + 1, Len(unacked))
  /\ ready' = SubSeq(unacked, 1, n) \o ready

-----------------------------------------------------------------------------
(* The loop of Start.                                                      *)

\* A body that does not unmarshal is acknowledged alone and forgotten.
ReceiveMalformed ==
  /\ pc = "receive"
  /\ taken < Len(unacked)
  /\ ~unacked[taken + 1].ok
  /\ unacked' = SubSeq(unacked, 1, taken) \o SubSeq(unacked, taken + 2, Len(unacked))
  /\ dropped' = dropped \cup {unacked[taken + 1]}
  /\ UNCHANGED <<sent, latest, ready, process, applied, rejected, es, searchUpdated, exits>>

\* A torrent joins the batch; the one that fills it starts the bulk request.
ReceiveTorrent ==
  /\ pc = "receive"
  /\ taken < Len(unacked)
  /\ unacked[taken + 1].ok
  /\ batch' = Append(batch, unacked[taken + 1])
  /\ taken' = taken + 1
  /\ pc' = IF Len(batch) + 1 >= BatchSize THEN "save" ELSE "receive"
  /\ UNCHANGED <<broker, marking, history, es, searchUpdated, exits>>

\* Elasticsearch applies the given items of the batch, in order.
Apply(items) ==
  /\ applied' = applied \cup {batch[i] : i \in items}
  /\ es' = [h \in Hashes |->
              LET hits == {i \in items : batch[i].hash = h}
              IN  IF hits = {} THEN es[h]
                  ELSE batch[CHOOSE i \in hits : \A j \in hits : j <= i].id]

\* batchSaveToIndex when Do returns an error: a timeout may come after
\* Elasticsearch has applied any part of the request.
BulkFails(items) ==
  /\ pc = "save"
  /\ Apply(items)
  /\ pc' = "nack"
  /\ UNCHANGED <<broker, taken, batch, marking, rejected, dropped, searchUpdated, exits>>

\* batchSaveToIndex when Do succeeds.  The response is not looked at, so an
\* item refused on its own counts as indexed.  The flags are set later.
BulkSucceeds(items) ==
  /\ pc = "save"
  /\ Apply(items)
  /\ rejected' = rejected \cup {batch[i] : i \in DOMAIN batch \ items}
  /\ marking' = marking \cup {{batch[i].hash : i \in DOMAIN batch}}
  /\ pc' = "ack"
  /\ UNCHANGED <<broker, taken, batch, dropped, searchUpdated, exits>>

Ack ==
  /\ pc = "ack"
  /\ AckMultiple(taken)
  /\ batch' = << >>
  /\ taken' = 0
  /\ pc' = "receive"
  /\ UNCHANGED <<sent, latest, marking, history, es, searchUpdated, exits>>

\* Mutant: the batch is not emptied after a Nack.
NackKeepsBatch ==
  /\ pc = "nack"
  /\ NackMultiple(taken)
  /\ taken' = 0
  /\ pc' = "receive"
  /\ UNCHANGED <<sent, latest, batch, marking, history, es, searchUpdated, exits>>

Nack ==
  /\ pc = "nack"
  /\ NackMultiple(taken)
  /\ batch' = << >>
  /\ taken' = 0
  /\ pc' = "receive"
  /\ UNCHANGED <<sent, latest, marking, history, es, searchUpdated, exits>>

\* The goroutine of batchSaveToIndex: UpdateMany sets search_updated, or
\* fails and is not tried again.
MarkSearchUpdated(hashes) ==
  /\ marking' = marking \ {hashes}
  /\ searchUpdated' \in {searchUpdated, searchUpdated \cup hashes}
  /\ UNCHANGED <<broker, taken, pc, batch, history, es, exits>>

\* Stop, a panic (an Ack or Nack that fails, a closed deliveries channel) or
\* a kill: the broker requeues all deliveries and a new process starts.
Exit ==
  /\ exits < MaxExits
  /\ exits' = exits + 1
  /\ ready' = unacked \o ready
  /\ unacked' = << >>
  /\ taken' = 0
  /\ pc' = "receive"
  /\ batch' = << >>
  /\ marking' = {}
  /\ UNCHANGED <<sent, latest, history, es, searchUpdated>>

-----------------------------------------------------------------------------
Next ==
  \/ \E h \in Hashes : Store(h) \/ Publish(h) \/ PublishMalformed(h)
  \/ Deliver
  \/ ReceiveMalformed
  \/ ReceiveTorrent
  \/ \E items \in SUBSET DOMAIN batch : BulkFails(items) \/ BulkSucceeds(items)
  \/ Ack
  \/ Nack
  \/ \E hashes \in marking : MarkSearchUpdated(hashes)
  \/ Exit

Spec == Init /\ [][Next]_vars

-----------------------------------------------------------------------------
(* Properties.                                                             *)

\* The batch is what the loop has received and not acknowledged, in order:
\* so the cumulative Ack or Nack on its last delivery settles the batch and
\* nothing else, whatever was dropped, requeued or redelivered before.
BatchIsUnacked ==
  /\ taken = Len(batch)
  /\ taken <= Len(unacked)
  /\ \A i \in 1 .. taken : unacked[i] = batch[i]

SettledIds == {m.id : m \in applied \cup rejected \cup dropped}

\* Every message published is still with the broker (waiting or unacknowledged)
\* or has been applied to the index; the exceptions are a malformed body and
\* an item refused inside a bulk that succeeded.  Holds over failed bulks,
\* partly applied bulks, panics and kills at any point.
NoLoss ==
  \A n \in 1 .. sent :
    n \in Ids(ready) \cup Ids(unacked) \cup SettledIds

\* The index shows the newest version of a torrent unless that version is
\* still with the broker or was refused: a redelivered older version never
\* ends up over a newer one.
IndexIsCurrent ==
  \A h \in Hashes :
    \/ latest[h] \in Ids(ready) \cup Ids(unacked)
    \/ es[h] = latest[h]
    \/ \E m \in rejected : m.id = latest[h]

\* A torrent flagged search_updated is in the index, or its item was refused.
FlagMeansIndexed ==
  \A h \in searchUpdated : es[h] # 0 \/ \E m \in rejected : m.hash = h

\* The backlog drains to less than one batch: the prefetch window is wide
\* enough to fill a batch, whatever malformed deliveries are in between.
\* (What is left waits for more messages: the loop has no timed flush.)
BacklogDrains == <>[](Len(ready) + Len(unacked) < BatchSize)
=============================================================================
