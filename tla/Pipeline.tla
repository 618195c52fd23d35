------------------------------ MODULE Pipeline ------------------------------
(***************************************************************************)
(* One torrent's document and its copies.  The fetcher stores a torrent    *)
(* and announces it; the updater stores the tracker's counts and announces *)
(* the whole document as it then is; the crawler's DBPersist writes that   *)
(* snapshot back over the document, and the indexer copies it to the       *)
(* index; a tracker started with -recover announces documents as it has    *)
(* read them.  MongoDB, the two queues and the processes in between run on *)
(* their own, so every copy may be of another age.                         *)
(*                                                                         *)
(* The counts a document holds are named by the number of the result that  *)
(* set them; Null is a document nobody has asked a tracker about.  The     *)
(* index keeps the counts it has when an announced torrent carries none.   *)
(***************************************************************************)
EXTENDS Indexer

CONSTANTS MaxResults,  \* bound: results of the tracker
          PreFetch     \* conf.AMQPPreFetch: messages at DBPersist at a time

ASSUME PipelineAssumption ==
  Hashes # {} /\ MaxResults \in Nat /\ PreFetch \in Nat \ {0}

Absent == -1
Null == 0

VARIABLES counts,    \* hash -> the counts of its document, Null, or Absent
          newest,    \* hash -> the newest counts the updater has stored
          results,   \* number of results so far
          snapshot,  \* the document the updater has stored and not published
          pulled,    \* torrents a fetcher has stored and not published
          persist,   \* queue db_persist: snapshots
          carries,   \* message number -> the counts it carries
          shown,     \* index: hash -> the counts it shows
          failed,    \* history: a snapshot was not published, or requeued
          found,     \* documents Recover has read and not published
          behind     \* history: hashes last announced with other than the newest counts

documents == <<counts, newest, results, snapshot, pulled, persist, carries, failed,
               found, behind>>
pipelineVars == <<vars, documents, shown>>

recover == <<found, behind>>

Snapshot == [hash : Hashes, counts : 1 .. MaxResults]
Document == [hash : Hashes, counts : Null .. MaxResults]

PipelineTypeOK ==
  /\ counts \in [Hashes -> Absent .. MaxResults]
  /\ newest \in [Hashes -> Null .. MaxResults]
  /\ results \in 0 .. MaxResults
  /\ snapshot \in Seq(Snapshot) /\ Len(snapshot) <= 1
  /\ pulled \in SUBSET Hashes
  /\ persist \in Seq(Snapshot)
  /\ carries \in Seq(Null .. MaxResults) /\ Len(carries) = sent
  /\ shown \in [Hashes -> Null .. MaxResults]
  /\ failed \in BOOLEAN
  /\ found \in SUBSET Document
  /\ behind \in SUBSET Hashes

PipelineInit ==
  /\ Init
  /\ counts = [h \in Hashes |-> Absent]
  /\ newest = [h \in Hashes |-> Null]
  /\ results = 0
  /\ snapshot = << >> /\ pulled = {} /\ persist = << >> /\ carries = << >>
  /\ shown = [h \in Hashes |-> Null]
  /\ failed = FALSE
  /\ found = {} /\ behind = {}

\* Bound: a document is stored or read only if MaxMsgs leaves room to publish one.
Room == sent + Cardinality(pulled) + Len(snapshot) + Cardinality(found) < MaxMsgs

-----------------------------------------------------------------------------
(* TorrentFetcher.handleTorrent: the whole document is written anew, also  *)
(* when the torrent is stored already, and then announced.                 *)

Pull(h) ==
  /\ h \notin pulled
  /\ Room
  /\ Store(h)
  /\ counts' = [counts EXCEPT ![h] = Null]
  /\ pulled' = pulled \cup {h}
  /\ UNCHANGED <<newest, results, snapshot, persist, carries, shown, failed, recover>>

AnnounceTorrent(h) ==
  /\ h \in pulled
  /\ Publish(h)
  /\ pulled' = pulled \ {h}
  /\ carries' = Append(carries, Null)
  /\ UNCHANGED <<counts, newest, results, snapshot, persist, shown, failed, recover>>

\* It is stored, and nobody hears of it.
AnnounceTorrentFails(h) ==
  /\ h \in pulled
  /\ pulled' = pulled \ {h}
  /\ UNCHANGED <<vars, counts, newest, results, snapshot, persist, carries, shown, failed, recover>>

\* The hash of a malformed body means nothing.
Malformed ==
  /\ Room
  /\ PublishMalformed(CHOOSE h \in Hashes : TRUE)
  /\ carries' = Append(carries, Null)
  /\ UNCHANGED <<counts, newest, results, snapshot, pulled, persist, shown, failed, recover>>

-----------------------------------------------------------------------------
(* TrackerUpdater.handleResult: FindOneAndUpdate, and then the document it *)
(* returns is published, to both queues.                                   *)

\* A result for a torrent without a document changes nothing.
HandleResult(h) ==
  /\ snapshot = << >>
  /\ counts[h] # Absent
  /\ results < MaxResults /\ Room
  /\ results' = results + 1
  /\ Store(h)
  /\ counts' = [counts EXCEPT ![h] = results + 1]
  /\ newest' = [newest EXCEPT ![h] = results + 1]
  /\ snapshot' = <<[hash |-> h, counts |-> results + 1]>>
  /\ UNCHANGED <<pulled, persist, carries, shown, failed, recover>>

PublishSnapshot ==
  /\ snapshot # << >>
  /\ Publish(snapshot[1].hash)
  /\ carries' = Append(carries, snapshot[1].counts)
  /\ persist' = Append(persist, snapshot[1])
  /\ snapshot' = << >>
  /\ behind' = behind \ {snapshot[1].hash}
  /\ UNCHANGED <<counts, newest, results, pulled, shown, failed, found>>

PublishSnapshotFails ==
  /\ snapshot # << >>
  /\ snapshot' = << >>
  /\ failed' = TRUE
  /\ behind' = behind \cup {snapshot[1].hash}
  /\ UNCHANGED <<vars, counts, newest, results, pulled, persist, carries, shown, found>>

-----------------------------------------------------------------------------
(* TrackerUpdater.Recover, in a process of its own.  The find is for       *)
(* documents without tracker_last_tried_at, and a document with counts may *)
(* be without it: the scrape of a new torrent does not set it.             *)

RecoverFind ==
  /\ found = {}
  /\ \E hs \in SUBSET {h \in Hashes : counts[h] # Absent} \ {{}} :
       /\ Room
       /\ found' = {[hash |-> h, counts |-> counts[h]] : h \in hs}
  /\ UNCHANGED <<vars, counts, newest, results, snapshot, pulled, persist, carries, shown, failed, behind>>

\* The document is announced as it was read, counts included.
RecoverPublish(d) ==
  /\ Publish(d.hash)
  /\ carries' = Append(carries, d.counts)
  /\ found' = found \ {d}
  /\ behind' = CASE d.counts = Null -> behind
                 [] d.counts # Null /\ d.counts = newest[d.hash] -> behind \ {d.hash}
                 [] d.counts # Null /\ d.counts # newest[d.hash] -> behind \cup {d.hash}
  /\ UNCHANGED <<counts, newest, results, snapshot, pulled, persist, shown, failed>>

\* An error ends Recover.
RecoverFails ==
  /\ found # {}
  /\ found' = {}
  /\ UNCHANGED <<vars, counts, newest, results, snapshot, pulled, persist, carries, shown, failed, behind>>

-----------------------------------------------------------------------------
(* DBPersist.consumeNewTorrent, one message at a time.                     *)

\* Mutant: the messages at the subscriber are handled in any order.
ConsumeNewTorrentAnyOrder ==
  \E i \in DOMAIN persist :
    /\ Store(persist[i].hash)
    /\ counts' = [counts EXCEPT ![persist[i].hash] = persist[i].counts]
    /\ persist' = SubSeq(persist, 1, i - 1) \o SubSeq(persist, i + 1, Len(persist))
    /\ UNCHANGED <<newest, results, snapshot, pulled, carries, shown, failed, recover>>

\* The document becomes the snapshot, whatever happened to it since.  If the
\* process exits before the Ack, the message is delivered again.
ConsumeNewTorrent ==
  /\ persist # << >>
  /\ Store(persist[1].hash)
  /\ counts' = [counts EXCEPT ![persist[1].hash] = persist[1].counts]
  /\ persist' \in {persist, Tail(persist)}
  /\ UNCHANGED <<newest, results, snapshot, pulled, carries, shown, failed, recover>>

\* Update fails: the message is requeued, behind those already at the subscriber.
ConsumeNewTorrentFails ==
  /\ persist # << >>
  /\ \E n \in 1 .. PreFetch :
       /\ n <= Len(persist)
       /\ persist' = SubSeq(persist, 2, n) \o <<persist[1]>> \o SubSeq(persist, n + 1, Len(persist))
  /\ failed' = TRUE
  /\ UNCHANGED <<vars, counts, newest, results, snapshot, pulled, carries, shown, recover>>

-----------------------------------------------------------------------------
(* The indexer, with what its bulk requests do to the counts shown.        *)

\* Mutant: a torrent without counts clears those of the index.
ShowCleared(items) ==
  shown' = [h \in Hashes |->
              LET hits == {i \in items : batch[i].hash = h}
              IN  IF hits = {} THEN shown[h]
                  ELSE carries[batch[CHOOSE i \in hits : \A j \in hits : j <= i].id]]

\* Seeders and Leechers are left out of the partial update when they are nil.
Show(items) ==
  shown' = [h \in Hashes |->
              LET hits == {i \in items : batch[i].hash = h /\ carries[batch[i].id] # Null}
              IN  IF hits = {} THEN shown[h]
                  ELSE carries[batch[CHOOSE i \in hits : \A j \in hits : j <= i].id]]

IndexerMoves ==
  /\ Deliver \/ ReceiveMalformed \/ ReceiveTorrent \/ Ack \/ Nack
  /\ UNCHANGED <<documents, shown>>
IndexerMarks ==
  /\ \E hashes \in marking : MarkSearchUpdated(hashes)
  /\ UNCHANGED <<documents, shown>>
IndexerExits == Exit /\ UNCHANGED <<documents, shown>>
IndexerSaves ==
  /\ \E items \in SUBSET DOMAIN batch : BulkSucceeds(items) /\ Show(items)
  /\ UNCHANGED documents
IndexerSaveFails ==
  /\ \E items \in SUBSET DOMAIN batch : BulkFails(items) /\ Show(items)
  /\ UNCHANGED documents
IndexerBulks == IndexerSaves \/ IndexerSaveFails

PipelineNext ==
  \/ \E h \in Hashes :
       Pull(h) \/ AnnounceTorrent(h) \/ AnnounceTorrentFails(h) \/ HandleResult(h)
  \/ Malformed \/ PublishSnapshot \/ PublishSnapshotFails
  \/ RecoverFind \/ RecoverFails \/ \E d \in found : RecoverPublish(d)
  \/ ConsumeNewTorrent \/ ConsumeNewTorrentFails
  \/ IndexerMoves \/ IndexerBulks \/ IndexerMarks \/ IndexerExits

PipelineSpec == PipelineInit /\ [][PipelineNext]_pipelineVars

\* The broker keeps delivering, the indexer's loop keeps running, and
\* Elasticsearch does not refuse every request for ever.
PipelineFairSpec ==
  /\ PipelineSpec
  /\ WF_pipelineVars(IndexerMoves)
  /\ WF_pipelineVars(IndexerBulks)
  /\ SF_pipelineVars(IndexerSaves)

-----------------------------------------------------------------------------
(* Properties.                                                             *)

Quiet == snapshot = << >> /\ pulled = {} /\ persist = << >>

\* Once DBPersist has caught up, no document is left with counts older than
\* the newest: writing old snapshots back heals itself, and a document is
\* only without counts because its torrent was pulled again.  (Not after a
\* failed publication or Update, which may leave the last snapshot behind.)
CountsSettle ==
  Quiet /\ ~failed => \A h \in Hashes : counts[h] \in {Absent, Null, newest[h]}

\* The index never shows counts newer than the updater's, and once a torrent
\* has no message left with the broker it shows the newest ones, whatever was
\* requeued, indexed twice or announced without counts.  (Not while the newest
\* counts are not the last announced: their publication failed, or Recover
\* has since announced the torrent with the older counts it had read.)
IndexShowsNewest ==
  \A h \in Hashes :
    /\ shown[h] <= newest[h]
    /\ \/ shown[h] = newest[h]
       \/ h \in behind
       \/ \E i \in DOMAIN snapshot : snapshot[i].hash = h
       \/ \E m \in rejected : m.hash = h
       \/ \E i \in DOMAIN ready : ready[i].hash = h
       \/ \E i \in DOMAIN unacked : unacked[i].hash = h
=============================================================================
