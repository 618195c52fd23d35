--------------------------- MODULE TrackerUpdater ---------------------------
(***************************************************************************)
(* tracker/internal/svc/tracker.go: seeders and leechers are asked from a  *)
(* BitTorrent tracker for new torrents (handleNewTorrent, in batches) and  *)
(* again for torrents tried more than six hours ago (the fetch loop, which *)
(* keeps itself going with one token in needUpdate).  With -recover the    *)
(* process instead announces again what MongoDB shows as never tried.      *)
(* What the tracker answers, handleResult, is in Pipeline.                  *)
(*                                                                         *)
(* External: MongoDB, the broker and the tracker client, whose calls may   *)
(* fail.  tracker_last_tried_at is kept as a rank: 0 is null, and a        *)
(* greater rank is a later time; equal ranks are the same UpdateMany.      *)
(***************************************************************************)
EXTENDS Integers, Sequences, FiniteSets

CONSTANTS Torrents,      \* info hashes
          Unreadable,    \* a message that is not the JSON of a torrent
          BadHash,       \* a torrent whose info hash is not hexadecimal
          TrackerLimit,  \* conf.TrackerLimit
          MaxQueue,      \* bound: messages waiting when the crawler stores or sends another
          MaxExits       \* bound: times the process goes down

ASSUME UpdaterAssumption ==
  /\ IsFiniteSet(Torrents)
  /\ Unreadable \notin Torrents /\ BadHash \notin Torrents /\ Unreadable # BadHash
  /\ TrackerLimit \in Nat \ {0}
  /\ MaxQueue \in Nat
  /\ MaxExits \in Nat

VARIABLES stored,      \* torrents in MongoDB
          lastTried,   \* torrent -> rank of tracker_last_tried_at
          outdated,    \* torrents tried more than six hours ago
          queue,       \* broker: the queue new_torrent_tracker
          newPc,       \* handleNewTorrent: "idle" or "scrape"
          batch,       \* u.batch
          needUpdate,  \* tokens in the channel needUpdate, of capacity 1
          timers,      \* AfterFunc timers that will send to needUpdate
          pc,          \* the main goroutine: where it is
          records,     \* torrents refreshTracker or Recover is working on
          ids,         \* Recover: those of them it has announced
          exits,       \* times the process has gone down
          owed,        \* history: torrents acknowledged, and not yet sent to the tracker
          announced    \* history: torrents announced, by the crawler or by Recover

mongo == <<stored, lastTried, outdated>>
newTorrent == <<newPc, batch>>
refresh == <<needUpdate, timers, pc, records, ids>>
vars == <<mongo, queue, newTorrent, refresh, exits, owed, announced>>

Readable == Torrents \cup {BadHash}

TypeOK ==
  /\ stored \in SUBSET Torrents
  /\ lastTried \in [Torrents -> Nat]
  /\ outdated \in SUBSET stored
  /\ queue \in Seq(Readable \cup {Unreadable})
  /\ newPc \in {"idle", "scrape"}
  /\ batch \in Seq(Readable) /\ Len(batch) < TrackerLimit
  /\ needUpdate \in {0, 1}
  /\ timers \in Nat
  /\ pc \in {"start", "select", "find", "mark", "scrape", "defer",
             "recover", "republish", "markRecovered"}
  /\ records \in SUBSET Torrents
  /\ ids \in SUBSET records
  /\ exits \in 0 .. MaxExits
  /\ owed \in SUBSET Readable
  /\ announced \in SUBSET Torrents

Init ==
  /\ stored = {}
  /\ lastTried = [t \in Torrents |-> 0]
  /\ outdated = {}
  /\ queue = << >>
  /\ newPc = "idle"
  /\ batch = << >>
  /\ needUpdate = 0
  /\ timers = 0
  /\ pc = "start"
  /\ records = {}
  /\ ids = {}
  /\ exits = 0
  /\ owed = {}
  /\ announced = {}

-----------------------------------------------------------------------------
(* MongoDB and the broker.                                                 *)

Tried == {t \in stored : lastTried[t] > 0}
Running == pc \notin {"start", "recover", "republish", "markRecovered"}
InBatch == {batch[i] : i \in DOMAIN batch}

\* Ranks closed up again, so that they stay within the number of torrents.
Ranked(time) ==
  [t \in Torrents |-> Cardinality({time[u] : u \in {v \in Torrents : time[v] <= time[t]}} \ {0})]

\* UpdateMany with $currentDate on tracker_last_tried_at.
Touch(which) ==
  /\ lastTried' = Ranked([t \in Torrents |->
                            IF t \in which THEN Cardinality(Torrents) + 1 ELSE lastTried[t]])
  /\ outdated' = outdated \ which
  /\ UNCHANGED stored

\* The crawler's handleTorrent upserts the whole document, in which
\* tracker_last_tried_at is null.
CrawlerUpsert(t) ==
  /\ Len(queue) < MaxQueue
  /\ stored' = stored \cup {t}
  /\ lastTried' = Ranked([lastTried EXCEPT ![t] = 0])
  /\ outdated' = outdated \ {t}
  /\ UNCHANGED <<queue, newTorrent, refresh, exits, owed, announced>>

\* Then it announces the torrent on new_torrent: some time later, or never when
\* Publish fails or the crawler goes down.
CrawlerPublish(t) ==
  /\ t \in stored
  /\ Len(queue) < MaxQueue
  /\ queue' = Append(queue, t)
  /\ announced' = announced \cup {t}
  /\ UNCHANGED <<mongo, newTorrent, refresh, exits, owed>>

\* A message of some other program.
PublishOther ==
  /\ Len(queue) < MaxQueue
  /\ \E msg \in {Unreadable, BadHash} : queue' = Append(queue, msg)
  /\ UNCHANGED <<mongo, newTorrent, refresh, exits, owed, announced>>

\* Time passes: what was tried earliest is six hours old first.
Age(t) ==
  /\ t \in Tried \ outdated
  /\ outdated' = {u \in Tried : lastTried[u] <= lastTried[t]}
  /\ UNCHANGED <<stored, lastTried, queue, newTorrent, refresh, exits, owed, announced>>

-----------------------------------------------------------------------------
(* handleNewTorrent.  The subscriber hands over one message at a time and  *)
(* waits for its Ack or Nack; a message that is nacked returns to the      *)
(* queue, behind those the subscriber had already fetched.                 *)

\* The message is nacked, and the batch is as it was before it.
Nack ==
  \E fetched \in 1 .. Len(queue) :
    queue' = SubSeq(queue, 2, fetched) \o <<Head(queue)>>
               \o SubSeq(queue, fetched + 1, Len(queue))

\* handleNewTorrent is given the next message, which it can unmarshal or not.
NextMessage ==
  /\ Running
  /\ newPc = "idle"
  /\ queue # << >>

\* A message that does not fill the batch is acknowledged at once.
CollectNew ==
  /\ NextMessage
  /\ Head(queue) # Unreadable
  /\ Len(batch) < TrackerLimit - 1
  /\ batch' = Append(batch, Head(queue))
  /\ queue' = Tail(queue)
  /\ owed' = owed \cup {Head(queue)}
  /\ UNCHANGED <<mongo, newPc, refresh, exits, announced>>

FillBatch ==
  /\ NextMessage
  /\ Head(queue) # Unreadable
  /\ Len(batch) >= TrackerLimit - 1
  /\ BadHash \notin InBatch \cup {Head(queue)}
  /\ newPc' = "scrape"
  /\ UNCHANGED <<mongo, queue, batch, refresh, exits, owed, announced>>

\* Unmarshal fails, or DecodeString does for a torrent of the batch.
RefuseNew ==
  /\ NextMessage
  /\ \/ Head(queue) = Unreadable
     \/ Len(batch) >= TrackerLimit - 1 /\ BadHash \in InBatch \cup {Head(queue)}
  /\ Nack
  /\ UNCHANGED <<mongo, newTorrent, refresh, exits, owed, announced>>

ScrapeNew ==
  /\ newPc = "scrape"
  /\ newPc' = "idle"
  /\ owed' = owed \ (InBatch \cup {Head(queue)})
  /\ batch' = << >>
  /\ queue' = Tail(queue)
  /\ UNCHANGED <<mongo, refresh, exits, announced>>

\* Mutant: the batch is emptied before the error is looked at.
ScrapeNewFailsEmpties ==
  /\ newPc = "scrape"
  /\ newPc' = "idle"
  /\ batch' = << >>
  /\ UNCHANGED <<mongo, queue, refresh, exits, owed, announced>>

\* Scrape fails.
ScrapeNewFails ==
  /\ newPc = "scrape"
  /\ newPc' = "idle"
  /\ Nack
  /\ UNCHANGED <<mongo, batch, refresh, exits, owed, announced>>

-----------------------------------------------------------------------------
(* The fetch loop and refreshTracker.                                      *)

Start ==
  /\ pc = "start"
  /\ needUpdate' = 1
  /\ pc' = "select"
  /\ UNCHANGED <<mongo, queue, newTorrent, timers, records, ids, exits, owed, announced>>

Fetch ==
  /\ pc = "select"
  /\ needUpdate = 1
  /\ needUpdate' = 0
  /\ pc' = "find"
  /\ UNCHANGED <<mongo, queue, newTorrent, timers, records, ids, exits, owed, announced>>

\* Mutant: the latest are taken first.
SelectedNewestFirst(size) ==
  {found \in SUBSET outdated :
     /\ Cardinality(found) <= size
     /\ found # outdated => Cardinality(found) = size
     /\ \A t \in found, u \in outdated \ found : lastTried[t] >= lastTried[u]}

\* getRecords: the torrents the query can answer with, sorted by
\* tracker_last_tried_at, at most size of them.
Selected(size) ==
  {found \in SUBSET outdated :
     /\ Cardinality(found) <= size
     /\ found # outdated => Cardinality(found) = size
     /\ \A t \in found, u \in outdated \ found : lastTried[t] <= lastTried[u]}

GetRecords ==
  /\ pc = "find"
  /\ records' \in Selected(TrackerLimit)
  /\ pc' = "mark"
  /\ UNCHANGED <<mongo, queue, newTorrent, needUpdate, timers, ids, exits, owed, announced>>

GetRecordsFails ==
  /\ pc = "find"
  /\ pc' = "defer"
  /\ UNCHANGED <<mongo, queue, newTorrent, needUpdate, timers, records, ids, exits, owed,
                 announced>>

MarkTried ==
  /\ pc = "mark"
  /\ Touch(records)
  /\ pc' = "scrape"
  /\ UNCHANGED <<queue, newTorrent, needUpdate, timers, records, ids, exits, owed, announced>>

\* UpdateMany fails, perhaps after it was applied: the records are not scraped.
MarkTriedFails ==
  /\ pc = "mark"
  /\ Touch(records) \/ UNCHANGED mongo
  /\ pc' = "defer"
  /\ UNCHANGED <<queue, newTorrent, needUpdate, timers, records, ids, exits, owed, announced>>

\* Scrape, whose error is only logged.
ScrapeRecords ==
  /\ pc = "scrape"
  /\ pc' = "defer"
  /\ UNCHANGED <<mongo, queue, newTorrent, needUpdate, timers, records, ids, exits, owed,
                 announced>>

\* Mutant: the timer is started as well when there were records.
RefreshAgainTwice ==
  /\ pc = "defer"
  /\ needUpdate' = IF records # {} THEN 1 ELSE needUpdate
  /\ timers' = timers + 1
  /\ records' = {}
  /\ pc' = "select"
  /\ UNCHANGED <<mongo, queue, newTorrent, ids, exits, owed, announced>>

\* The deferred function: send the token at once, or in ten seconds.
RefreshAgain ==
  /\ pc = "defer"
  /\ IF records # {}
     THEN needUpdate = 0 /\ needUpdate' = 1 /\ UNCHANGED timers
     ELSE timers' = timers + 1 /\ UNCHANGED needUpdate
  /\ records' = {}
  /\ pc' = "select"
  /\ UNCHANGED <<mongo, queue, newTorrent, ids, exits, owed, announced>>

TimerFires ==
  /\ timers > 0
  /\ needUpdate = 0
  /\ timers' = timers - 1
  /\ needUpdate' = 1
  /\ UNCHANGED <<mongo, queue, newTorrent, pc, records, ids, exits, owed, announced>>

-----------------------------------------------------------------------------
(* Recover, run instead of Start when the process is given -recover.       *)

\* Mutant: the batch is marked as soon as it is found.
RecoverFindMarks ==
  /\ pc = "recover"
  /\ stored \ Tried # {}
  /\ records' \in {found \in SUBSET (stored \ Tried) :
                    /\ Cardinality(found) <= TrackerLimit
                    /\ found # stored \ Tried => Cardinality(found) = TrackerLimit}
  /\ Touch(records')
  /\ pc' = "republish"
  /\ UNCHANGED <<queue, newTorrent, needUpdate, timers, ids, exits, owed, announced>>

RecoverFind ==
  /\ pc = "recover"
  /\ stored \ Tried # {}
  /\ records' \in {found \in SUBSET (stored \ Tried) :
                    /\ Cardinality(found) <= TrackerLimit
                    /\ found # stored \ Tried => Cardinality(found) = TrackerLimit}
  /\ pc' = "republish"
  /\ UNCHANGED <<mongo, queue, newTorrent, needUpdate, timers, ids, exits, owed, announced>>

Republish(t) ==
  /\ pc = "republish"
  /\ t \in records \ ids
  /\ queue' = Append(queue, t)
  /\ ids' = ids \cup {t}
  /\ announced' = announced \cup {t}
  /\ pc' = IF ids' = records THEN "markRecovered" ELSE pc
  /\ UNCHANGED <<mongo, newTorrent, needUpdate, timers, records, exits, owed>>

MarkRecovered ==
  /\ pc = "markRecovered"
  /\ Touch(ids)
  /\ records' = {}
  /\ ids' = {}
  /\ pc' = "recover"
  /\ UNCHANGED <<queue, newTorrent, needUpdate, timers, exits, owed, announced>>

\* Nothing is left: main returns, and the tracker is started without the flag.
RecoverDone ==
  /\ pc = "recover"
  /\ stored = Tried
  /\ pc' = "start"
  /\ UNCHANGED <<mongo, queue, newTorrent, needUpdate, timers, records, ids, exits, owed,
                 announced>>

\* The process ends: Stop, a failed call in Recover (main panics), a kill.  It
\* comes back with or without -recover; the broker has kept the queue.
Exit ==
  /\ exits < MaxExits
  /\ exits' = exits + 1
  /\ newPc' = "idle"
  /\ batch' = << >>
  /\ needUpdate' = 0
  /\ timers' = 0
  /\ records' = {}
  /\ ids' = {}
  /\ pc' \in {"start", "recover"}
  /\ owed' = {}
  /\ UNCHANGED <<mongo, queue, announced>>

-----------------------------------------------------------------------------
FetchLoop ==
  \/ Start \/ Fetch \/ GetRecords \/ GetRecordsFails \/ MarkTried \/ MarkTriedFails
  \/ ScrapeRecords \/ RefreshAgain

NewTorrentLoop == CollectNew \/ FillBatch \/ RefuseNew \/ ScrapeNew \/ ScrapeNewFails

Recover ==
  \/ RecoverFind \/ MarkRecovered \/ RecoverDone
  \/ \E t \in Torrents : Republish(t)

Next ==
  \/ \E t \in Torrents : CrawlerUpsert(t) \/ CrawlerPublish(t) \/ Age(t)
  \/ PublishOther
  \/ NewTorrentLoop
  \/ FetchLoop
  \/ TimerFires
  \/ Recover
  \/ Exit

Spec == Init /\ [][Next]_vars

\* The goroutines run, and MongoDB answers, and does not fail the same call for
\* ever.  Scrape need not return: it waits without a timeout until the tracker
\* has accepted a connection.
Fairness ==
  /\ WF_vars(pc # "scrape" /\ FetchLoop)
  /\ WF_vars(TimerFires)
  /\ WF_vars(Recover)
  /\ SF_vars(GetRecords)
  /\ SF_vars(MarkTried)

FairSpec == Spec /\ Fairness

-----------------------------------------------------------------------------
(* Properties.                                                             *)

\* There is exactly one token: in needUpdate, in a timer, or with the fetch
\* loop between its receive and its deferred send.  So the send of
\* refreshTracker, which runs in the loop that is the only receiver, never
\* waits for itself, and two refreshes never overlap.
OneToken ==
  Running => needUpdate + timers + (IF pc = "select" THEN 0 ELSE 1) = 1

\* A new_torrent message is acknowledged before its torrent is scraped, and
\* still none is dropped while the process runs: it was sent to the tracker,
\* or waits in the batch, whatever Scrape calls failed in between.
AckedIsKept == owed \subseteq InBatch

\* A torrent the crawler has stored and failed to announce stays untried, which
\* is how Recover finds it, until it is announced: whatever fails in Recover
\* between its three steps, and whatever the refreshes mark meanwhile, which
\* may have found a torrent before the crawler stored it again.
TriedWasAnnounced == Tried \subseteq announced

\* While the fetch loop runs, and as long as its calls to Scrape return, every
\* torrent whose last try is six hours old gets its turn, however many others
\* keep growing old.
OutdatedGetsItsTurn ==
  []<>(pc # "scrape") =>
    \A t \in Torrents : (t \in outdated /\ Running) ~> (t \notin outdated \/ ~Running)
=============================================================================
