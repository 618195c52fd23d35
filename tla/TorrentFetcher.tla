--------------------------- MODULE TorrentFetcher ---------------------------
(***************************************************************************)
(* crawler/internal/svc/torrent_fetcher.go with the executor               *)
(* (common/executor/executor.go) and the Bloom filter                      *)
(* (common/util/bloom.go): the packet handlers push info hashes; a hash    *)
(* the filter does not know is committed to the workers, one it seems to   *)
(* know is looked up in MongoDB first.  A worker pulls the metadata from   *)
(* the peer, stores the torrent, publishes new_torrent, and only then adds *)
(* the hash to the filter.  Stop saves the filter for the next start.      *)
(*                                                                         *)
(* External: the peers, MongoDB, the broker and the file system, each of   *)
(* which may fail at any call.                                             *)
(***************************************************************************)
EXTENDS Integers, Sequences, FiniteSets

CONSTANTS Hashes,               \* info hashes
          Bits,                 \* bit positions of the filter, 0 .. m - 1
          Locations,            \* hash -> its bit positions
          Handlers,             \* the goroutines of Crawler.handlerLoop
          Checker,              \* the goroutine of checkExistLoop
          Workers,              \* the goroutines of Executor.Start
          UncheckedSize,        \* capacity of uncheckedChan
          TorrentMaxQueueSize,  \* conf.TorrentMaxQueueSize, capacity of tasks
          MaxExits,             \* bound: times the process goes down
          None                  \* no request

ASSUME FetcherAssumption ==
  /\ Locations \in [Hashes -> SUBSET Bits]
  /\ Checker \notin Handlers \cup Workers
  /\ Handlers \cap Workers = {}
  /\ None \notin Hashes
  /\ UncheckedSize \in Nat \ {0}
  /\ TorrentMaxQueueSize \in Nat \ {0}
  /\ MaxExits \in Nat

Procs == Handlers \cup {Checker} \cup Workers

VARIABLES mode,       \* "up", the steps of Stop, or "down"
          keys,       \* bloomFilter.keys
          file,       \* the file at BloomFilterPath
          tmp,        \* the file at BloomFilterPath.tmp
          unchecked,  \* uncheckedChan
          tasks,      \* executor.tasks
          pc,         \* where each goroutine is
          req,        \* the hash it is working on
          db,         \* hashes stored in MongoDB
          published,  \* hashes announced on new_torrent
          exits       \* times the process has gone down

queues == <<unchecked, tasks>>
procs == <<pc, req>>
disk == <<file, tmp>>
world == <<db, published>>
vars == <<mode, keys, disk, queues, procs, world, exits>>

\* A saved filter: whole once Save has returned.  A file that does not exist
\* is the same as a saved empty filter.
Saved == [whole : BOOLEAN, bits : SUBSET Bits]
Fresh == [whole |-> TRUE, bits |-> {}]

TypeOK ==
  /\ mode \in {"up", "cancelled", "writing", "saved", "stopped", "down"}
  /\ keys \in SUBSET Bits
  /\ file \in Saved
  /\ tmp \in Saved
  /\ unchecked \in Seq(Hashes) /\ Len(unchecked) <= UncheckedSize
  /\ tasks \in Seq(Hashes) /\ Len(tasks) <= TorrentMaxQueueSize
  /\ pc \in [Procs -> {"idle", "unchecked", "commit", "send", "find", "found", "pull",
                       "upsert", "publish", "add", "done"}]
  /\ req \in [Procs -> Hashes \cup {None}]
  /\ \A p \in Procs : pc[p] \notin {"idle", "done"} => req[p] # None
  /\ db \in SUBSET Hashes
  /\ published \in SUBSET Hashes
  /\ exits \in 0 .. MaxExits

Init ==
  /\ mode = "up"
  /\ keys = {}
  /\ file = Fresh
  /\ tmp = Fresh
  /\ unchecked = << >>
  /\ tasks = << >>
  /\ pc = [p \in Procs |-> "idle"]
  /\ req = [p \in Procs |-> None]
  /\ db = {}
  /\ published = {}
  /\ exits = 0

-----------------------------------------------------------------------------
(* The Bloom filter.  Add and Exists hold its lock for their whole body.   *)

Exists(h) == Locations[h] \subseteq keys

Add(h) == keys' = keys \cup Locations[h]

-----------------------------------------------------------------------------
GoTo(p, label) ==
  /\ pc' = [pc EXCEPT ![p] = label]
  /\ req' = req

Finish(p) ==
  /\ pc' = [pc EXCEPT ![p] = "idle"]
  /\ req' = [req EXCEPT ![p] = None]

Begin(p, h, label) ==
  /\ pc' = [pc EXCEPT ![p] = label]
  /\ req' = [req EXCEPT ![p] = h]

(* Push, called by a handler for an announce_peer request.                 *)

\* Mutant: the two branches are swapped.
PushSwapped(p, h) ==
  /\ mode # "down"
  /\ pc[p] = "idle"
  /\ Begin(p, h, IF Exists(h) THEN "commit" ELSE "unchecked")
  /\ UNCHANGED <<mode, keys, disk, queues, world, exits>>

\* Mutant: what the filter knows is taken for stored, without a look-up.
PushTrustsFilter(p, h) ==
  /\ mode # "down"
  /\ pc[p] = "idle"
  /\ IF Exists(h) THEN UNCHANGED procs ELSE Begin(p, h, "commit")
  /\ UNCHANGED <<mode, keys, disk, queues, world, exits>>

Push(p, h) ==
  /\ mode # "down"
  /\ pc[p] = "idle"
  /\ Begin(p, h, IF Exists(h) THEN "unchecked" ELSE "commit")
  /\ UNCHANGED <<mode, keys, disk, queues, world, exits>>

PushUnchecked(p) ==
  /\ pc[p] = "unchecked"
  /\ Len(unchecked) < UncheckedSize
  /\ unchecked' = Append(unchecked, req[p])
  /\ Finish(p)
  /\ UNCHANGED <<mode, keys, disk, tasks, world, exits>>

\* commit, called by the handlers and the checker: a full queue drops the
\* request.  The size is read before, and apart from, the send.
Commit(p) ==
  /\ pc[p] = "commit"
  /\ IF Len(tasks) >= TorrentMaxQueueSize THEN Finish(p) ELSE GoTo(p, "send")
  /\ UNCHANGED <<mode, keys, disk, queues, world, exits>>

\* Executor.Commit: the send waits while the queue is full.
CommitSend(p) ==
  /\ pc[p] = "send"
  /\ Len(tasks) < TorrentMaxQueueSize
  /\ tasks' = Append(tasks, req[p])
  /\ Finish(p)
  /\ UNCHANGED <<mode, keys, disk, unchecked, world, exits>>

-----------------------------------------------------------------------------
(* checkExistLoop.                                                         *)

CheckTake ==
  /\ pc[Checker] = "idle"
  /\ unchecked # << >>
  /\ unchecked' = Tail(unchecked)
  /\ Begin(Checker, Head(unchecked), "find")
  /\ UNCHANGED <<mode, keys, disk, tasks, world, exits>>

\* FindOne answers: stored, or ErrNoDocuments.
CheckFind ==
  /\ pc[Checker] = "find"
  /\ GoTo(Checker, IF req[Checker] \in db THEN "found" ELSE "commit")
  /\ UNCHANGED <<mode, keys, disk, queues, world, exits>>

\* FindOne fails for another reason: the request is dropped.
CheckFails ==
  /\ pc[Checker] = "find"
  /\ Finish(Checker)
  /\ UNCHANGED <<mode, keys, disk, queues, world, exits>>

CheckAdd ==
  /\ pc[Checker] = "found"
  /\ Add(req[Checker])
  /\ Finish(Checker)
  /\ UNCHANGED <<mode, disk, queues, world, exits>>

-----------------------------------------------------------------------------
(* The workers: Executor.Start running pullTorrent and handleTorrent.      *)

WorkerTake(w) ==
  /\ pc[w] = "idle"
  /\ tasks # << >>
  /\ tasks' = Tail(tasks)
  /\ Begin(w, Head(tasks), "pull")
  /\ UNCHANGED <<mode, keys, disk, unchecked, world, exits>>

\* Mutant: a failed pull ends the worker's goroutine.
PullFailsEndsWorker(w) ==
  /\ pc[w] = "pull"
  /\ GoTo(w, "done")
  /\ UNCHANGED <<mode, keys, disk, queues, world, exits>>

\* The peer is not reachable, or what it sends is not the metadata of a named
\* torrent.
PullFails(w) ==
  /\ pc[w] = "pull"
  /\ Finish(w)
  /\ UNCHANGED <<mode, keys, disk, queues, world, exits>>

PullSucceeds(w) ==
  /\ pc[w] = "pull"
  /\ GoTo(w, "upsert")
  /\ UNCHANGED <<mode, keys, disk, queues, world, exits>>

UpsertSucceeds(w) ==
  /\ pc[w] = "upsert"
  /\ db' = db \cup {req[w]}
  /\ GoTo(w, "publish")
  /\ UNCHANGED <<mode, keys, disk, queues, published, exits>>

\* Mutant: the error of the upsert is only logged.
UpsertFailsGoesOn(w) ==
  /\ pc[w] = "upsert"
  /\ db' \in {db, db \cup {req[w]}}
  /\ GoTo(w, "publish")
  /\ UNCHANGED <<mode, keys, disk, queues, published, exits>>

\* The upsert reports an error; the torrent may be stored all the same.
UpsertFails(w) ==
  /\ pc[w] = "upsert"
  /\ db' \in {db, db \cup {req[w]}}
  /\ Finish(w)
  /\ UNCHANGED <<mode, keys, disk, queues, published, exits>>

PublishSucceeds(w) ==
  /\ pc[w] = "publish"
  /\ published' = published \cup {req[w]}
  /\ GoTo(w, "add")
  /\ UNCHANGED <<mode, keys, disk, queues, db, exits>>

\* Mutant: the error of Publish is only logged.
PublishFailsGoesOn(w) ==
  /\ pc[w] = "publish"
  /\ published' \in {published, published \cup {req[w]}}
  /\ GoTo(w, "add")
  /\ UNCHANGED <<mode, keys, disk, queues, db, exits>>

\* Publish reports an error; the message may have gone out all the same.
PublishFails(w) ==
  /\ pc[w] = "publish"
  /\ published' \in {published, published \cup {req[w]}}
  /\ Finish(w)
  /\ UNCHANGED <<mode, keys, disk, queues, db, exits>>

WorkerAdd(w) ==
  /\ pc[w] = "add"
  /\ Add(req[w])
  /\ Finish(w)
  /\ UNCHANGED <<mode, disk, queues, world, exits>>

-----------------------------------------------------------------------------
(* Stop and restart.                                                       *)

\* f.cancel and executor.Stop.  Nobody is waited for: the goroutines go on
\* until they next look at the context.
Stop ==
  /\ mode = "up"
  /\ exits < MaxExits
  /\ mode' = "cancelled"
  /\ UNCHANGED <<keys, disk, queues, procs, world, exits>>

\* A loop notices the cancelled context; it may take more work before it does.
Quit(p) ==
  /\ mode \notin {"up", "down"}
  /\ pc[p] = "idle"
  /\ GoTo(p, "done")
  /\ UNCHANGED <<mode, keys, disk, queues, world, exits>>

\* Mutant: the filter is written over the file itself.
CreateInPlace ==
  /\ mode = "cancelled"
  /\ mode' = "writing"
  /\ tmp' = [whole |-> FALSE, bits |-> {}]
  /\ file' = tmp'
  /\ UNCHANGED <<keys, queues, procs, world, exits>>

\* os.Create empties the temporary file.
CreateTmp ==
  /\ mode = "cancelled"
  /\ mode' = "writing"
  /\ tmp' = [whole |-> FALSE, bits |-> {}]
  /\ UNCHANGED <<keys, file, queues, procs, world, exits>>

\* bloomFilter.Save, holding the filter's lock, and Close.
Save ==
  /\ mode = "writing"
  /\ mode' = "saved"
  /\ tmp' = [whole |-> TRUE, bits |-> keys]
  /\ UNCHANGED <<keys, file, queues, procs, world, exits>>

Rename ==
  /\ mode = "saved"
  /\ mode' = "stopped"
  /\ file' = tmp
  /\ tmp' = Fresh
  /\ UNCHANGED <<keys, queues, procs, world, exits>>

\* The process ends: after Stop, forced before Stop is done, by a panic on
\* an error inside Stop, or killed.
Exit ==
  /\ mode # "down"
  /\ exits < MaxExits
  /\ exits' = exits + 1
  /\ mode' = "down"
  /\ keys' = {}
  /\ unchecked' = << >>
  /\ tasks' = << >>
  /\ pc' = [p \in Procs |-> "idle"]
  /\ req' = [p \in Procs |-> None]
  /\ UNCHANGED <<disk, world>>

\* Mutant: the saved filter is not loaded.
StartFresh ==
  /\ mode = "down"
  /\ mode' = "up"
  /\ keys' = {}
  /\ UNCHANGED <<disk, queues, procs, world, exits>>

\* NewTorrentFetcher: a filter file that does not load is fatal.
Start ==
  /\ mode = "down"
  /\ file.whole
  /\ mode' = "up"
  /\ keys' = file.bits
  /\ UNCHANGED <<disk, queues, procs, world, exits>>

-----------------------------------------------------------------------------
WorkerRuns(w) ==
  \/ WorkerTake(w) \/ WorkerAdd(w)
  \/ PullSucceeds(w) \/ UpsertSucceeds(w) \/ PublishSucceeds(w)
  \/ PullFails(w) \/ UpsertFails(w) \/ PublishFails(w)

CheckerRuns == CheckTake \/ CheckFind \/ CheckFails \/ CheckAdd

CommitRuns(p) == Commit(p) \/ CommitSend(p)

Next ==
  \/ \E p \in Handlers : PushUnchecked(p) \/ \E h \in Hashes : Push(p, h)
  \/ \E p \in Handlers \cup {Checker} : CommitRuns(p)
  \/ CheckerRuns
  \/ \E w \in Workers : WorkerRuns(w)
  \/ \E p \in Workers \cup {Checker} : Quit(p)
  \/ Stop \/ CreateTmp \/ Save \/ Rename
  \/ Exit \/ Start

Spec == Init /\ [][Next]_vars

\* The goroutines are scheduled, and a call to MongoDB or the broker ends.  A
\* pull need not: a dial through the proxy has no timeout, and each message of
\* the peer renews the deadline of the next read.  A Go channel serves the
\* goroutines waiting to send in the order they came.
Scheduling ==
  /\ \A p \in Handlers : SF_vars(PushUnchecked(p))
  /\ \A p \in Handlers \cup {Checker} : WF_vars(Commit(p)) /\ SF_vars(CommitSend(p))
  /\ WF_vars(CheckerRuns)
  /\ \A w \in Workers : WF_vars(pc[w] # "pull" /\ WorkerRuns(w))
  /\ WF_vars(Start)

\* The DHT keeps announcing each torrent, and no peer, database or broker
\* fails a torrent, or holds a worker, for ever.
Cooperation ==
  /\ \A h \in Hashes : SF_vars(\E p \in Handlers : Push(p, h))
  /\ \A h \in Hashes :
       /\ SF_vars(req[Checker] = h /\ CheckFind)
       /\ SF_vars(\E w \in Workers : req[w] = h /\ PullSucceeds(w))
       /\ SF_vars(\E w \in Workers : req[w] = h /\ UpsertSucceeds(w))
       /\ SF_vars(\E w \in Workers : req[w] = h /\ PublishSucceeds(w))

FairSpec == Spec /\ Scheduling
AnnouncedSpec == Spec /\ Scheduling /\ Cooperation

-----------------------------------------------------------------------------
(* Properties.                                                             *)

LocationsOf(hashes) == UNION {Locations[h] : h \in hashes}

\* Every bit of the filter, in memory or saved, belongs to a torrent that was
\* stored and announced: the filter never claims more than the work that is
\* done, through failures between upsert, publish and Add, a Stop that does
\* not wait for the workers, and restarts.
FilterIsVouchedFor ==
  keys \cup file.bits \cup tmp.bits \subseteq LocationsOf(published \cap db)

\* Whoever receives a new_torrent message finds the torrent in MongoDB.
PublishedIsStored == published \subseteq db

\* A request is looked up in MongoDB only while the filter recognises its
\* hash, so the Add that follows a successful look-up changes no bit.
CheckedIsRecognised ==
  /\ \A i \in DOMAIN unchecked : Exists(unchecked[i])
  /\ \A p \in Procs : pc[p] \in {"unchecked", "find", "found"} => Exists(req[p])

\* The file NewTorrentFetcher loads is never a half-written one, wherever the
\* process dies: the next start does not fail on it.
FileIsWhole == file.whole

\* Saving never loses what an earlier run of the process had saved.
SavedFilterGrows == [][file.bits \subseteq file'.bits]_vars

\* While the fetcher is up a handler is stuck in Push only if every worker is
\* stuck in a pull: as long as one of them gets out of its pulls, the send the
\* handler may block on, when the queue filled up after its size was read, gets
\* its turn.
PushReturns ==
  (\E w \in Workers : []<>(pc[w] # "pull")) =>
    \A p \in Handlers : pc[p] # "idle" ~> (pc[p] = "idle" \/ mode # "up")

\* A torrent that keeps being announced is stored in the end, even when it
\* shares all its bits with others and the filter takes it for known.
EventuallyStored == \A h \in Hashes : <>(h \in db)

\* ... and announced on new_torrent, unless the bits of others cover its own:
\* then the filter may take it for known before it is announced.
EventuallyPublished ==
  \A h \in Hashes :
    ~(Locations[h] \subseteq LocationsOf(Hashes \ {h})) => <>(h \in published)
=============================================================================
