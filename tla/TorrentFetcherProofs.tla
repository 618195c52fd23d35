------------------------ MODULE TorrentFetcherProofs ------------------------
(***************************************************************************)
(* Proofs about TorrentFetcher, for any set of hashes, any placement of    *)
(* their bits, any number of handlers and workers and any queue sizes.     *)
(*                                                                         *)
(* What a worker has done is recorded only by where it is: WorkInv says    *)
(* that a worker about to publish has stored its torrent and one about to  *)
(* add has published it.  DiskInv relates the filter in memory to the two  *)
(* files through the steps of Stop.                                        *)
(***************************************************************************)
EXTENDS TorrentFetcher, SequenceTheorems, TLAPS

WorkInv ==
  \A w \in Workers :
    /\ pc[w] \in {"publish", "add"} => req[w] \in db
    /\ pc[w] = "add" => req[w] \in published

DiskInv ==
  /\ FileIsWhole
  /\ mode = "saved" => tmp.whole /\ file.bits \subseteq tmp.bits /\ tmp.bits \subseteq keys
  /\ mode # "down" => file.bits \subseteq keys

Inv == TypeOK /\ PublishedIsStored /\ FilterIsVouchedFor /\ WorkInv /\ DiskInv
           /\ CheckedIsRecognised

LEMMA LocationsMonotone ==
  ASSUME NEW S, NEW T, S \subseteq T
  PROVE  LocationsOf(S) \subseteq LocationsOf(T)
BY DEF LocationsOf

LEMMA InitInv == Init => Inv
<1> SUFFICES ASSUME Init PROVE Inv
  OBVIOUS
<1>1. TypeOK
  BY FetcherAssumption DEF Init, TypeOK, Saved, Fresh
<1>2. PublishedIsStored /\ FilterIsVouchedFor
  BY DEF Init, PublishedIsStored, FilterIsVouchedFor, Fresh
<1>3. WorkInv /\ CheckedIsRecognised
  BY FetcherAssumption DEF Init, WorkInv, CheckedIsRecognised, Procs
<1>4. DiskInv
  BY DEF Init, DiskInv, FileIsWhole, Fresh
<1> QED
  BY <1>1, <1>2, <1>3, <1>4 DEF Inv

\* What moving a goroutine does to the types of pc and req.
LEMMA MoveType ==
  ASSUME TypeOK, NEW p \in Procs,
         \/ \E label \in {"commit", "send", "found", "upsert", "publish", "add"} :
              GoTo(p, label) /\ pc[p] \notin {"idle", "done"}
         \/ GoTo(p, "done")
         \/ Finish(p)
         \/ \E h \in Hashes, label \in {"unchecked", "commit", "find", "pull"} :
              Begin(p, h, label)
  PROVE  /\ pc' \in [Procs -> {"idle", "unchecked", "commit", "send", "find", "found", "pull",
                               "upsert", "publish", "add", "done"}]
         /\ req' \in [Procs -> Hashes \cup {None}]
         /\ \A q \in Procs : pc'[q] \notin {"idle", "done"} => req'[q] # None
         /\ \A q \in Procs \ {p} : pc'[q] = pc[q] /\ req'[q] = req[q]
<1>1. CASE \E label \in {"commit", "send", "found", "upsert", "publish", "add"} :
             GoTo(p, label) /\ pc[p] \notin {"idle", "done"}
  BY <1>1 DEF TypeOK, GoTo
<1>2. CASE GoTo(p, "done")
  BY <1>2 DEF TypeOK, GoTo
<1>3. CASE Finish(p)
  BY <1>3 DEF TypeOK, Finish
<1>4. CASE \E h \in Hashes, label \in {"unchecked", "commit", "find", "pull"} :
             Begin(p, h, label)
  BY <1>4, FetcherAssumption DEF TypeOK, Begin
<1> QED
  BY <1>1, <1>2, <1>3, <1>4

\* A handler or the checker moves, and neither the filter, the files nor the
\* world changes: the rest of the invariant follows from what happens to the
\* unchecked queue.
LEMMA KeepsInv ==
  ASSUME Inv, TypeOK', CheckedIsRecognised',
         UNCHANGED <<mode, keys, disk, world>>,
         \A w \in Workers : pc'[w] \in {"publish", "add"} => pc'[w] = pc[w] /\ req'[w] = req[w]
  PROVE  Inv'
<1>1. PublishedIsStored' /\ FilterIsVouchedFor' /\ DiskInv'
  BY DEF Inv, PublishedIsStored, FilterIsVouchedFor, DiskInv, FileIsWhole, disk, world,
         LocationsOf
<1>2. WorkInv'
  BY DEF Inv, WorkInv, world
<1> QED
  BY <1>1, <1>2 DEF Inv

LEMMA PushInv ==
  ASSUME Inv, NEW p \in Handlers, NEW h \in Hashes, Push(p, h)
  PROVE  Inv'
<1>1. p \in Procs /\ p \notin Workers /\ Workers \subseteq Procs
  BY FetcherAssumption DEF Procs
<1>2. Begin(p, h, IF Exists(h) THEN "unchecked" ELSE "commit")
  BY DEF Push
<1>3. UNCHANGED <<mode, keys, disk, queues, world, exits>>
  BY DEF Push
<1>4. /\ TypeOK'
      /\ \A q \in Procs \ {p} : pc'[q] = pc[q] /\ req'[q] = req[q]
  BY <1>1, <1>2, <1>3, MoveType DEF Inv, TypeOK, disk, queues, world
<1>5. CheckedIsRecognised'
  <2>1. pc'[p] = "unchecked" => Locations[req'[p]] \subseteq keys
    BY <1>1, <1>2 DEF Begin, Exists, Inv, TypeOK
  <2>2. pc'[p] \in {"unchecked", "commit"}
    BY <1>1, <1>2 DEF Begin, Inv, TypeOK
  <2> QED
    BY <1>3, <1>4, <2>1, <2>2 DEF Inv, CheckedIsRecognised, Exists, queues
<1> QED
  BY <1>1, <1>3, <1>4, <1>5, KeepsInv

LEMMA PushUncheckedInv ==
  ASSUME Inv, NEW p \in Handlers, PushUnchecked(p)
  PROVE  Inv'
<1>1. p \in Procs /\ p \notin Workers /\ Workers \subseteq Procs
  BY FetcherAssumption DEF Procs
<1>2. Finish(p) /\ req[p] \in Hashes /\ Locations[req[p]] \subseteq keys
  BY <1>1 DEF PushUnchecked, Inv, TypeOK, CheckedIsRecognised, Exists
<1>3. UNCHANGED <<mode, keys, disk, tasks, world, exits>>
  BY DEF PushUnchecked
<1>4. /\ unchecked' \in Seq(Hashes) /\ Len(unchecked') <= UncheckedSize
      /\ \A i \in DOMAIN unchecked' : Locations[unchecked'[i]] \subseteq keys
  <2>1. /\ unchecked' = Append(unchecked, req[p]) /\ unchecked \in Seq(Hashes)
        /\ Len(unchecked) < UncheckedSize /\ UncheckedSize \in Nat
        /\ \A i \in DOMAIN unchecked : Locations[unchecked[i]] \subseteq keys
    BY FetcherAssumption DEF PushUnchecked, Inv, TypeOK, CheckedIsRecognised, Exists
  <2> QED
    BY <1>2, <2>1, AppendProperties
<1>5. /\ TypeOK'
      /\ \A q \in Procs \ {p} : pc'[q] = pc[q] /\ req'[q] = req[q]
  BY <1>1, <1>2, <1>3, <1>4, MoveType DEF Inv, TypeOK, disk, world
<1>6. pc'[p] = "idle"
  BY <1>1, <1>2 DEF Finish, Inv, TypeOK
<1>7. CheckedIsRecognised'
  BY <1>3, <1>4, <1>5, <1>6 DEF Inv, CheckedIsRecognised, Exists
<1> QED
  BY <1>1, <1>3, <1>5, <1>7, KeepsInv

LEMMA CommitInv ==
  ASSUME Inv, NEW p \in Handlers \cup {Checker}, CommitRuns(p)
  PROVE  Inv'
<1>1. p \in Procs /\ p \notin Workers /\ Workers \subseteq Procs
  BY FetcherAssumption DEF Procs
<1>2. /\ UNCHANGED <<mode, keys, disk, unchecked, world, exits>>
      /\ Finish(p) \/ (GoTo(p, "send") /\ pc[p] = "commit")
  BY DEF CommitRuns, Commit, CommitSend, queues
<1>3. /\ \A q \in Procs \ {p} : pc'[q] = pc[q] /\ req'[q] = req[q]
      /\ pc'[p] \in {"idle", "send"}
  BY <1>1, <1>2, MoveType DEF Inv, TypeOK, Finish, GoTo
<1>4. tasks' \in Seq(Hashes) /\ Len(tasks') <= TorrentMaxQueueSize
  <2>1. CASE Commit(p)
    BY <2>1 DEF Commit, queues, Inv, TypeOK
  <2>2. CASE CommitSend(p)
    <3>1. req[p] \in Hashes /\ tasks \in Seq(Hashes) /\ tasks' = Append(tasks, req[p])
      BY <1>1, <2>2 DEF CommitSend, Inv, TypeOK
    <3>2. tasks' \in Seq(Hashes) /\ Len(tasks') = Len(tasks) + 1 /\ Len(tasks) \in Nat
      BY <3>1, AppendProperties
    <3> QED
      BY <2>2, <3>2, FetcherAssumption DEF CommitSend
  <2> QED
    BY <2>1, <2>2 DEF CommitRuns
<1>5. TypeOK'
  BY <1>1, <1>2, <1>4, MoveType DEF Inv, TypeOK, disk, world
<1>6. CheckedIsRecognised'
  BY <1>2, <1>3 DEF Inv, CheckedIsRecognised, Exists
<1> QED
  BY <1>1, <1>2, <1>3, <1>5, <1>6, KeepsInv

LEMMA CheckerInv ==
  ASSUME Inv, CheckerRuns
  PROVE  Inv'
<1>1. Checker \in Procs /\ Checker \notin Workers /\ Workers \subseteq Procs
  BY FetcherAssumption DEF Procs
<1>2. CASE CheckTake
  <2>1. /\ unchecked \in Seq(Hashes) /\ unchecked # << >> /\ unchecked' = Tail(unchecked)
        /\ \A i \in DOMAIN unchecked : Locations[unchecked[i]] \subseteq keys
    BY <1>2 DEF CheckTake, Inv, TypeOK, CheckedIsRecognised, Exists
  <2>2. /\ Head(unchecked) \in Hashes /\ unchecked' \in Seq(Hashes)
        /\ Len(unchecked') = Len(unchecked) - 1 /\ Len(unchecked) \in Nat
        /\ Locations[Head(unchecked)] \subseteq keys
        /\ \A i \in DOMAIN unchecked' : Locations[unchecked'[i]] \subseteq keys
    BY <2>1, HeadTailProperties
  <2>3. UNCHANGED <<mode, keys, disk, tasks, world, exits>>
    BY <1>2 DEF CheckTake
  <2>4. Begin(Checker, Head(unchecked), "find")
    BY <1>2 DEF CheckTake
  <2>5. /\ TypeOK'
        /\ \A q \in Procs \ {Checker} : pc'[q] = pc[q] /\ req'[q] = req[q]
    <3>1. Len(unchecked') <= UncheckedSize
      BY <2>2, FetcherAssumption DEF Inv, TypeOK
    <3> QED
      BY <1>1, <2>2, <2>3, <2>4, <3>1, MoveType DEF Inv, TypeOK, disk, world
  <2>6. req'[Checker] = Head(unchecked)
    BY <1>1, <2>4 DEF Begin, Inv, TypeOK
  <2>7. CheckedIsRecognised'
    BY <2>2, <2>3, <2>5, <2>6 DEF Inv, CheckedIsRecognised, Exists
  <2> QED
    BY <1>1, <2>3, <2>5, <2>7, KeepsInv
<1>3. CASE CheckFind \/ CheckFails \/ CheckAdd
  <2>1. /\ UNCHANGED <<mode, disk, queues, world, exits>>
        /\ \/ GoTo(Checker, "found") \/ GoTo(Checker, "commit") \/ Finish(Checker)
        /\ pc[Checker] \in {"find", "found"}
    BY <1>3 DEF CheckFind, CheckFails, CheckAdd
  <2>2. Locations[req[Checker]] \subseteq keys
    BY <1>1, <2>1 DEF Inv, CheckedIsRecognised, Exists
  <2>3. UNCHANGED keys
    BY <1>3, <2>2 DEF CheckFind, CheckFails, CheckAdd, Add
  <2>4. /\ TypeOK'
        /\ \A q \in Procs \ {Checker} : pc'[q] = pc[q] /\ req'[q] = req[q]
    BY <1>1, <2>1, <2>3, MoveType DEF Inv, TypeOK, disk, queues, world
  <2>5. pc'[Checker] \in {"commit", "idle"} \/ req'[Checker] = req[Checker]
    BY <1>1, <2>1 DEF Finish, GoTo, Inv, TypeOK
  <2>6. CheckedIsRecognised'
    BY <2>1, <2>2, <2>3, <2>4, <2>5 DEF Inv, CheckedIsRecognised, Exists, queues
  <2> QED
    BY <1>1, <2>1, <2>3, <2>4, <2>6, KeepsInv
<1> QED
  BY <1>2, <1>3 DEF CheckerRuns

\* The steps of a worker that do not touch MongoDB, the broker or the filter.
LEMMA WorkerMovesInv ==
  ASSUME Inv, NEW w \in Workers, WorkerTake(w) \/ PullFails(w) \/ PullSucceeds(w)
  PROVE  Inv'
<1>1. w \in Procs /\ Workers \subseteq Procs
  BY DEF Procs
<1>2. UNCHANGED <<mode, keys, disk, unchecked, world, exits>>
  BY DEF WorkerTake, PullFails, PullSucceeds, queues
<1>3. /\ tasks' \in Seq(Hashes) /\ Len(tasks') <= TorrentMaxQueueSize
      /\ \/ \E h \in Hashes : Begin(w, h, "pull")
         \/ Finish(w)
         \/ GoTo(w, "upsert") /\ pc[w] = "pull"
  <2>1. CASE WorkerTake(w)
    <3>1. tasks \in Seq(Hashes) /\ tasks # << >> /\ tasks' = Tail(tasks)
      BY <2>1 DEF WorkerTake, Inv, TypeOK
    <3>2. /\ Head(tasks) \in Hashes /\ tasks' \in Seq(Hashes)
          /\ Len(tasks') = Len(tasks) - 1 /\ Len(tasks) \in Nat
      BY <3>1, HeadTailProperties
    <3>3. Len(tasks') <= TorrentMaxQueueSize
      BY <3>2, FetcherAssumption DEF Inv, TypeOK
    <3> QED
      BY <2>1, <3>2, <3>3 DEF WorkerTake
  <2>2. CASE PullFails(w) \/ PullSucceeds(w)
    BY <2>2 DEF PullFails, PullSucceeds, queues, Inv, TypeOK
  <2> QED
    BY <2>1, <2>2
<1>4. /\ TypeOK'
      /\ \A q \in Procs \ {w} : pc'[q] = pc[q] /\ req'[q] = req[q]
  BY <1>1, <1>2, <1>3, MoveType DEF Inv, TypeOK, disk, world
<1>5. pc'[w] \in {"pull", "idle", "upsert"}
  BY <1>1, <1>3 DEF Begin, Finish, GoTo, Inv, TypeOK
<1>6. CheckedIsRecognised'
  BY <1>2, <1>4, <1>5 DEF Inv, CheckedIsRecognised, Exists
<1> QED
  BY <1>1, <1>2, <1>4, <1>5, <1>6, KeepsInv

\* The steps that store, announce and add.
LEMMA WorkerStoresInv ==
  ASSUME Inv, NEW w \in Workers,
         \/ UpsertSucceeds(w) \/ UpsertFails(w)
         \/ PublishSucceeds(w) \/ PublishFails(w) \/ WorkerAdd(w)
  PROVE  Inv'
<1>1. w \in Procs /\ Workers \subseteq Procs
  BY DEF Procs
<1>2. /\ UNCHANGED <<mode, disk, queues, exits>>
      /\ pc[w] \in {"upsert", "publish", "add"}
      /\ Finish(w) \/ GoTo(w, "publish") \/ GoTo(w, "add")
  BY DEF UpsertSucceeds, UpsertFails, PublishSucceeds, PublishFails, WorkerAdd
<1>3. req[w] \in Hashes
  BY <1>1, <1>2 DEF Inv, TypeOK
<1>4. /\ db' \in SUBSET Hashes /\ published' \in SUBSET Hashes /\ keys' \in SUBSET Bits
      /\ db \subseteq db' /\ published \subseteq published' /\ keys \subseteq keys'
  BY <1>3, FetcherAssumption
     DEF UpsertSucceeds, UpsertFails, PublishSucceeds, PublishFails, WorkerAdd, Add, world,
         Inv, TypeOK
<1>5. /\ TypeOK'
      /\ \A q \in Procs \ {w} : pc'[q] = pc[q] /\ req'[q] = req[q]
  BY <1>1, <1>2, <1>4, MoveType DEF Inv, TypeOK, disk, queues
<1>6. pc'[w] = "idle" \/ (pc'[w] \in {"publish", "add"} /\ req'[w] = req[w])
  BY <1>1, <1>2, SMTT(20) DEF Finish, GoTo, Inv, TypeOK
<1>7. CheckedIsRecognised'
  BY <1>2, <1>4, <1>5, <1>6 DEF Inv, CheckedIsRecognised, Exists, queues
<1>8. DiskInv'
  BY <1>2, <1>4 DEF Inv, DiskInv, FileIsWhole, disk
<1>9. WorkInv'
  <2>1. pc'[w] \in {"publish", "add"} => req'[w] \in db'
    BY <1>1, <1>6, <1>4 DEF UpsertSucceeds, UpsertFails, PublishSucceeds, PublishFails,
          WorkerAdd, GoTo, Finish, Inv, TypeOK, WorkInv
  <2>2. pc'[w] = "add" => req'[w] \in published'
    BY <1>1, <1>6, <1>4, SMTT(20) DEF UpsertSucceeds, UpsertFails, PublishSucceeds, PublishFails,
          WorkerAdd, GoTo, Finish, Inv, TypeOK
  <2> QED
    BY <1>1, <1>4, <1>5, <2>1, <2>2 DEF Inv, WorkInv
<1>10. PublishedIsStored'
  BY <1>4, SMTT(20) DEF UpsertSucceeds, UpsertFails, PublishSucceeds, PublishFails,
          WorkerAdd, world, Inv, WorkInv, PublishedIsStored
<1>11. FilterIsVouchedFor'
  <2>1. LocationsOf(published \cap db) \subseteq LocationsOf(published' \cap db')
    BY <1>4, LocationsMonotone
  <2>2. keys' \subseteq keys \/ (WorkerAdd(w) /\ keys' = keys \cup Locations[req[w]])
    BY DEF UpsertSucceeds, UpsertFails, PublishSucceeds, PublishFails, WorkerAdd, Add
  <2>3. WorkerAdd(w) => Locations[req[w]] \subseteq LocationsOf(published' \cap db')
    BY <1>4 DEF WorkerAdd, Inv, WorkInv, LocationsOf
  <2> QED
    BY <1>2, <2>1, <2>2, <2>3 DEF Inv, FilterIsVouchedFor, disk
<1> QED
  BY <1>5, <1>7, <1>8, <1>9, <1>10, <1>11 DEF Inv

LEMMA QuitInv ==
  ASSUME Inv, NEW p \in Workers \cup {Checker}, Quit(p)
  PROVE  Inv'
<1>1. p \in Procs /\ Workers \subseteq Procs
  BY DEF Procs
<1>2. UNCHANGED <<mode, keys, disk, queues, world, exits>> /\ GoTo(p, "done")
  BY DEF Quit
<1>3. /\ TypeOK'
      /\ \A q \in Procs \ {p} : pc'[q] = pc[q] /\ req'[q] = req[q]
      /\ pc'[p] = "done"
  BY <1>1, <1>2, MoveType DEF Inv, TypeOK, GoTo, disk, queues, world
<1>4. CheckedIsRecognised'
  BY <1>2, <1>3 DEF Inv, CheckedIsRecognised, Exists, queues
<1> QED
  BY <1>1, <1>2, <1>3, <1>4, KeepsInv

LEMMA StopInv ==
  ASSUME Inv, Stop \/ CreateTmp \/ Save \/ Rename
  PROVE  Inv'
<1>1. UNCHANGED <<keys, queues, procs, world, exits>>
  BY DEF Stop, CreateTmp, Save, Rename
<1>2. /\ mode' \in {"cancelled", "writing", "saved", "stopped"} /\ mode # "down"
      /\ file' \in Saved /\ tmp' \in Saved
  <2>1. keys \in SUBSET Bits /\ file \in Saved /\ tmp \in Saved
    BY DEF Inv, TypeOK
  <2>2. Fresh \in Saved /\ [whole |-> FALSE, bits |-> {}] \in Saved
        /\ [whole |-> TRUE, bits |-> keys] \in Saved
    BY <2>1 DEF Fresh, Saved
  <2> HIDE DEF Saved, Fresh
  <2> QED
    BY <2>1, <2>2 DEF Stop, CreateTmp, Save, Rename, disk
<1>3. TypeOK'
  BY <1>1, <1>2 DEF Inv, TypeOK, queues, procs, world
<1>4. CheckedIsRecognised' /\ WorkInv' /\ PublishedIsStored'
  BY <1>1 DEF Inv, CheckedIsRecognised, Exists, WorkInv, PublishedIsStored, queues, procs, world
<1>5. DiskInv'
  <2>1. CASE Stop \/ CreateTmp
    BY <1>1, <1>2, <2>1 DEF Stop, CreateTmp, disk, Inv, DiskInv, FileIsWhole
  <2>2. CASE Save
    BY <1>1, <1>2, <2>2 DEF Save, Inv, DiskInv, FileIsWhole
  <2>3. CASE Rename
    BY <1>1, <1>2, <2>3 DEF Rename, Inv, DiskInv, FileIsWhole
  <2> QED
    BY <2>1, <2>2, <2>3
<1>6. FilterIsVouchedFor'
  <2>1. file'.bits \cup tmp'.bits \subseteq keys \cup file.bits \cup tmp.bits
    BY DEF Stop, CreateTmp, Save, Rename, disk, Fresh
  <2> QED
    BY <1>1, <2>1 DEF Inv, FilterIsVouchedFor, LocationsOf, world
<1> QED
  BY <1>3, <1>4, <1>5, <1>6 DEF Inv

LEMMA ExitInv ==
  ASSUME Inv, Exit
  PROVE  Inv'
<1>1. /\ mode' = "down" /\ keys' = {} /\ exits' \in 0 .. MaxExits
      /\ unchecked' = << >> /\ tasks' = << >>
      /\ pc' = [p \in Procs |-> "idle"] /\ req' = [p \in Procs |-> None]
      /\ UNCHANGED <<disk, world>>
  BY FetcherAssumption DEF Exit, Inv, TypeOK
<1>2. TypeOK'
  BY <1>1, FetcherAssumption DEF Inv, TypeOK, disk, world
<1>3. CheckedIsRecognised' /\ WorkInv'
  BY <1>1 DEF CheckedIsRecognised, WorkInv, Procs
<1>4. DiskInv' /\ PublishedIsStored'
  BY <1>1 DEF Inv, DiskInv, FileIsWhole, PublishedIsStored, disk, world
<1>5. FilterIsVouchedFor'
  BY <1>1 DEF Inv, FilterIsVouchedFor, LocationsOf, disk, world
<1> QED
  BY <1>2, <1>3, <1>4, <1>5 DEF Inv

\* While the process is down no goroutine is at work.
DownInv ==
  mode = "down" => unchecked = << >> /\ tasks = << >> /\ \A p \in Procs : pc[p] = "idle"

LEMMA StartInv ==
  ASSUME Inv, DownInv, Start
  PROVE  Inv'
<1>1. /\ mode = "down" /\ mode' = "up" /\ keys' = file.bits
      /\ UNCHANGED <<disk, queues, procs, world, exits>>
  BY DEF Start
<1>2. TypeOK'
  BY <1>1 DEF Inv, TypeOK, Saved, disk, queues, procs, world
<1>3. CheckedIsRecognised' /\ WorkInv' /\ PublishedIsStored'
  BY <1>1 DEF Inv, DownInv, CheckedIsRecognised, WorkInv, PublishedIsStored, queues, procs,
              world
<1>4. DiskInv' /\ FilterIsVouchedFor'
  BY <1>1 DEF Inv, DiskInv, FileIsWhole, FilterIsVouchedFor, LocationsOf, disk, world
<1> QED
  BY <1>2, <1>3, <1>4 DEF Inv

LEMMA OnlyStart ==
  ASSUME DownInv, mode = "down", Next
  PROVE  Start
<1>1. /\ unchecked = << >> /\ tasks = << >>
      /\ \A p \in Handlers \cup Workers \cup {Checker} : pc[p] = "idle"
  BY DEF DownInv, Procs
<1>2. ~\E p \in Handlers : PushUnchecked(p) \/ \E h \in Hashes : Push(p, h)
  BY <1>1 DEF PushUnchecked, Push
<1>3. ~\E p \in Handlers \cup {Checker} : CommitRuns(p)
  BY <1>1 DEF CommitRuns, Commit, CommitSend
<1>4. ~CheckerRuns
  BY <1>1 DEF CheckerRuns, CheckTake, CheckFind, CheckFails, CheckAdd
<1>5. ~\E w \in Workers : WorkerRuns(w)
  BY <1>1 DEF WorkerRuns, WorkerTake, PullFails, PullSucceeds, UpsertSucceeds, UpsertFails,
              PublishSucceeds, PublishFails, WorkerAdd
<1>6. ~(\E p \in Workers \cup {Checker} : Quit(p))
  BY DEF Quit
<1>7. ~(Stop \/ CreateTmp \/ Save \/ Rename \/ Exit)
  BY DEF Stop, CreateTmp, Save, Rename, Exit
<1> QED
  BY <1>2, <1>3, <1>4, <1>5, <1>6, <1>7 DEF Next

LEMMA OnlyExit ==
  ASSUME Next, mode # "down", mode' = "down"
  PROVE  Exit
<1>1. ~\E p \in Handlers : PushUnchecked(p) \/ \E h \in Hashes : Push(p, h)
  BY DEF PushUnchecked, Push
<1>2. ~\E p \in Handlers \cup {Checker} : CommitRuns(p)
  BY SMTT(20) DEF CommitRuns, Commit, CommitSend
<1>3. ~CheckerRuns
  BY DEF CheckerRuns, CheckTake, CheckFind, CheckFails, CheckAdd
<1>4. ~\E w \in Workers : WorkerRuns(w)
  BY DEF WorkerRuns, WorkerTake, PullFails, PullSucceeds, UpsertSucceeds, UpsertFails,
         PublishSucceeds, PublishFails, WorkerAdd
<1>5. ~(\E p \in Workers \cup {Checker} : Quit(p))
  BY DEF Quit
<1>6. ~(Stop \/ CreateTmp \/ Save \/ Rename \/ Start)
  BY DEF Stop, CreateTmp, Save, Rename, Start
<1> QED
  BY <1>1, <1>2, <1>3, <1>4, <1>5, <1>6 DEF Next

LEMMA NextInv == Inv /\ DownInv /\ [Next]_vars => Inv' /\ DownInv'
<1> SUFFICES ASSUME Inv, DownInv, [Next]_vars PROVE Inv' /\ DownInv'
  OBVIOUS
<1>1. CASE UNCHANGED vars
  <2>1. TypeOK' /\ DownInv'
    BY <1>1 DEF vars, disk, queues, procs, world, Inv, TypeOK, DownInv
  <2>2. CheckedIsRecognised'
    BY <1>1 DEF vars, queues, procs, Inv, CheckedIsRecognised, Exists
  <2> QED
    BY <1>1, <2>1, <2>2, KeepsInv DEF vars, procs
<1>2. CASE Next
  <2>1. Inv'
    BY <1>2, PushInv, PushUncheckedInv, CommitInv, CheckerInv, WorkerMovesInv,
       WorkerStoresInv, QuitInv, StopInv, ExitInv, StartInv DEF Next, WorkerRuns
  <2>2. DownInv'
    BY <1>2, OnlyStart, OnlyExit DEF DownInv, Start, Exit
  <2> QED
    BY <2>1, <2>2
<1> QED
  BY <1>1, <1>2

LEMMA InvAlways == Spec => [](Inv /\ DownInv)
<1>1. Init => DownInv
  BY DEF Init, DownInv
<1> QED
  BY <1>1, InitInv, NextInv, PTL DEF Spec

\* Type correctness; in particular neither channel exceeds its capacity.
THEOREM TypeCorrect == Spec => []TypeOK
<1>1. Inv => TypeOK
  BY DEF Inv
<1> QED
  BY <1>1, InvAlways, PTL

\* The filter never claims more than what was stored and announced: a torrent
\* whose bits nobody else has set is only taken for known when it is.
THEOREM FilterVouched == Spec => []FilterIsVouchedFor
<1>1. Inv => FilterIsVouchedFor
  BY DEF Inv
<1> QED
  BY <1>1, InvAlways, PTL

\* Whoever receives a new_torrent message finds the torrent in MongoDB.
THEOREM StoredFirst == Spec => []PublishedIsStored
<1>1. Inv => PublishedIsStored
  BY DEF Inv
<1> QED
  BY <1>1, InvAlways, PTL

\* The Add of checkExistLoop changes no bit.
THEOREM CheckedRecognised == Spec => []CheckedIsRecognised
<1>1. Inv => CheckedIsRecognised
  BY DEF Inv
<1> QED
  BY <1>1, InvAlways, PTL

\* The filter file always loads, wherever the process died.
THEOREM FileWhole == Spec => []FileIsWhole
<1>1. Inv => FileIsWhole
  BY DEF Inv, DiskInv
<1> QED
  BY <1>1, InvAlways, PTL

LEMMA FileKept ==
  ASSUME Next, ~Rename
  PROVE  UNCHANGED file
<1> USE DEF disk
<1>1. ASSUME NEW p \in Handlers, PushUnchecked(p) \/ \E h \in Hashes : Push(p, h)
      PROVE  UNCHANGED file
  BY <1>1 DEF PushUnchecked, Push
<1>2. ASSUME NEW p \in Handlers \cup {Checker}, CommitRuns(p)
      PROVE  UNCHANGED file
  BY <1>2 DEF CommitRuns, Commit, CommitSend
<1>3. CheckerRuns => UNCHANGED file
  BY DEF CheckerRuns, CheckTake, CheckFind, CheckFails, CheckAdd
<1>4. ASSUME NEW w \in Workers, WorkerRuns(w)
      PROVE  UNCHANGED file
  BY <1>4 DEF WorkerRuns, WorkerTake, PullFails, PullSucceeds, UpsertSucceeds, UpsertFails,
              PublishSucceeds, PublishFails, WorkerAdd
<1>5. (\E p \in Workers \cup {Checker} : Quit(p)) => UNCHANGED file
  BY DEF Quit
<1>6. Stop \/ CreateTmp \/ Save \/ Exit \/ Start => UNCHANGED file
  BY DEF Stop, CreateTmp, Save, Exit, Start
<1> QED
  BY <1>1, <1>2, <1>3, <1>4, <1>5, <1>6 DEF Next

\* Saving never loses what an earlier run of the process had saved.
THEOREM SavedGrows == Spec => SavedFilterGrows
<1>1. Inv /\ [Next]_vars => [file.bits \subseteq file'.bits]_vars
  BY FileKept DEF Rename, Inv, DiskInv
<1> QED
  BY <1>1, InvAlways, PTL DEF Spec, SavedFilterGrows
=============================================================================
