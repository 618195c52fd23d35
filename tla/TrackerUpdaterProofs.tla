------------------------ MODULE TrackerUpdaterProofs ------------------------
(***************************************************************************)
(* Proofs about TrackerUpdater, for any set of torrents and any batch      *)
(* size.  The inductive invariant adds to the properties that a message in *)
(* the hands of handleNewTorrent is still at the head of the queue, that   *)
(* what is being refreshed was announced once, and that what Recover is    *)
(* about to mark it has announced.                                         *)
(***************************************************************************)
EXTENDS TrackerUpdater, FiniteSetTheorems, SequenceTheorems, TLAPS

\* TrackerUpdater!TypeOK with what the steps rely on.
WorkInv ==
  /\ newPc = "scrape" => queue # << >> /\ Running
  /\ batch # << >> => Running
  /\ ~Running => needUpdate = 0 /\ timers = 0 /\ newPc = "idle"
  /\ pc \in {"mark", "scrape", "defer"} => records \subseteq announced
  /\ pc = "markRecovered" => ids = records
  /\ ids \subseteq announced
  /\ outdated \subseteq announced
  /\ pc \in {"start", "select", "find", "recover"} => records = {}
  /\ pc \notin {"republish", "markRecovered"} => ids = {}

Inv == TypeOK /\ OneToken /\ AckedIsKept /\ TriedWasAnnounced /\ WorkInv

\* Closing up the ranks keeps null apart from the times.
LEMMA RankedType ==
  ASSUME NEW time \in [Torrents -> Nat]
  PROVE  /\ Ranked(time) \in [Torrents -> Nat]
         /\ \A t \in Torrents : Ranked(time)[t] > 0 => time[t] > 0
<1> DEFINE below(t) == {time[u] : u \in {v \in Torrents : time[v] <= time[t]}} \ {0}
<1>1. ASSUME NEW t \in Torrents
      PROVE  IsFiniteSet(below(t))
  <2>1. IsFiniteSet({v \in Torrents : time[v] <= time[t]})
    BY UpdaterAssumption, FS_Subset
  <2>2. ASSUME NEW S \in SUBSET Torrents, IsFiniteSet(S)
        PROVE  IsFiniteSet({time[u] : u \in S})
    <3> DEFINE T == {time[u] : u \in S}
               f == [u \in S |-> time[u]]
    <3>1. f \in Surjection(S, T)
      BY DEF Surjection
    <3> HIDE DEF T, f
    <3>2. IsFiniteSet(T)
      BY <2>2, <3>1, FS_Surjection
    <3> QED
      BY <3>2 DEF T
  <2>3. IsFiniteSet({time[u] : u \in {v \in Torrents : time[v] <= time[t]}})
    BY <2>1, <2>2
  <2> QED
    BY <2>3, FS_Subset
<1>2. ASSUME NEW t \in Torrents
      PROVE  Cardinality(below(t)) \in Nat
  BY <1>1, FS_CardinalityType
<1>3. ASSUME NEW t \in Torrents, time[t] = 0
      PROVE  Cardinality(below(t)) = 0
  <2>1. below(t) = {}
    BY <1>3
  <2> QED
    BY <2>1, FS_EmptySet
<1>4. Ranked(time) = [t \in Torrents |-> Cardinality(below(t))]
  BY DEF Ranked
<1> HIDE DEF below
<1> QED
  BY <1>2, <1>3, <1>4

LEMMA InitInv == Init => Inv
<1> SUFFICES ASSUME Init PROVE Inv
  OBVIOUS
<1>1. TypeOK
  BY UpdaterAssumption DEF Init, TypeOK
<1>2. OneToken /\ AckedIsKept /\ TriedWasAnnounced /\ WorkInv
  BY DEF Init, OneToken, AckedIsKept, TriedWasAnnounced, WorkInv, Running, Tried, InBatch
<1> QED
  BY <1>1, <1>2 DEF Inv

\* Marking torrents as tried adds no others to the tried ones.
LEMMA TouchType ==
  ASSUME TypeOK, NEW which \in SUBSET Torrents, Touch(which)
  PROVE  /\ lastTried' \in [Torrents -> Nat]
         /\ outdated' \in SUBSET stored'
         /\ outdated' \subseteq outdated
         /\ stored' = stored
         /\ Tried' \subseteq Tried \cup which
<1> DEFINE time == [t \in Torrents |->
                     IF t \in which THEN Cardinality(Torrents) + 1 ELSE lastTried[t]]
<1>1. time \in [Torrents -> Nat]
  <2>1. Cardinality(Torrents) \in Nat
    BY UpdaterAssumption, FS_CardinalityType
  <2> QED
    BY <2>1 DEF TypeOK
<1>2. \A t \in Torrents : t \notin which => time[t] = lastTried[t]
  OBVIOUS
<1>3. lastTried' = Ranked(time)
  BY DEF Touch
<1> HIDE DEF time
<1>4. /\ Ranked(time) \in [Torrents -> Nat]
      /\ \A t \in Torrents : Ranked(time)[t] > 0 => time[t] > 0
  BY <1>1, RankedType
<1>5. stored' = stored /\ outdated' = outdated \ which
  BY DEF Touch
<1> QED
  BY <1>2, <1>3, <1>4, <1>5 DEF TypeOK, Tried

LEMMA CrawlerInv ==
  ASSUME Inv, NEW t \in Torrents, CrawlerUpsert(t)
  PROVE  Inv'
<1> DEFINE time == [lastTried EXCEPT ![t] = 0]
<1>1. time \in [Torrents -> Nat] /\ time[t] = 0
      /\ \A u \in Torrents : u # t => time[u] = lastTried[u]
  BY DEF Inv, TypeOK
<1>2. lastTried' = Ranked(time)
  BY DEF CrawlerUpsert
<1> HIDE DEF time
<1>3. /\ lastTried' \in [Torrents -> Nat]
      /\ \A u \in Torrents : lastTried'[u] > 0 => time[u] > 0
  BY <1>1, <1>2, RankedType
<1>4. /\ stored' = stored \cup {t} /\ outdated' = outdated \ {t}
      /\ UNCHANGED <<queue, newTorrent, refresh, exits, owed, announced>>
  BY DEF CrawlerUpsert
<1>6. TypeOK'
  BY <1>3, <1>4 DEF Inv, TypeOK, newTorrent, refresh
<1>7. TriedWasAnnounced'
  BY <1>1, <1>3, <1>4 DEF Inv, TypeOK, TriedWasAnnounced, Tried
<1>8. OneToken' /\ AckedIsKept'
  BY <1>4 DEF Inv, OneToken, AckedIsKept, Running, InBatch, newTorrent, refresh
<1>9. WorkInv'
  BY <1>4 DEF Inv, WorkInv, Running, newTorrent, refresh
<1> QED
  BY <1>6, <1>7, <1>8, <1>9 DEF Inv

LEMMA PublishInv ==
  ASSUME Inv, (\E t \in Torrents : CrawlerPublish(t)) \/ PublishOther
  PROVE  Inv'
<1>1. PICK msg \in Readable \cup {Unreadable} :
         /\ queue' = Append(queue, msg)
         /\ announced \subseteq announced' /\ announced' \in SUBSET Torrents
  BY DEF CrawlerPublish, PublishOther, Readable, Inv, TypeOK
<1>2. UNCHANGED <<mongo, newTorrent, refresh, exits, owed>>
  BY DEF CrawlerPublish, PublishOther
<1>3. queue' \in Seq(Readable \cup {Unreadable}) /\ queue' # << >>
  BY <1>1, AppendProperties DEF Inv, TypeOK
<1>4. TypeOK'
  BY <1>1, <1>2, <1>3 DEF Inv, TypeOK, mongo, newTorrent, refresh
<1>5. TriedWasAnnounced' /\ OneToken' /\ AckedIsKept'
  BY <1>1, <1>2 DEF Inv, TriedWasAnnounced, Tried, OneToken, AckedIsKept, Running, InBatch,
                    mongo, newTorrent, refresh
<1>6. WorkInv'
  BY <1>1, <1>2, <1>3 DEF Inv, WorkInv, Running, mongo, newTorrent, refresh
<1> QED
  BY <1>4, <1>5, <1>6 DEF Inv

LEMMA AgeInv ==
  ASSUME Inv, NEW t \in Torrents, Age(t)
  PROVE  Inv'
<1>1. /\ outdated' = {u \in Tried : lastTried[u] <= lastTried[t]}
      /\ UNCHANGED <<stored, lastTried, queue, newTorrent, refresh, exits, owed, announced>>
  BY DEF Age
<1>2. outdated' \subseteq Tried /\ Tried \subseteq stored
  BY <1>1 DEF Tried
<1>3. TypeOK'
  BY <1>1, <1>2 DEF Inv, TypeOK, newTorrent, refresh
<1>4. TriedWasAnnounced' /\ outdated' \subseteq announced
  BY <1>1, <1>2 DEF Inv, TriedWasAnnounced, Tried
<1>5. OneToken' /\ AckedIsKept' /\ WorkInv'
  BY <1>1, <1>4 DEF Inv, OneToken, AckedIsKept, WorkInv, Running, InBatch, newTorrent, refresh
<1> QED
  BY <1>3, <1>4, <1>5 DEF Inv

LEMMA NewTorrentInv ==
  ASSUME Inv, NewTorrentLoop
  PROVE  Inv'
<1>1. CASE CollectNew
  <2>1. /\ queue \in Seq(Readable \cup {Unreadable}) /\ queue # << >> /\ Running
        /\ newPc = "idle" /\ Head(queue) # Unreadable
        /\ batch' = Append(batch, Head(queue)) /\ queue' = Tail(queue)
        /\ owed' = owed \cup {Head(queue)} /\ Len(batch) < TrackerLimit - 1
        /\ batch \in Seq(Readable)
        /\ UNCHANGED <<mongo, newPc, refresh, exits, announced>>
    BY <1>1 DEF CollectNew, NextMessage, Inv, TypeOK
  <2>2. Head(queue) \in Readable /\ queue' \in Seq(Readable \cup {Unreadable})
    BY <2>1, HeadTailProperties
  <2>3. /\ batch' \in Seq(Readable) /\ Len(batch') = Len(batch) + 1
        /\ InBatch' = InBatch \cup {Head(queue)}
    <3>1. /\ batch' \in Seq(Readable) /\ Len(batch') = Len(batch) + 1
          /\ Len(batch) \in Nat
          /\ DOMAIN batch = 1 .. Len(batch) /\ DOMAIN batch' = 1 .. Len(batch) + 1
          /\ \A i \in 1 .. Len(batch) : batch'[i] = batch[i]
          /\ batch'[Len(batch) + 1] = Head(queue)
      BY <2>1, <2>2, AppendProperties
    <3>2. DOMAIN batch' = DOMAIN batch \cup {Len(batch) + 1}
      BY <3>1
    <3>3. \A i \in DOMAIN batch : batch'[i] = batch[i]
      BY <3>1
    <3> QED
      BY <3>1, <3>2, <3>3 DEF InBatch
  <2>4. Len(batch') < TrackerLimit
    BY <2>1, <2>3, UpdaterAssumption, LenProperties
  <2>5. TypeOK'
    BY <2>1, <2>2, <2>3, <2>4 DEF Inv, TypeOK, mongo, refresh
  <2>6. AckedIsKept'
    BY <2>1, <2>3 DEF Inv, AckedIsKept
  <2>7. OneToken' /\ TriedWasAnnounced' /\ WorkInv'
    BY <2>1 DEF Inv, OneToken, TriedWasAnnounced, WorkInv, Running, Tried, mongo, refresh
  <2> QED
    BY <2>5, <2>6, <2>7 DEF Inv
<1>2. CASE FillBatch \/ RefuseNew \/ ScrapeNewFails
  <2>1. /\ newPc' = "idle" \/ (newPc' = "scrape" /\ queue' # << >> /\ Running)
        /\ UNCHANGED <<mongo, batch, refresh, exits, owed, announced>>
    BY <1>2 DEF FillBatch, RefuseNew, ScrapeNewFails, NextMessage, newTorrent
  <2>2. queue' \in Seq(Readable \cup {Unreadable})
    <3> DEFINE M == Readable \cup {Unreadable}
    <3>1. queue \in Seq(M)
      BY DEF Inv, TypeOK
    <3>2. CASE FillBatch
      BY <3>1, <3>2 DEF FillBatch
    <3>3. CASE Nack /\ queue # << >>
      <4>1. PICK fetched \in 1 .. Len(queue) :
                   queue' = SubSeq(queue, 2, fetched) \o <<Head(queue)>>
                              \o SubSeq(queue, fetched + 1, Len(queue))
        BY <3>3 DEF Nack
      <4> HIDE DEF M
      <4>2. /\ Len(queue) \in Nat /\ fetched \in Int
            /\ \A i \in 1 .. Len(queue) : queue[i] \in M
        BY <3>1
      <4>3. SubSeq(queue, 2, fetched) \in Seq(M)
        BY <4>2, SubSeqProperties
      <4>4. SubSeq(queue, fetched + 1, Len(queue)) \in Seq(M)
        BY <4>2, SubSeqProperties
      <4>5. <<Head(queue)>> \in Seq(M)
        BY <3>1, <3>3, <4>2
      <4>6. SubSeq(queue, 2, fetched) \o <<Head(queue)>> \in Seq(M)
        BY <4>3, <4>5, ConcatProperties
      <4>7. queue' \in Seq(M)
        BY <4>1, <4>4, <4>6, ConcatProperties
      <4> QED
        BY <4>7 DEF M
    <3> QED
      BY <1>2, <3>2, <3>3 DEF RefuseNew, ScrapeNewFails, NextMessage, Inv, WorkInv
  <2>3. TypeOK'
    BY <2>1, <2>2 DEF Inv, TypeOK, mongo, refresh
  <2>4. OneToken' /\ AckedIsKept' /\ TriedWasAnnounced' /\ WorkInv'
    BY <2>1 DEF Inv, OneToken, AckedIsKept, TriedWasAnnounced, WorkInv, Running, Tried, InBatch,
                mongo, refresh
  <2> QED
    BY <2>3, <2>4 DEF Inv
<1>3. CASE ScrapeNew
  <2>1. /\ queue \in Seq(Readable \cup {Unreadable}) /\ queue # << >> /\ Running
        /\ newPc' = "idle" /\ batch' = << >> /\ queue' = Tail(queue)
        /\ owed' = owed \ (InBatch \cup {Head(queue)})
              /\ UNCHANGED <<mongo, refresh, exits, announced>>
    BY <1>3 DEF ScrapeNew, Inv, TypeOK, WorkInv
  <2>2. queue' \in Seq(Readable \cup {Unreadable})
    BY <2>1, HeadTailProperties
  <2>3. InBatch \subseteq Readable /\ Len(batch') < TrackerLimit
    BY <2>1, UpdaterAssumption DEF Inv, TypeOK, InBatch
  <2>4. TypeOK'
    BY <2>1, <2>2, <2>3 DEF Inv, TypeOK, mongo, refresh
  <2>5. AckedIsKept'
    BY <2>1 DEF Inv, AckedIsKept
  <2>6. OneToken' /\ TriedWasAnnounced' /\ WorkInv'
    BY <2>1 DEF Inv, OneToken, TriedWasAnnounced, WorkInv, Running, Tried, mongo, refresh
  <2> QED
    BY <2>4, <2>5, <2>6 DEF Inv
<1> QED
  BY <1>1, <1>2, <1>3 DEF NewTorrentLoop

LEMMA FetchInv ==
  ASSUME Inv, FetchLoop
  PROVE  Inv'
<1> USE DEF Running
<1>1. CASE Start \/ Fetch \/ GetRecordsFails
  <2>1. /\ \/ pc = "start" /\ pc' = "select" /\ needUpdate' = 1
           \/ pc = "select" /\ pc' = "find" /\ needUpdate = 1 /\ needUpdate' = 0
           \/ pc = "find" /\ pc' = "defer" /\ needUpdate' = needUpdate
        /\ UNCHANGED <<mongo, queue, newTorrent, timers, records, ids, exits, owed, announced>>
    BY <1>1 DEF Start, Fetch, GetRecordsFails
  <2>2. TypeOK'
    BY <2>1 DEF Inv, TypeOK, mongo, newTorrent
  <2>3. AckedIsKept' /\ TriedWasAnnounced' /\ WorkInv'
    BY <2>1 DEF Inv, AckedIsKept, TriedWasAnnounced, WorkInv, Tried, InBatch, mongo, newTorrent
  <2>4. OneToken'
    <3>1. timers \in Nat /\ timers' = timers /\ (pc = "start" => timers = 0)
      BY <2>1 DEF Inv, TypeOK, WorkInv
    <3>2. OneToken
      BY DEF Inv
    <3> QED
      BY <2>1, <3>1, <3>2 DEF OneToken
  <2> QED
    BY <2>2, <2>3, <2>4 DEF Inv
<1>2. CASE GetRecords
  <2>1. /\ pc = "find" /\ pc' = "mark" /\ records' \subseteq outdated
        /\ UNCHANGED <<mongo, queue, newTorrent, needUpdate, timers, ids, exits, owed,
                       announced>>
    BY <1>2 DEF GetRecords, Selected
  <2>2. records = {} /\ ids = {} /\ records' \subseteq announced
    BY <2>1 DEF Inv, TypeOK, WorkInv
  <2>3. TypeOK'
    BY <2>1, <2>2 DEF Inv, TypeOK, mongo, newTorrent
  <2>4. OneToken' /\ AckedIsKept' /\ TriedWasAnnounced' /\ WorkInv'
    BY <2>1, <2>2 DEF Inv, OneToken, AckedIsKept, TriedWasAnnounced, WorkInv, Tried, InBatch,
                      mongo, newTorrent
  <2> QED
    BY <2>3, <2>4 DEF Inv
<1>3. CASE MarkTried \/ MarkTriedFails
  <2>1. /\ pc = "mark" /\ pc' \in {"scrape", "defer"}
        /\ Touch(records) \/ UNCHANGED mongo
        /\ UNCHANGED <<queue, newTorrent, needUpdate, timers, records, ids, exits, owed,
                       announced>>
    BY <1>3 DEF MarkTried, MarkTriedFails
  <2>2. records \subseteq announced /\ records \in SUBSET Torrents
    BY <2>1 DEF Inv, TypeOK, WorkInv
  <2>3. /\ lastTried' \in [Torrents -> Nat] /\ outdated' \in SUBSET stored'
        /\ outdated' \subseteq outdated /\ stored' = stored
        /\ Tried' \subseteq Tried \cup records
    BY <2>1, <2>2, TouchType DEF Inv, TypeOK, mongo, Tried
  <2>4. TypeOK'
    BY <2>1, <2>3 DEF Inv, TypeOK, newTorrent
  <2>5. TriedWasAnnounced'
    BY <2>1, <2>2, <2>3 DEF Inv, TriedWasAnnounced
  <2>6. OneToken' /\ AckedIsKept' /\ WorkInv'
    BY <2>1, <2>3 DEF Inv, OneToken, AckedIsKept, WorkInv, InBatch, newTorrent
  <2> QED
    BY <2>4, <2>5, <2>6 DEF Inv
<1>4. CASE ScrapeRecords
  <2>1. /\ pc = "scrape" /\ pc' = "defer"
        /\ UNCHANGED <<mongo, queue, newTorrent, needUpdate, timers, records, ids, exits, owed,
                       announced>>
    BY <1>4 DEF ScrapeRecords
  <2>2. TypeOK'
    BY <2>1 DEF Inv, TypeOK, mongo, newTorrent
  <2>3. OneToken' /\ AckedIsKept' /\ TriedWasAnnounced' /\ WorkInv'
    BY <2>1 DEF Inv, OneToken, AckedIsKept, TriedWasAnnounced, WorkInv, Tried, InBatch, mongo,
                newTorrent
  <2> QED
    BY <2>2, <2>3 DEF Inv
<1>5. CASE RefreshAgain
  <2>1. /\ pc = "defer" /\ pc' = "select" /\ records' = {}
        /\ \/ needUpdate = 0 /\ needUpdate' = 1 /\ timers' = timers
           \/ timers' = timers + 1 /\ needUpdate' = needUpdate
        /\ UNCHANGED <<mongo, queue, newTorrent, ids, exits, owed, announced>>
    BY <1>5 DEF RefreshAgain
  <2>2. ids = {}
    BY <2>1 DEF Inv, WorkInv
  <2>3. TypeOK'
    BY <2>1, <2>2 DEF Inv, TypeOK, mongo, newTorrent
  <2>4. OneToken'
    BY <2>1 DEF Inv, OneToken, TypeOK
  <2>5. AckedIsKept' /\ TriedWasAnnounced' /\ WorkInv'
    BY <2>1, <2>2 DEF Inv, AckedIsKept, TriedWasAnnounced, WorkInv, Tried, InBatch, mongo,
                newTorrent
  <2> QED
    BY <2>3, <2>4, <2>5 DEF Inv
<1> QED
  BY <1>1, <1>2, <1>3, <1>4, <1>5 DEF FetchLoop

LEMMA TimerInv ==
  ASSUME Inv, TimerFires
  PROVE  Inv'
<1>1. /\ timers > 0 /\ needUpdate = 0 /\ timers' = timers - 1 /\ needUpdate' = 1
      /\ UNCHANGED <<mongo, queue, newTorrent, pc, records, ids, exits, owed, announced>>
  BY DEF TimerFires
<1>2. TypeOK'
  BY <1>1 DEF Inv, TypeOK, mongo, newTorrent
<1>3. Running
  BY <1>1 DEF Inv, WorkInv, TypeOK
<1>4. OneToken' /\ AckedIsKept' /\ TriedWasAnnounced' /\ WorkInv'
  BY <1>1, <1>3 DEF Inv, TypeOK, OneToken, AckedIsKept, TriedWasAnnounced, WorkInv, Running,
                    Tried, InBatch, mongo, newTorrent
<1> QED
  BY <1>2, <1>4 DEF Inv

LEMMA RecoverInv ==
  ASSUME Inv, Recover
  PROVE  Inv'
<1> USE DEF Running
<1>1. CASE RecoverFind \/ RecoverDone
  <2>1. /\ pc = "recover" /\ pc' \in {"republish", "start"}
        /\ records' \in SUBSET stored /\ (pc' = "start" => records' = {})
        /\ UNCHANGED <<mongo, queue, newTorrent, needUpdate, timers, ids, exits, owed,
                       announced>>
    BY <1>1 DEF RecoverFind, RecoverDone, Inv, TypeOK, WorkInv, Tried
  <2>2. ids = {}
    BY <2>1 DEF Inv, WorkInv
  <2>3. TypeOK'
    BY <2>1, <2>2 DEF Inv, TypeOK, mongo, newTorrent
  <2>4. OneToken' /\ AckedIsKept' /\ TriedWasAnnounced' /\ WorkInv'
    BY <2>1, <2>2 DEF Inv, OneToken, AckedIsKept, TriedWasAnnounced, WorkInv, Tried, InBatch,
                      mongo, newTorrent
  <2> QED
    BY <2>3, <2>4 DEF Inv
<1>2. ASSUME NEW t \in Torrents, Republish(t)
      PROVE  Inv'
  <2>1. /\ pc = "republish" /\ pc' \in {"republish", "markRecovered"}
        /\ pc' = "markRecovered" => ids' = records
        /\ t \in records /\ ids' = ids \cup {t} /\ queue' = Append(queue, t)
        /\ announced' = announced \cup {t}
        /\ UNCHANGED <<mongo, newTorrent, needUpdate, timers, records, exits, owed>>
    BY <1>2 DEF Republish
  <2>2. newPc = "idle"
    BY <2>1 DEF Inv, WorkInv
  <2>3. queue' \in Seq(Readable \cup {Unreadable})
    BY <2>1, AppendProperties DEF Inv, TypeOK, Readable
  <2>4. TypeOK'
    BY <2>1, <2>3 DEF Inv, TypeOK, mongo, newTorrent
  <2>5. OneToken' /\ AckedIsKept' /\ TriedWasAnnounced' /\ WorkInv'
    BY <2>1, <2>2 DEF Inv, OneToken, AckedIsKept, TriedWasAnnounced, WorkInv, Tried, InBatch,
                      mongo, newTorrent
  <2> QED
    BY <2>4, <2>5 DEF Inv
<1>3. CASE MarkRecovered
  <2>1. /\ pc = "markRecovered" /\ pc' = "recover" /\ Touch(ids) /\ records' = {} /\ ids' = {}
        /\ UNCHANGED <<queue, newTorrent, needUpdate, timers, exits, owed, announced>>
    BY <1>3 DEF MarkRecovered
  <2>2. ids \subseteq announced /\ ids \in SUBSET Torrents
    BY DEF Inv, TypeOK, WorkInv
  <2>3. /\ lastTried' \in [Torrents -> Nat] /\ outdated' \in SUBSET stored'
        /\ outdated' \subseteq outdated /\ stored' = stored
        /\ Tried' \subseteq Tried \cup ids
    BY <2>1, <2>2, TouchType DEF Inv, TypeOK, Tried
  <2>4. TypeOK'
    BY <2>1, <2>3 DEF Inv, TypeOK, newTorrent
  <2>5. TriedWasAnnounced'
    BY <2>1, <2>2, <2>3 DEF Inv, TriedWasAnnounced
  <2>6. OneToken' /\ AckedIsKept' /\ WorkInv'
    BY <2>1, <2>3 DEF Inv, OneToken, AckedIsKept, WorkInv, InBatch, newTorrent
  <2> QED
    BY <2>4, <2>5, <2>6 DEF Inv
<1> QED
  BY <1>1, <1>2, <1>3 DEF Recover

LEMMA ExitInv ==
  ASSUME Inv, Exit
  PROVE  Inv'
<1>1. InBatch \in SUBSET Readable
  BY DEF Inv, TypeOK, InBatch
<1>2. TypeOK'
  BY <1>1, UpdaterAssumption DEF Exit, Inv, TypeOK, mongo
<1>3. OneToken' /\ AckedIsKept' /\ TriedWasAnnounced' /\ WorkInv'
  BY DEF Exit, Inv, OneToken, AckedIsKept, TriedWasAnnounced, WorkInv, Running, Tried, InBatch,
         mongo
<1> QED
  BY <1>2, <1>3 DEF Inv

LEMMA NextInv == Inv /\ [Next]_vars => Inv'
<1> SUFFICES ASSUME Inv, [Next]_vars
             PROVE  Inv'
  OBVIOUS
<1>1. CASE UNCHANGED vars
  BY <1>1 DEF Inv, TypeOK, OneToken, AckedIsKept, TriedWasAnnounced, WorkInv, Running, Tried,
              InBatch, vars, mongo, newTorrent, refresh
<1>2. CASE Next
  BY <1>2, CrawlerInv, PublishInv, AgeInv, NewTorrentInv, FetchInv, TimerInv, RecoverInv, ExitInv
     DEF Next
<1> QED
  BY <1>1, <1>2

LEMMA InvAlways == Spec => []Inv
  BY InitInv, NextInv, PTL DEF Spec

\* Every state of the updater is well formed: in particular the batch never
\* reaches TrackerLimit between two messages, and Recover announces nothing
\* that it did not select.
THEOREM TypeCorrect == Spec => []TypeOK
<1>1. Inv => TypeOK
  BY DEF Inv
<1> QED
  BY <1>1, InvAlways, PTL

\* The fetch loop and its timer share one token for any number of refreshes,
\* so the deferred send on needUpdate never waits for its own goroutine.
THEOREM OneTokenAlways == Spec => []OneToken
<1>1. Inv => OneToken
  BY DEF Inv
<1> QED
  BY <1>1, InvAlways, PTL

\* No acknowledged new_torrent message is dropped while the process runs,
\* for any TrackerLimit and any pattern of failing scrapes.
THEOREM AckedKept == Spec => []AckedIsKept
<1>1. Inv => AckedIsKept
  BY DEF Inv
<1> QED
  BY <1>1, InvAlways, PTL

\* A torrent that was never announced has no tracker_last_tried_at, so Recover
\* finds it: across failed announcements of the crawler, torrents it stores
\* again during a refresh, and restarts between the steps of Recover.
THEOREM TriedAnnounced == Spec => []TriedWasAnnounced
<1>1. Inv => TriedWasAnnounced
  BY DEF Inv
<1> QED
  BY <1>1, InvAlways, PTL
=============================================================================
