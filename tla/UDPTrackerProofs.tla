-------------------------- MODULE UDPTrackerProofs --------------------------
(***************************************************************************)
(* A transaction of the tracker's client comes to exactly one end, for any *)
(* number of scrapers, transactions and sockets, and any size of queue.    *)
(***************************************************************************)
EXTENDS UDPTracker, TLAPS

-----------------------------------------------------------------------------
(* Who holds what.  An answer to a scrape, on its way or being handled, is *)
(* of a transaction that was drawn; a socket that was dialled has no       *)
(* receiver yet, and one scraper only will start it.                       *)

QueueOK == scrapeQueue \in [Txs -> BOOLEAN]

WireOK ==
  /\ conn \in 0 .. dialled /\ connectionID \in {0, 1}
  /\ dialled \in Socks /\ open \in SUBSET (1 .. dialled) /\ net \in SUBSET Answer
  /\ \A d \in net : d.action = "scrape" => d.tx \in used

ScraperLabels == {"idle", "dial", "hello", "greet", "check", "wait", "build", "set", "write", "gone"}

ReceiverLabels ==
  {"none", "load", "read", "handle", "token", "result", "check", "close", "clear", "reset", "gone"}

ScraperOK ==
  /\ pc \in [Scrapers -> ScraperLabels]
  /\ tx \in [Scrapers -> Txs \cup {None}] /\ header \in [Scrapers -> {0, 1}]
  /\ \A s \in Scrapers : pc[s] \in {"set", "write"} => tx[s] \in used

ReceiverOK ==
  /\ rpc \in [Socks -> ReceiverLabels]
  /\ rsock \in [Socks -> 0 .. dialled] /\ rmsg \in [Socks -> Answer \cup {None}]
  /\ \A r \in Socks : rpc[r] = "handle" => /\ rmsg[r] \in Answer
                                           /\ rmsg[r].action = "scrape" => rmsg[r].tx \in used
  /\ \A r \in Socks : rpc[r] = "result" => rmsg[r] \in Answer /\ rmsg[r].tx \in used

\* The sockets whose receiver is still to be started.
StartOK ==
  /\ own \in [Scrapers -> 0 .. dialled]
  /\ \A s \in Scrapers : own[s] # 0 => rpc[own[s]] = "none"
  /\ \A s, u \in Scrapers : own[s] = own[u] /\ own[s] # 0 => s = u
  /\ \A s \in Scrapers, r \in Socks : pc[s] # "gone" /\ r > dialled => rpc[r] = "none"

HistoryOK ==
  /\ used \in SUBSET Txs /\ expired \in SUBSET used /\ spoiled \in SUBSET used
  /\ delivered \in [Txs -> Nat]

Places == WireOK /\ ScraperOK /\ ReceiverOK /\ StartOK /\ HistoryOK

\* Nothing is filed that was not drawn.
FiledIsUsed == \A t \in Txs : scrapeQueue[t] => t \in used

TInv == QueueOK /\ FiledIsUsed /\ Places

LEMMA SocksType == Socks \subseteq Nat \ {0} /\ 1 \in Socks
BY TrackerAssumption DEF Socks

LEMMA InitTypes == Init => TInv
<1> SUFFICES ASSUME Init PROVE TInv
  OBVIOUS
<1>1. QueueOK /\ FiledIsUsed
  BY Zenon DEF Init, Queue!Init, QueueOK, FiledIsUsed
<1>2. WireOK
  <2>1. [sock |-> 1, action |-> "connect", tx |-> None] \in Answer
    BY SocksType, Zenon DEF Answer
  <2> QED
    BY <2>1, SocksType DEF Init, WireOK
<1>3. ScraperOK /\ HistoryOK
  BY Zenon DEF Init, ScraperOK, ScraperLabels, HistoryOK
<1>4. ReceiverOK /\ StartOK
  BY SocksType DEF Init, ReceiverOK, ReceiverLabels, StartOK
<1> QED
  BY <1>1, <1>2, <1>3, <1>4, Zenon DEF TInv, Places

LEMMA SameQueue ==
  ASSUME QueueOK, FiledIsUsed, scrapeQueue' = scrapeQueue, used \subseteq used'
  PROVE  QueueOK' /\ FiledIsUsed'
BY Zenon DEF QueueOK, FiledIsUsed

LEMMA DropQueue ==
  ASSUME QueueOK, FiledIsUsed, NEW t \in Txs, Queue!Drop(t), used' = used
  PROVE  /\ QueueOK' /\ FiledIsUsed' /\ scrapeQueue[t] /\ ~scrapeQueue'[t]
         /\ \A u \in Txs \ {t} : scrapeQueue'[u] = scrapeQueue[u]
BY Zenon DEF Queue!Drop, QueueOK, FiledIsUsed

LEMMA PutQueue ==
  ASSUME QueueOK, FiledIsUsed, NEW t \in used, used \in SUBSET Txs, Queue!Put(t, TRUE), used' = used
  PROVE  /\ QueueOK' /\ FiledIsUsed' /\ scrapeQueue'[t]
         /\ \A u \in Txs \ {t} : scrapeQueue'[u] = scrapeQueue[u]
BY Zenon DEF Queue!Put, QueueOK, FiledIsUsed


-----------------------------------------------------------------------------
(* One step of a scraper, of a receiver, of the rest.                      *)

\* What a step may do to the answers on their way.
LEMMA WritePlaces ==
  ASSUME WireOK, NEW action \in {"connect", "scrape", "error"}, NEW t \in Txs \cup {None},
         action = "scrape" => t \in used, Write(conn, action, t)
  PROVE  net' \in SUBSET Answer /\ \A d \in net' : d.action = "scrape" => d.tx \in used
<1>1. conn \in Socks
  <2>1. dialled \in Nat /\ dialled <= MaxConns /\ conn \in 1 .. dialled
    BY TrackerAssumption DEF WireOK, Write, Socks
  <2> QED
    BY <2>1, TrackerAssumption DEF Socks
<1>2. ASSUME NEW answer \in {action, "error"}
      PROVE  LET d == [sock |-> conn, action |-> answer, tx |-> t]
             IN  d \in Answer /\ (d.action = "scrape" => d.tx \in used)
  BY <1>1, <1>2, Zenon DEF Answer
<1>3. CASE net' = net
  BY <1>3, Zenon DEF WireOK
<1>4. ASSUME NEW answer \in {action, "error"},
             net' = net \cup {[sock |-> conn, action |-> answer, tx |-> t]}
      PROVE  net' \in SUBSET Answer /\ \A d \in net' : d.action = "scrape" => d.tx \in used
  BY <1>2, <1>4, Zenon DEF WireOK
<1> QED
  BY <1>3, <1>4, Zenon DEF Write

LEMMA ScraperMoves ==
  ASSUME Places, NEW s \in Scrapers,
         \/ Scrape(s) \/ DialFails(s) \/ CheckConnected(s)
         \/ SetQueue(s) \/ WriteScrape(s) \/ WriteScrapeFails(s)
         \/ \E t \in Txs : Build(s, t)
  PROVE  Places'
<1>1. UNCHANGED <<conn, connectionID, dialled, open, own, rpc, rsock, rmsg, expired, spoiled, delivered>>
  BY Zenon DEF Scrape, DialFails, CheckConnected, SetQueue, WriteScrape, WriteScrapeFails, Build, shared,
         wire, receiver, history
<1>2. used \subseteq used' /\ HistoryOK'
  <2>1. CASE \E t \in Txs : Build(s, t)
    BY <1>1, <2>1, Zenon DEF Build, Places, HistoryOK
  <2>2. CASE used' = used
    BY <1>1, <2>2, Zenon DEF Places, HistoryOK
  <2> QED
    BY <2>1, <2>2, Zenon DEF Scrape, DialFails, CheckConnected, SetQueue, WriteScrape, WriteScrapeFails, history
<1>3. WireOK'
  <2>1. net' \in SUBSET Answer /\ \A d \in net' : d.action = "scrape" => d.tx \in used
    <3>1. CASE WriteScrape(s)
      <4>1. /\ tx[s] \in Txs \cup {None} /\ tx[s] \in used
            /\ Write(conn, IF header[s] = 0 THEN "error" ELSE "scrape", tx[s])
        BY <3>1, Zenon DEF WriteScrape, Places, ScraperOK
      <4> QED
        BY <4>1, WritePlaces, Zenon DEF Places
    <3>2. CASE net' = net
      BY <3>2, Zenon DEF Places, WireOK
    <3> QED
      BY <3>1, <3>2, Zenon DEF Scrape, DialFails, CheckConnected, SetQueue, WriteScrapeFails, Build, wire
  <2> QED
    BY <1>1, <1>2, <2>1, Zenon DEF Places, WireOK
<1>4. ScraperOK'
  <2>1. CASE Scrape(s) \/ DialFails(s) \/ CheckConnected(s) \/ SetQueue(s)
    BY <1>2, <2>1 DEF Scrape, DialFails, CheckConnected, SetQueue, Move, Places, ScraperOK,
       ScraperLabels, history
  <2>2. CASE WriteScrape(s) \/ WriteScrapeFails(s)
    BY <1>2, <2>2, Zenon DEF WriteScrape, WriteScrapeFails, Return, Move, Places, ScraperOK, ScraperLabels
  <2>3. CASE \E t \in Txs : Build(s, t)
    BY <1>2, <2>3 DEF Build, Move, Places, ScraperOK, ScraperLabels, WireOK
  <2> QED
    BY <2>1, <2>2, <2>3, Zenon
<1>5. pc[s] # "gone"
  BY Zenon DEF Scrape, DialFails, CheckConnected, SetQueue, WriteScrape, WriteScrapeFails, Build
<1>6. ReceiverOK' /\ StartOK'
  BY <1>1, <1>2, <1>5, Zenon DEF Places, ReceiverOK, StartOK
<1> QED
  BY <1>2, <1>3, <1>4, <1>6, Zenon DEF Places

\* A step of connect: a socket is dialled, or gets its receiver.
LEMMA ConnectMoves ==
  ASSUME Places, NEW s \in Scrapers, Dial(s) \/ Hello(s) \/ SendConnect(s) \/ SendConnectFails(s)
  PROVE  Places'
<1>1. /\ UNCHANGED <<connectionID, tx, header, rsock, rmsg, used, expired, spoiled, delivered>>
      /\ HistoryOK' /\ dialled \in Nat /\ pc[s] # "gone"
  BY SocksType, Zenon DEF Dial, Hello, SendConnect, SendConnectFails, GoReceive, shared, receiver, history,
                   Places, HistoryOK, WireOK
<1>2. ScraperOK'
  BY <1>1, Zenon DEF Dial, Hello, SendConnect, SendConnectFails, Move, Places, ScraperOK, ScraperLabels
<1>3. CASE Dial(s)
  <2>1. /\ dialled' = dialled + 1 /\ dialled + 1 \in Socks /\ open' = open \cup {dialled + 1}
        /\ conn' = dialled + 1 /\ own' = [own EXCEPT ![s] = dialled + 1] /\ net' = net /\ rpc' = rpc
    BY <1>1, <1>3, TrackerAssumption DEF Dial, receiver, Socks
  <2>2. WireOK'
    BY <1>1, <2>1 DEF Places, WireOK
  <2>3. ReceiverOK'
    BY <1>1, <2>1 DEF Places, ReceiverOK
  <2>4. StartOK'
    <3>1. own \in [Scrapers -> 0 .. dialled] /\ rpc[dialled + 1] = "none"
      BY <1>1, <2>1 DEF Places, StartOK
    <3>2. \A u \in Scrapers : own'[u] = IF u = s THEN dialled + 1 ELSE own[u]
      BY <2>1, <3>1, Zenon
    <3> QED
      BY <1>1, <2>1, <3>1, <3>2, SocksType DEF Places, StartOK
  <2> QED
    BY <1>1, <1>2, <2>2, <2>3, <2>4, Zenon DEF Places
<1>4. CASE SendConnectFails(s) \/ (Hello(s) /\ UNCHANGED <<own, receiver>>)
  <2>1. /\ UNCHANGED <<conn, dialled, open, net, rpc>> /\ own' \in {own, [own EXCEPT ![s] = 0]}
    BY <1>4, Zenon DEF SendConnectFails, Hello, shared, wire, receiver
  <2>2. WireOK' /\ ReceiverOK'
    BY <1>1, <2>1, Zenon DEF Places, WireOK, ReceiverOK
  <2>3. StartOK'
    BY <1>1, <2>1 DEF Places, StartOK
  <2> QED
    BY <1>1, <1>2, <2>2, <2>3, Zenon DEF Places
<1>5. CASE (Hello(s) \/ SendConnect(s)) /\ GoReceive(s)
  <2>1. /\ UNCHANGED <<conn, dialled, open>> /\ own' = [own EXCEPT ![s] = 0]
        /\ rpc' = [rpc EXCEPT ![own[s]] = "load"]
    BY <1>5, Zenon DEF Hello, SendConnect, GoReceive, shared, wire
  <2>2. net' \in SUBSET Answer /\ \A d \in net' : d.action = "scrape" => d.tx \in used
    <3>1. CASE SendConnect(s)
      BY <3>1, WritePlaces, Zenon DEF SendConnect, Places
    <3>2. CASE Hello(s)
      BY <3>2, Zenon DEF Hello, wire, Places, WireOK
    <3> QED
      BY <1>5, <3>1, <3>2, Zenon
  <2>3. WireOK'
    BY <1>1, <2>1, <2>2, Zenon DEF Places, WireOK
  <2>4. own \in [Scrapers -> 0 .. dialled] /\ own[s] \in 0 .. dialled
    BY Zenon DEF Places, StartOK
  <2>5. \A r \in Socks : rpc'[r] = IF r = own[s] THEN "load" ELSE rpc[r]
    BY <2>1, Zenon DEF Places, ReceiverOK
  <2>6. rpc' \in [Socks -> ReceiverLabels]
    BY <2>1, Zenon DEF Places, ReceiverOK, ReceiverLabels
  <2>7. ReceiverOK'
    BY <1>1, <2>1, <2>5, <2>6, Zenon DEF Places, ReceiverOK
  <2>8. StartOK'
    <3>1. \A u \in Scrapers : own'[u] = IF u = s THEN 0 ELSE own[u]
      BY <2>1, <2>4, Zenon
    <3>2. dialled \in Socks /\ 1 .. dialled \subseteq Socks
      BY TrackerAssumption DEF Places, WireOK, Socks
    <3>3. own' \in [Scrapers -> 0 .. dialled]
      BY <1>1, <2>1, <2>4
    <3>4. ASSUME NEW u \in Scrapers, own'[u] # 0 PROVE rpc'[own'[u]] = "none"
      <4>1. u # s /\ own'[u] = own[u] /\ own[u] \in Socks /\ rpc[own[u]] = "none" /\ own[u] # own[s]
        BY <1>1, <2>4, <3>1, <3>2, <3>4 DEF Places, StartOK
      <4> QED
        BY <2>5, <4>1, Zenon
    <3>5. \A r \in Socks : r > dialled => rpc'[r] = "none"
      BY <1>1, <2>4, <2>5, SocksType DEF Places, StartOK
    <3>6. \A u, v \in Scrapers : own'[u] = own'[v] /\ own'[u] # 0 => u = v
      BY <3>1, Zenon DEF Places, StartOK
    <3> QED
      BY <2>1, <3>3, <3>4, <3>5, <3>6, Zenon DEF StartOK
  <2> QED
    BY <1>1, <1>2, <2>3, <2>7, <2>8 DEF Places
<1> QED
  BY <1>3, <1>4, <1>5, Zenon DEF Hello, SendConnect, receiver

\* A receiver that runs goes on at label l: it is not one that is still to be
\* started.
GoesOn(r, l) ==
  /\ rpc[r] # "none" /\ l # "none" /\ l \in ReceiverLabels
  /\ rpc' = [rpc EXCEPT ![r] = l]
  /\ own' = own /\ dialled' = dialled
  /\ \A s \in Scrapers : pc[s] = "gone" => pc'[s] = "gone"

LEMMA StepStart ==
  ASSUME Places, NEW r \in Socks, NEW l, GoesOn(r, l)
  PROVE  /\ StartOK' /\ rpc' \in [Socks -> ReceiverLabels]
         /\ \A q \in Socks : rpc'[q] = IF q = r THEN l ELSE rpc[q]
<1>1. rpc \in [Socks -> ReceiverLabels]
  BY Zenon DEF Places, ReceiverOK
<1>2. /\ rpc' \in [Socks -> ReceiverLabels]
      /\ \A q \in Socks : rpc'[q] = IF q = r THEN l ELSE rpc[q]
  BY <1>1, Zenon DEF GoesOn
<1>3. \A s \in Scrapers : own[s] # 0 => own[s] \in Socks
  BY TrackerAssumption DEF Places, StartOK, WireOK, Socks
<1> QED
  BY <1>2, <1>3 DEF Places, StartOK, GoesOn

\* The steps of a receiver that do not handle an answer.
LEMMA ReceiverMoves ==
  ASSUME Places, NEW r \in Socks,
         Load(r) \/ ReadFails(r) \/ CheckConn(r) \/ Close(r) \/ Clear(r) \/ Reset(r)
  PROVE  Places'
<1> DEFINE Labels == {"read", "check", "gone", "close", "clear", "reset"}
<1>1. UNCHANGED <<pc, tx, header, used, expired, spoiled, delivered>> /\ dialled' = dialled /\ rmsg' = rmsg
  BY Zenon DEF Load, ReadFails, CheckConn, Close, Clear, Reset, wire, scraper, history
<1>2. PICK l \in Labels : rpc' = [rpc EXCEPT ![r] = l]
  BY Zenon DEF Load, ReadFails, CheckConn, Close, Clear, Reset, Step
<1>3. GoesOn(r, l)
  <2>1. rpc[r] # "none" /\ own' = own /\ pc' = pc
    BY Zenon DEF Load, ReadFails, CheckConn, Close, Clear, Reset, scraper
  <2>2. l # "none" /\ l \in ReceiverLabels
    BY <1>2, Zenon DEF ReceiverLabels
  <2> QED
    BY <1>1, <1>2, <2>1, <2>2, Zenon DEF GoesOn
<1>4. ScraperOK' /\ HistoryOK'
  BY <1>1, Zenon DEF Places, ScraperOK, HistoryOK
<1>5. WireOK'
  <2>1. /\ conn' \in {conn, 0} /\ connectionID' \in {connectionID, 0}
        /\ open' \subseteq open /\ net' \subseteq net
    BY Zenon DEF Load, ReadFails, CheckConn, Close, Clear, Reset, shared, wire
  <2>2. conn' \in 0 .. dialled /\ connectionID' \in {0, 1}
    BY <2>1, SocksType DEF Places, WireOK
  <2>3. open' \in SUBSET (1 .. dialled) /\ net' \in SUBSET Answer
    BY <2>1, Zenon DEF Places, WireOK
  <2>4. \A d \in net' : d.action = "scrape" => d.tx \in used
    BY <2>1, Zenon DEF Places, WireOK
  <2> QED
    BY <1>1, <2>2, <2>3, <2>4, Zenon DEF Places, WireOK
<1>6. rsock' \in [Socks -> 0 .. dialled]
  <2>1. rsock \in [Socks -> 0 .. dialled] /\ conn \in 0 .. dialled /\ 0 \in 0 .. dialled
    BY SocksType DEF Places, ReceiverOK, WireOK
  <2> QED
    BY <2>1, Zenon DEF Load, ReadFails, CheckConn, Close, Clear, Reset
<1>7. ReceiverOK'
  <2>1. rpc' \in [Socks -> ReceiverLabels] /\ \A q \in Socks : rpc'[q] = IF q = r THEN l ELSE rpc[q]
    BY <1>3, StepStart, Zenon
  <2> QED
    BY <1>1, <1>6, <2>1, Zenon DEF Places, ReceiverOK
<1> QED
  BY <1>3, <1>4, <1>5, <1>7, StepStart, Zenon DEF Places

LEMMA ReadMoves ==
  ASSUME Places, NEW r \in Socks, Read(r)
  PROVE  Places'
<1>1. PICK d \in net : rmsg' = [rmsg EXCEPT ![r] = d] /\ net' \in {net, net \ {d}}
  BY Zenon DEF Read
<1>2. /\ UNCHANGED <<conn, connectionID, open, pc, tx, header, used, expired, spoiled, delivered>>
      /\ dialled' = dialled /\ rsock' = [rsock EXCEPT ![r] = 0]
  BY Zenon DEF Read, shared, scraper, history
<1>3. GoesOn(r, "handle")
  BY Zenon DEF Read, Step, scraper, GoesOn, ReceiverLabels
<1>4. ScraperOK' /\ HistoryOK'
  BY <1>2, Zenon DEF Places, ScraperOK, HistoryOK
<1>5. WireOK'
  BY <1>1, <1>2, Zenon DEF Places, WireOK
<1>6. d \in Answer /\ (d.action = "scrape" => d.tx \in used)
  BY Zenon DEF Places, WireOK
<1>7. ReceiverOK'
  <2>1. rpc' \in [Socks -> ReceiverLabels] /\ \A q \in Socks : rpc'[q] = IF q = r THEN "handle" ELSE rpc[q]
    BY <1>3, StepStart, Zenon
  <2>2. rsock \in [Socks -> 0 .. dialled] /\ rmsg \in [Socks -> Answer \cup {None}] /\ 0 \in 0 .. dialled
    BY SocksType DEF Places, ReceiverOK, WireOK
  <2>3. rsock' \in [Socks -> 0 .. dialled] /\ rmsg' \in [Socks -> Answer \cup {None}]
    BY <1>1, <1>2, <1>6, <2>2, Zenon
  <2>4. \A q \in Socks : rmsg'[q] = IF q = r THEN d ELSE rmsg[q]
    BY <1>1, <2>2, Zenon
  <2> QED
    BY <1>2, <1>6, <2>1, <2>3, <2>4, Zenon DEF Places, ReceiverOK
<1> QED
  BY <1>3, <1>4, <1>5, <1>7, StepStart, Zenon DEF Places

\* The receiver handles its answer, or passes a result on.
LEMMA HandleMoves ==
  ASSUME Places, NEW r \in Socks,
         \/ HandleConnect(r) \/ HandleScrape(r) \/ HandleLost(r) \/ HandleShort(r) \/ HandleError(r)
         \/ Result(r)
  PROVE  Places'
<1>1. /\ UNCHANGED <<conn, open, net, pc, tx, header, used, expired>>
      /\ dialled' = dialled /\ own' = own /\ rsock' = rsock
  BY Zenon DEF HandleConnect, HandleScrape, HandleLost, HandleShort, HandleError, Handled, Result, shared,
         wire, scraper, history
<1>2. ScraperOK' /\ WireOK'
  <2>1. connectionID' \in {connectionID, 1}
    BY Zenon DEF HandleConnect, HandleScrape, HandleLost, HandleShort, HandleError, Result, shared
  <2> QED
    BY <1>1, <2>1, Zenon DEF Places, ScraperOK, WireOK
<1>3. HistoryOK'
  <2>1. CASE HandleShort(r)
    <3>1. rmsg[r].tx \in used
      BY <2>1, Zenon DEF HandleShort, Handled, Places, ReceiverOK
    <3>2. spoiled' = spoiled \cup {rmsg[r].tx} /\ delivered' = delivered
      BY <2>1, Zenon DEF HandleShort
    <3> QED
      BY <1>1, <3>1, <3>2, Zenon DEF Places, HistoryOK
  <2>2. CASE Result(r)
    <3>1. rmsg[r].tx \in used
      BY <2>2, Zenon DEF Result, Places, ReceiverOK
    <3>2. spoiled' = spoiled /\ delivered' = [delivered EXCEPT ![rmsg[r].tx] = @ + 1]
      BY <2>2, Zenon DEF Result
    <3> QED
      BY <1>1, <3>1, <3>2 DEF Places, HistoryOK
  <2>3. CASE UNCHANGED <<spoiled, delivered>>
    BY <1>1, <2>3, Zenon DEF Places, HistoryOK
  <2> QED
    BY <2>1, <2>2, <2>3, Zenon DEF HandleConnect, HandleScrape, HandleLost, HandleError, history
<1>4. rpc[r] # "none" /\ \A s \in Scrapers : pc[s] = "gone" => pc'[s] = "gone"
  BY <1>1, Zenon DEF HandleConnect, HandleScrape, HandleLost, HandleShort, HandleError, Handled, Result
<1>5. ASSUME NEW l \in {"token", "load", "check"}, rpc' = [rpc EXCEPT ![r] = l],
             rmsg' = [rmsg EXCEPT ![r] = None]
      PROVE  StartOK' /\ ReceiverOK'
  <2>1. GoesOn(r, l)
    BY <1>1, <1>4, <1>5, Zenon DEF GoesOn, ReceiverLabels
  <2>2. rpc' \in [Socks -> ReceiverLabels] /\ \A q \in Socks : rpc'[q] = IF q = r THEN l ELSE rpc[q]
    BY <2>1, StepStart, Zenon
  <2>3. /\ rmsg' \in [Socks -> Answer \cup {None}]
        /\ \A q \in Socks : rmsg'[q] = IF q = r THEN None ELSE rmsg[q]
    BY <1>5, Zenon DEF Places, ReceiverOK
  <2>4. ReceiverOK'
    BY <1>1, <2>2, <2>3, Zenon DEF Places, ReceiverOK
  <2> QED
    BY <2>1, <2>4, StepStart, Zenon
<1>6. ASSUME HandleScrape(r)
      PROVE  StartOK' /\ ReceiverOK'
  <2>1. GoesOn(r, "result")
    BY <1>1, <1>4, <1>6, Zenon DEF HandleScrape, Step, GoesOn, ReceiverLabels
  <2>2. rpc' \in [Socks -> ReceiverLabels] /\ \A q \in Socks : rpc'[q] = IF q = r THEN "result" ELSE rpc[q]
    BY <2>1, StepStart, Zenon
  <2>3. rmsg' = rmsg /\ rpc[r] = "handle" /\ rmsg[r].action = "scrape"
    BY <1>6, Zenon DEF HandleScrape
  <2>4. ReceiverOK'
    BY <1>1, <2>2, <2>3, Zenon DEF Places, ReceiverOK
  <2> QED
    BY <2>1, <2>4, StepStart, Zenon
<1>7. StartOK' /\ ReceiverOK'
  BY <1>5, <1>6, Zenon DEF HandleConnect, HandleLost, HandleShort, HandleError, Handled, Result, Step
<1> QED
  BY <1>2, <1>3, <1>7, Zenon DEF Places

\* A receiver and a scraper meet on the channel connected.
LEMMA ConnectedMoves ==
  ASSUME Places, NEW s \in Scrapers, NEW r \in Socks, Connected(s, r)
  PROVE  Places'
<1>1. /\ UNCHANGED <<conn, connectionID, open, net, tx, header, used, expired, spoiled, delivered>>
      /\ dialled' = dialled /\ rsock' = rsock /\ rmsg' = rmsg
  BY Zenon DEF Connected, shared, wire, history
<1>2. pc[s] = "wait" /\ pc' = [pc EXCEPT ![s] = "build"] /\ pc \in [Scrapers -> ScraperLabels]
  BY Zenon DEF Connected, Move, Places, ScraperOK
<1>3. pc' \in [Scrapers -> ScraperLabels] /\ \A u \in Scrapers : pc'[u] = IF u = s THEN "build" ELSE pc[u]
  BY <1>2, Zenon DEF ScraperLabels
<1>4. WireOK' /\ HistoryOK' /\ ScraperOK'
  BY <1>1, <1>3, Zenon DEF Places, WireOK, HistoryOK, ScraperOK
<1>5. GoesOn(r, "load")
  BY <1>1, <1>2, <1>3, Zenon DEF Connected, GoesOn, ReceiverLabels
<1>6. rpc' \in [Socks -> ReceiverLabels] /\ \A q \in Socks : rpc'[q] = IF q = r THEN "load" ELSE rpc[q]
  BY <1>5, StepStart, Zenon
<1>7. ReceiverOK'
  BY <1>1, <1>6, Zenon DEF Places, ReceiverOK
<1> QED
  BY <1>4, <1>5, <1>7, StepStart, Zenon DEF Places

LEMMA ExpireMoves ==
  ASSUME TInv, NEW t \in Txs, Expire(t)
  PROVE  Places'
<1>1. UNCHANGED <<shared, wire, scraper, receiver>> /\ UNCHANGED <<used, spoiled, delivered>>
  BY Zenon DEF Expire
<1>2. t \in used /\ expired' = expired \cup {t}
  BY Zenon DEF Expire, Queue!Drop, TInv, FiledIsUsed, QueueOK
<1>3. HistoryOK'
  BY <1>1, <1>2, Zenon DEF TInv, Places, HistoryOK
<1> QED
  BY <1>1, <1>3, Zenon DEF TInv, Places, WireOK, ScraperOK, ReceiverOK, StartOK, shared, wire, scraper, receiver

LEMMA PanicTypes ==
  ASSUME TInv, Panic
  PROVE  TInv'
<1>1. QueueOK' /\ FiledIsUsed'
  BY Zenon DEF Panic, QueueOK, FiledIsUsed
<1>2. WireOK' /\ HistoryOK'
  BY Zenon DEF Panic, shared, TInv, Places, WireOK, HistoryOK
<1>3. ScraperOK'
  BY Zenon DEF Panic, ScraperOK, ScraperLabels
<1>4. ReceiverOK' /\ StartOK'
  BY <1>2, SocksType DEF Panic, WireOK, ReceiverOK, ReceiverLabels, StartOK
<1> QED
  BY <1>1, <1>2, <1>3, <1>4, Zenon DEF TInv, Places

LEMMA NextTypes == TInv /\ [Next]_vars => TInv'
<1> SUFFICES ASSUME TInv, [Next]_vars PROVE TInv'
  OBVIOUS
<1>1. QueueOK /\ FiledIsUsed /\ Places /\ used \in SUBSET Txs
  BY Zenon DEF TInv, Places, HistoryOK
<1>2. ASSUME NEW s \in Scrapers, Scrape(s) \/ ScrapeStep(s) PROVE TInv'
  <2>1. Places'
    BY <1>1, <1>2, ScraperMoves, ConnectMoves, ConnectedMoves, Zenon DEF ScrapeStep, Connect
  <2>2. CASE SetQueue(s)
    <3>1. tx[s] \in used /\ Queue!Put(tx[s], TRUE) /\ used' = used
      BY <1>1, <2>2, Zenon DEF SetQueue, Places, ScraperOK, history
    <3> QED
      BY <1>1, <2>1, <3>1, PutQueue, Zenon DEF TInv
  <2>3. CASE scrapeQueue' = scrapeQueue /\ used \subseteq used'
    BY <1>1, <2>1, <2>3, SameQueue, Zenon DEF TInv
  <2>4. CASE Connect(s)
    BY <2>3, <2>4, Zenon DEF Connect, Dial, DialFails, Hello, SendConnect, SendConnectFails, history
  <2> QED
    BY <1>2, <2>2, <2>3, <2>4, Zenon DEF Scrape, ScrapeStep, CheckConnected, Connected, Build, WriteScrape,
       WriteScrapeFails, history
<1>3. ASSUME NEW r \in Socks, Receive(r) PROVE TInv'
  <2>1. Places'
    BY <1>1, <1>3, ReceiverMoves, ReadMoves, HandleMoves, Zenon DEF Receive, Handle, Disconnect
  <2>2. CASE HandleScrape(r) \/ HandleShort(r)
    <3>1. rmsg[r].tx \in Txs /\ Queue!Drop(rmsg[r].tx) /\ used' = used
      BY <1>1, <2>2, Zenon DEF HandleScrape, HandleShort, Handled, Places, ReceiverOK, history
    <3> QED
      BY <1>1, <2>1, <3>1, DropQueue, Zenon DEF TInv
  <2>3. CASE scrapeQueue' = scrapeQueue /\ used' = used
    BY <1>1, <2>1, <2>3, SameQueue, Zenon DEF TInv
  <2>4. CASE Disconnect(r)
    BY <2>3, <2>4, Zenon DEF Disconnect, CheckConn, Close, Clear, Reset, history
  <2>5. CASE Handle(r)
    BY <2>2, <2>3, <2>5, Zenon DEF Handle, HandleConnect, HandleLost, HandleError, history
  <2> QED
    BY <1>3, <2>3, <2>4, <2>5, Zenon DEF Receive, Load, Read, ReadFails, Result, history
<1>4. ASSUME NEW t \in Txs, Expire(t) PROVE TInv'
  BY <1>1, <1>4, ExpireMoves, DropQueue, Zenon DEF Expire, TInv
<1>5. CASE Panic
  BY <1>5, PanicTypes, Zenon
<1>6. CASE UNCHANGED vars
  <2>1. Places'
    BY <1>1, <1>6, Zenon DEF vars, shared, wire, scraper, receiver, history, Places, WireOK, ScraperOK,
                      ReceiverOK, StartOK, HistoryOK
  <2> QED
    BY <1>1, <1>6, <2>1, SameQueue, Zenon DEF vars, history, TInv
<1> QED
  BY <1>2, <1>3, <1>4, <1>5, <1>6, Zenon DEF Next

\* What the program counters, the queue, the sockets and the answers of the
\* tracker's client may be, in every state: TypeOK of UDPTracker.
THEOREM TypeCorrect == Spec => []TypeOK
<1>1. TInv => TypeOK
  BY Zenon DEF TInv, QueueOK, Places, WireOK, ScraperOK, ReceiverOK, StartOK, HistoryOK, TypeOK,
         ScraperLabels, ReceiverLabels
<1> QED
  BY <1>1, InitTypes, NextTypes, PTL DEF Spec

-----------------------------------------------------------------------------
(* The ends of a transaction.                                              *)

HeldBy(s, t) == pc[s] = "set" /\ tx[s] = t
PassedBy(r, t) == rpc[r] = "result" /\ rmsg[r].tx = t

\* The end of t is the one named k, and no other.
EndIs(t, k) ==
  /\ (\E s \in Scrapers : HeldBy(s, t)) <=> k = "scrape"
  /\ (\E r \in Socks : PassedBy(r, t)) <=> k = "result"
  /\ scrapeQueue[t] <=> k = "queue"
  /\ t \in expired <=> k = "expired"
  /\ t \in spoiled <=> k = "spoiled"
  /\ delivered[t] = IF k = "done" THEN 1 ELSE 0

\* One scraper and one receiver at most have it.
Lone(t) ==
  /\ \A s, u \in Scrapers : HeldBy(s, t) /\ HeldBy(u, t) => s = u
  /\ \A r, q \in Socks : PassedBy(r, t) /\ PassedBy(q, t) => r = q

Kinds == {"scrape", "result", "queue", "expired", "spoiled", "done"}

OneEnd(t) == Lone(t) /\ \E k \in Kinds : EndIs(t, k)

\* Every transaction drawn has one end, and no other has a result.
EndsInv == TInv /\ \A t \in Txs : IF t \in used THEN OneEnd(t) ELSE delivered[t] = 0

LEMMA StateTypes ==
  ASSUME EndsInv
  PROVE  /\ TInv /\ pc \in [Scrapers -> ScraperLabels] /\ tx \in [Scrapers -> Txs \cup {None}]
         /\ rpc \in [Socks -> ReceiverLabels] /\ rmsg \in [Socks -> Answer \cup {None}]
         /\ delivered \in [Txs -> Nat] /\ used \in SUBSET Txs
BY Zenon DEF EndsInv, TInv, Places, ScraperOK, ReceiverOK, HistoryOK

\* What a step leaves alone of t.
SameHolders(t) == \A s \in Scrapers : HeldBy(s, t)' <=> HeldBy(s, t)
SamePassing(t) == \A r \in Socks : PassedBy(r, t)' <=> PassedBy(r, t)
SameHistory(t) ==
  /\ t \in expired' <=> t \in expired
  /\ t \in spoiled' <=> t \in spoiled
  /\ delivered'[t] = delivered[t]
SameEnds(t) == SameHolders(t) /\ SamePassing(t) /\ SameHistory(t) /\ (scrapeQueue'[t] <=> scrapeQueue[t])

LEMMA EndKept ==
  ASSUME NEW t, SameEnds(t), OneEnd(t)
  PROVE  OneEnd(t)'
BY Zenon DEF SameEnds, SameHolders, SamePassing, SameHistory, OneEnd, Lone, EndIs

\* A step touches the ends of no transaction, or of one only.
LEMMA QuietEnds ==
  ASSUME EndsInv, TInv', used' = used, \A t \in Txs : SameEnds(t)
  PROVE  EndsInv'
BY EndKept, Zenon DEF EndsInv, SameEnds, SameHistory

LEMMA MovedEnds ==
  ASSUME EndsInv, TInv', used' = used, NEW t \in used, OneEnd(t)', \A v \in Txs \ {t} : SameEnds(v)
  PROVE  EndsInv'
BY EndKept, Zenon DEF EndsInv, SameEnds, SameHistory

\* The steps of a scraper that draw no transaction and file none.
LEMMA ScraperQuiet ==
  ASSUME EndsInv, TInv', NEW s \in Scrapers,
         \/ Scrape(s) \/ Connect(s) \/ CheckConnected(s) \/ WriteScrape(s) \/ WriteScrapeFails(s)
         \/ \E r \in Socks : Connected(s, r)
  PROVE  EndsInv'
<1>1. /\ scrapeQueue' = scrapeQueue /\ used' = used /\ rmsg' = rmsg
      /\ expired' = expired /\ spoiled' = spoiled /\ delivered' = delivered
  <2>1. CASE Connect(s)
    BY <2>1, Zenon DEF Connect, Dial, DialFails, Hello, GoReceive, SendConnect, SendConnectFails, receiver, history
  <2> QED
    BY <2>1, Zenon DEF Scrape, CheckConnected, Connected, WriteScrape, WriteScrapeFails, receiver, history
<1>2. \A t \in Txs : SameHolders(t)
  <2>1. \E l \in ScraperLabels \ {"set"} : pc' = [pc EXCEPT ![s] = l]
    <3>1. CASE Connect(s)
      BY <3>1, Zenon DEF Connect, Dial, DialFails, Hello, SendConnect, SendConnectFails, Move, ScraperLabels
    <3> QED
      BY <3>1, Zenon DEF Scrape, CheckConnected, Connected, WriteScrape, WriteScrapeFails, Return, Move,
                  ScraperLabels
  <2>2. pc[s] # "set" /\ (tx' = tx \/ tx' = [tx EXCEPT ![s] = None])
    <3>1. CASE Connect(s)
      BY <3>1, Zenon DEF Connect, Dial, DialFails, Hello, SendConnect, SendConnectFails
    <3> QED
      BY <3>1, Zenon DEF Scrape, CheckConnected, Connected, WriteScrape, WriteScrapeFails, Return
  <2>3. \A u \in Scrapers \ {s} : pc'[u] = pc[u] /\ tx'[u] = tx[u]
    BY <2>1, <2>2, StateTypes, Zenon
  <2>4. pc'[s] # "set"
    BY <2>1, StateTypes, Zenon
  <2> QED
    BY <2>2, <2>3, <2>4, Zenon DEF SameHolders, HeldBy
<1>3. \A t \in Txs : SamePassing(t)
  <2>1. \/ rpc' = rpc
        \/ rpc' = [rpc EXCEPT ![own[s]] = "load"]
        \/ \E r \in Socks : rpc[r] = "token" /\ rpc' = [rpc EXCEPT ![r] = "load"]
    <3>1. CASE Connect(s)
      BY <3>1, Zenon DEF Connect, Dial, DialFails, Hello, SendConnect, SendConnectFails, GoReceive, receiver
    <3> QED
      BY <3>1, Zenon DEF Scrape, CheckConnected, Connected, WriteScrape, WriteScrapeFails, receiver
  <2>2. own[s] \in Socks => rpc[own[s]] # "result"
    BY SocksType, Zenon DEF EndsInv, TInv, Places, StartOK
  <2>3. \A r \in Socks : rpc'[r] = "result" <=> rpc[r] = "result"
    BY <2>1, <2>2, StateTypes, Zenon
  <2> QED
    BY <1>1, <2>3, Zenon DEF SamePassing, PassedBy
<1> QED
  BY <1>1, <1>2, <1>3, QuietEnds, Zenon DEF SameEnds, SameHistory

\* The steps of a receiver that take nothing from the queue and pass nothing on.
LEMMA ReceiverQuiet ==
  ASSUME EndsInv, TInv', NEW r \in Socks,
         \/ Load(r) \/ Read(r) \/ ReadFails(r) \/ Disconnect(r)
         \/ HandleConnect(r) \/ HandleLost(r) \/ HandleError(r)
  PROVE  EndsInv'
<1>1. /\ scrapeQueue' = scrapeQueue /\ used' = used
      /\ expired' = expired /\ spoiled' = spoiled /\ delivered' = delivered
  BY Zenon DEF Load, Read, ReadFails, Disconnect, CheckConn, Close, Clear, Reset, HandleConnect, HandleLost,
         HandleError, history
<1>2. pc' = pc /\ tx' = tx
  BY Zenon DEF Load, Read, ReadFails, Disconnect, CheckConn, Close, Clear, Reset, HandleConnect, HandleLost,
         HandleError, Handled, scraper
<1>3. \A t \in Txs : SameHolders(t)
  BY <1>2, Zenon DEF SameHolders, HeldBy
<1>4. \A t \in Txs : SamePassing(t)
  <2>1. rpc[r] # "result" /\ \E l \in ReceiverLabels \ {"result"} : rpc' = [rpc EXCEPT ![r] = l]
    BY Zenon DEF Load, Read, ReadFails, Disconnect, CheckConn, Close, Clear, Reset, HandleConnect, HandleLost,
           HandleError, Handled, Step, ReceiverLabels
  <2>2. rmsg' = rmsg \/ \E d : rmsg' = [rmsg EXCEPT ![r] = d]
    BY Zenon DEF Load, Read, ReadFails, Disconnect, CheckConn, Close, Clear, Reset, HandleConnect, HandleLost,
           HandleError, Handled
  <2>3. \A q \in Socks \ {r} : rpc'[q] = rpc[q] /\ rmsg'[q] = rmsg[q]
    BY <2>1, <2>2, StateTypes, Zenon
  <2>4. rpc'[r] # "result"
    BY <2>1, StateTypes, Zenon
  <2> QED
    BY <2>1, <2>3, <2>4, Zenon DEF SamePassing, PassedBy
<1> QED
  BY <1>1, <1>3, <1>4, QuietEnds, Zenon DEF SameEnds, SameHistory

LEMMA BuildEnds ==
  ASSUME EndsInv, TInv', NEW s \in Scrapers, NEW t \in Txs, Build(s, t)
  PROVE  EndsInv'
<1>1. /\ t \notin used /\ used' = used \cup {t} /\ pc[s] = "build" /\ scrapeQueue' = scrapeQueue
      /\ expired' = expired /\ spoiled' = spoiled /\ delivered' = delivered
      /\ rpc' = rpc /\ rmsg' = rmsg
  BY Zenon DEF Build, receiver
<1>2. \A u \in Scrapers : /\ pc'[u] = IF u = s THEN "set" ELSE pc[u]
                          /\ tx'[u] = IF u = s THEN t ELSE tx[u]
  BY StateTypes, Zenon DEF Build, Move
<1>3. \A v \in Txs \ {t} : SameEnds(v)
  BY <1>1, <1>2, Zenon DEF SameEnds, SameHolders, SamePassing, SameHistory, HeldBy, PassedBy
<1>4. /\ \A u \in Scrapers : HeldBy(u, t)' <=> u = s
      /\ \A r \in Socks : ~PassedBy(r, t)'
  <2>1. \A u \in Scrapers : ~HeldBy(u, t)
    BY <1>1 DEF EndsInv, TInv, Places, ScraperOK, HeldBy
  <2>2. \A r \in Socks : ~PassedBy(r, t)
    BY <1>1, Zenon DEF EndsInv, TInv, Places, ReceiverOK, PassedBy
  <2> QED
    BY <1>1, <1>2, <2>1, <2>2, Zenon DEF HeldBy, PassedBy
<1>5. t \notin expired /\ t \notin spoiled /\ delivered[t] = 0 /\ ~scrapeQueue[t]
  BY <1>1, Zenon DEF EndsInv, TInv, FiledIsUsed, Places, HistoryOK
<1>6. EndIs(t, "scrape")' /\ Lone(t)'
  BY <1>1, <1>4, <1>5, Zenon DEF EndIs, Lone
<1>7. OneEnd(t)'
  BY <1>6, Zenon DEF OneEnd, Kinds
<1> QED
  BY <1>1, <1>3, <1>7, EndKept, Zenon DEF EndsInv, SameEnds, SameHistory

\* The transaction goes from its Scrape to the queue.
LEMMA SetEnds ==
  ASSUME EndsInv, TInv', NEW s \in Scrapers, SetQueue(s)
  PROVE  EndsInv'
<1>1. PICK t \in used : t = tx[s]
  BY Zenon DEF SetQueue, EndsInv, TInv, Places, ScraperOK
<1>2. t \in Txs /\ QueueOK /\ FiledIsUsed /\ used \in SUBSET Txs
  BY StateTypes, Zenon DEF TInv
<1>3. /\ used' = used /\ tx' = tx /\ pc[s] = "set" /\ Queue!Put(t, TRUE) /\ rpc' = rpc /\ rmsg' = rmsg
      /\ expired' = expired /\ spoiled' = spoiled /\ delivered' = delivered
  BY <1>1, Zenon DEF SetQueue, history, receiver
<1>4. \A u \in Scrapers : pc'[u] = IF u = s THEN "write" ELSE pc[u]
  BY StateTypes, Zenon DEF SetQueue, Move
<1>5. scrapeQueue'[t] /\ \A v \in Txs \ {t} : scrapeQueue'[v] = scrapeQueue[v]
  BY <1>2, <1>3, PutQueue, Zenon
<1>6. \A v \in Txs \ {t} : SameEnds(v)
  BY <1>1, <1>3, <1>4, <1>5 DEF SameEnds, SameHolders, SamePassing, SameHistory, HeldBy, PassedBy
<1>7. Lone(t) /\ EndIs(t, "scrape")
  BY <1>1, <1>2, <1>3, Zenon DEF EndsInv, OneEnd, EndIs, HeldBy
<1>8. (\A u \in Scrapers : ~HeldBy(u, t)') /\ (\A r \in Socks : PassedBy(r, t)' <=> PassedBy(r, t))
  BY <1>1, <1>3, <1>4, <1>7, Zenon DEF Lone, HeldBy, PassedBy
<1>9. EndIs(t, "queue")' /\ Lone(t)'
  BY <1>3, <1>5, <1>7, <1>8, Zenon DEF EndIs, Lone
<1> QED
  BY <1>3, <1>6, <1>9, MovedEnds, Zenon DEF OneEnd, Kinds

\* A filed transaction is at no other end.
LEMMA FiledOnly ==
  ASSUME EndsInv, NEW t \in Txs, Queue!Drop(t), used' = used
  PROVE  /\ t \in used /\ Lone(t) /\ EndIs(t, "queue") /\ ~scrapeQueue'[t]
         /\ \A v \in Txs \ {t} : scrapeQueue'[v] = scrapeQueue[v]
<1>1. QueueOK /\ FiledIsUsed
  BY Zenon DEF EndsInv, TInv
<1>2. scrapeQueue[t] /\ ~scrapeQueue'[t] /\ \A v \in Txs \ {t} : scrapeQueue'[v] = scrapeQueue[v]
  BY <1>1, DropQueue, Zenon
<1>3. t \in used
  BY <1>1, <1>2, Zenon DEF FiledIsUsed
<1>4. Lone(t) /\ EndIs(t, "queue")
  BY <1>2, <1>3, Zenon DEF EndsInv, OneEnd, EndIs
<1> QED
  BY <1>2, <1>3, <1>4, Zenon

\* A filed transaction is taken out of the queue, by its timer or by one of
\* the receivers: another end takes its place.
LEMMA ExpireEnds ==
  ASSUME EndsInv, TInv', NEW t \in Txs, Expire(t)
  PROVE  EndsInv'
<1>1. /\ Queue!Drop(t) /\ expired' = expired \cup {t} /\ used' = used
      /\ spoiled' = spoiled /\ delivered' = delivered
      /\ pc' = pc /\ tx' = tx /\ rpc' = rpc /\ rmsg' = rmsg
  BY Zenon DEF Expire, scraper, receiver
<1>2. /\ t \in used /\ Lone(t) /\ EndIs(t, "queue") /\ ~scrapeQueue'[t]
      /\ \A v \in Txs \ {t} : scrapeQueue'[v] = scrapeQueue[v]
  BY <1>1, FiledOnly, Zenon
<1>3. \A v \in Txs : SameHolders(v) /\ SamePassing(v)
  BY <1>1, Zenon DEF SameHolders, SamePassing, HeldBy, PassedBy
<1>4. \A v \in Txs \ {t} : SameEnds(v)
  BY <1>1, <1>2, <1>3, Zenon DEF SameEnds, SameHistory
<1>5. EndIs(t, "expired")' /\ Lone(t)'
  BY <1>1, <1>2, <1>3, Zenon DEF EndIs, Lone, SameHolders, SamePassing
<1> QED
  BY <1>1, <1>2, <1>4, <1>5, MovedEnds, Zenon DEF OneEnd, Kinds

LEMMA ShortEnds ==
  ASSUME EndsInv, TInv', NEW r \in Socks, HandleShort(r)
  PROVE  EndsInv'
<1>1. PICK t \in Txs : t = rmsg[r].tx
  BY Zenon DEF HandleShort, Handled, EndsInv, TInv, Places, ReceiverOK, HistoryOK
<1>2. /\ Queue!Drop(t) /\ spoiled' = spoiled \cup {t} /\ used' = used
      /\ expired' = expired /\ delivered' = delivered /\ pc' = pc /\ tx' = tx
  BY <1>1, Zenon DEF HandleShort, Handled, scraper
<1>3. /\ t \in used /\ Lone(t) /\ EndIs(t, "queue") /\ ~scrapeQueue'[t]
      /\ \A v \in Txs \ {t} : scrapeQueue'[v] = scrapeQueue[v]
  BY <1>2, FiledOnly, Zenon
<1>4. rpc[r] = "handle" /\ \A q \in Socks : /\ rpc'[q] = IF q = r THEN "check" ELSE rpc[q]
                                            /\ rmsg'[q] = IF q = r THEN None ELSE rmsg[q]
  BY StateTypes, Zenon DEF HandleShort, Handled, Step
<1>5. \A v \in Txs : SameHolders(v) /\ SamePassing(v)
  BY <1>2, <1>4, Zenon DEF SameHolders, SamePassing, HeldBy, PassedBy
<1>6. \A v \in Txs \ {t} : SameEnds(v)
  BY <1>2, <1>3, <1>5, Zenon DEF SameEnds, SameHistory
<1>7. EndIs(t, "spoiled")' /\ Lone(t)'
  BY <1>2, <1>3, <1>5, Zenon DEF EndIs, Lone, SameHolders, SamePassing
<1> QED
  BY <1>2, <1>3, <1>6, <1>7, MovedEnds, Zenon DEF OneEnd, Kinds

LEMMA ScrapeEnds ==
  ASSUME EndsInv, TInv', NEW r \in Socks, HandleScrape(r)
  PROVE  EndsInv'
<1>1. PICK t \in Txs : t = rmsg[r].tx
  BY Zenon DEF HandleScrape, EndsInv, TInv, Places, ReceiverOK, HistoryOK
<1>2. /\ Queue!Drop(t) /\ used' = used /\ expired' = expired /\ spoiled' = spoiled
      /\ delivered' = delivered /\ pc' = pc /\ tx' = tx
  BY <1>1, Zenon DEF HandleScrape, history, scraper
<1>3. /\ t \in used /\ Lone(t) /\ EndIs(t, "queue") /\ ~scrapeQueue'[t]
      /\ \A v \in Txs \ {t} : scrapeQueue'[v] = scrapeQueue[v]
  BY <1>2, FiledOnly, Zenon
<1>4. rpc[r] = "handle" /\ rmsg' = rmsg /\ \A q \in Socks : rpc'[q] = IF q = r THEN "result" ELSE rpc[q]
  BY StateTypes, Zenon DEF HandleScrape, Step
<1>5. \A v \in Txs : SameHolders(v)
  BY <1>2, Zenon DEF SameHolders, HeldBy
<1>6. \A v \in Txs \ {t} : SamePassing(v)
  BY <1>1, <1>4, Zenon DEF SamePassing, PassedBy
<1>7. \A v \in Txs \ {t} : SameEnds(v)
  BY <1>2, <1>3, <1>5, <1>6, Zenon DEF SameEnds, SameHistory
<1>8. \A q \in Socks : PassedBy(q, t)' <=> q = r
  BY <1>1, <1>3, <1>4, Zenon DEF EndIs, PassedBy
<1>9. EndIs(t, "result")' /\ Lone(t)'
  BY <1>2, <1>3, <1>5, <1>8, Zenon DEF EndIs, Lone, SameHolders
<1> QED
  BY <1>2, <1>3, <1>7, <1>9, MovedEnds, Zenon DEF OneEnd, Kinds

\* The result is passed on.
LEMMA ResultEnds ==
  ASSUME EndsInv, TInv', NEW r \in Socks, Result(r)
  PROVE  EndsInv'
<1>1. PICK t \in used : t = rmsg[r].tx
  BY Zenon DEF Result, EndsInv, TInv, Places, ReceiverOK
<1>2. t \in Txs /\ delivered \in [Txs -> Nat]
  BY StateTypes, Zenon
<1>3. /\ scrapeQueue' = scrapeQueue /\ used' = used /\ expired' = expired /\ spoiled' = spoiled
      /\ pc' = pc /\ tx' = tx /\ delivered' = [delivered EXCEPT ![t] = @ + 1]
  BY <1>1, Zenon DEF Result, scraper
<1>4. rpc[r] = "result" /\ \A q \in Socks : /\ rpc'[q] = IF q = r THEN "load" ELSE rpc[q]
                                            /\ rmsg'[q] = IF q = r THEN None ELSE rmsg[q]
  BY StateTypes, Zenon DEF Result, Step
<1>5. \A v \in Txs : SameHolders(v)
  BY <1>3, Zenon DEF SameHolders, HeldBy
<1>6. \A v \in Txs \ {t} : SamePassing(v) /\ delivered'[v] = delivered[v]
  BY <1>1, <1>2, <1>3, <1>4, Zenon DEF SamePassing, PassedBy
<1>7. \A v \in Txs \ {t} : SameEnds(v)
  BY <1>3, <1>5, <1>6, Zenon DEF SameEnds, SameHistory
<1>8. Lone(t) /\ EndIs(t, "result")
  BY <1>1, <1>2, <1>4, Zenon DEF EndsInv, OneEnd, EndIs, PassedBy
<1>9. \A q \in Socks : ~PassedBy(q, t)'
  BY <1>1, <1>4, <1>8, Zenon DEF Lone, PassedBy
<1>10. delivered'[t] = 1
  BY <1>2, <1>3, <1>8 DEF EndIs
<1>11. EndIs(t, "done")' /\ Lone(t)'
  BY <1>2, <1>3, <1>5, <1>8, <1>9, <1>10, Zenon DEF EndIs, Lone, SameHolders
<1> QED
  BY <1>3, <1>7, <1>11, MovedEnds, Zenon DEF OneEnd, Kinds

\* The invariant speaks of the set Ends.
LEMMA OneInEnds ==
  ASSUME NEW t \in Txs, OneEnd(t)
  PROVE  \E end \in Ends(t) : Ends(t) = {end}
<1>1. PICK k \in Kinds : EndIs(t, k)
  BY Zenon DEF OneEnd
<1>2. PICK x : /\ k = "scrape" => x \in Scrapers /\ HeldBy(x, t)
               /\ k = "result" => x \in Socks /\ PassedBy(x, t)
               /\ k \notin {"scrape", "result"} => x = 1
  BY <1>1, Zenon DEF EndIs, Kinds
<1>3. \A e : e \in Ends(t) <=>
          \/ \E s \in Scrapers : HeldBy(s, t) /\ e = <<"scrape", s>>
          \/ \E r \in Socks : PassedBy(r, t) /\ e = <<"result", r>>
          \/ scrapeQueue[t] /\ e = <<"queue", 1>>
          \/ t \in expired /\ e = <<"expired", 1>>
          \/ t \in spoiled /\ e = <<"spoiled", 1>>
          \/ \E n \in 1 .. delivered[t] : e = <<"done", n>>
  BY Zenon DEF Ends, HeldBy, PassedBy
<1>4. \A e : e \in Ends(t) <=> e = <<k, x>>
  <2>1. \A n : n \in 1 .. delivered[t] <=> n = 1 /\ k = "done"
    BY <1>1 DEF EndIs
  <2>2. CASE k = "scrape"
    BY <1>1, <1>2, <1>3, <2>1, <2>2, Zenon DEF EndIs, OneEnd, Lone
  <2>3. CASE k = "result"
    BY <1>1, <1>2, <1>3, <2>1, <2>3, Zenon DEF EndIs, OneEnd, Lone
  <2>4. CASE k \in Kinds \ {"scrape", "result"}
    BY <1>1, <1>2, <1>3, <2>1, <2>4, Zenon DEF EndIs, Kinds
  <2> QED
    BY <2>2, <2>3, <2>4, Zenon
<1>5. Ends(t) = {<<k, x>>}
  BY <1>4, Zenon
<1>6. <<k, x>> \in Ends(t)
  BY <1>4, Zenon
<1> QED
  BY <1>5, <1>6, Zenon

\* A transaction comes to one end only: in the hands of its Scrape, filed,
\* expired, spoiled by a short answer, or its result is passed on, once;
\* whatever the network loses, repeats or reorders, and whichever of the
\* receivers, which share conn without a lock, reads the answer.
THEOREM OneEndOnly == Spec => []SettledOnce
<1>1. Init => EndsInv
  BY InitTypes, Zenon DEF Init, EndsInv
<1>2. EndsInv /\ [Next]_vars => EndsInv'
  <2> SUFFICES ASSUME EndsInv, [Next]_vars PROVE EndsInv'
    OBVIOUS
  <2>1. TInv'
    BY NextTypes, Zenon DEF EndsInv
  <2>2. ASSUME NEW s \in Scrapers, Scrape(s) \/ ScrapeStep(s) PROVE EndsInv'
    BY <2>1, <2>2, ScraperQuiet, BuildEnds, SetEnds, Zenon DEF ScrapeStep
  <2>3. ASSUME NEW r \in Socks, Receive(r) PROVE EndsInv'
    BY <2>1, <2>3, ReceiverQuiet, ScrapeEnds, ShortEnds, ResultEnds, Zenon DEF Receive, Handle
  <2>4. ASSUME NEW t \in Txs, Expire(t) PROVE EndsInv'
    BY <2>1, <2>4, ExpireEnds, Zenon
  <2>5. CASE Panic
    BY <2>1, <2>5, Zenon DEF Panic, EndsInv
  <2>6. CASE UNCHANGED vars
    <3>1. used' = used /\ \A t \in Txs : SameEnds(t)
      BY <2>6, Zenon DEF vars, scraper, receiver, history, SameEnds, SameHolders, SamePassing, SameHistory, HeldBy,
                  PassedBy
    <3> QED
      BY <2>1, <3>1, QuietEnds, Zenon
  <2> QED
    BY <2>2, <2>3, <2>4, <2>5, <2>6 DEF Next
<1>3. EndsInv => SettledOnce
  BY StateTypes, OneInEnds, Zenon DEF EndsInv, SettledOnce
<1> QED
  BY <1>1, <1>2, <1>3, PTL DEF Spec
=============================================================================
