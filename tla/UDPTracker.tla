----------------------------- MODULE UDPTracker -----------------------------
(***************************************************************************)
(* common/bittorrent/tracker/udp.go: the client of a UDP tracker.  Scrape  *)
(* opens the connection if there is none, waits until the tracker has      *)
(* given it a connection id, files its transaction in scrapeQueue and      *)
(* sends the request; each connect starts a goroutine that receives the    *)
(* answers.  The fields conn and connectionID are shared by all of them    *)
(* without a lock, so every access is a step of its own.                   *)
(*                                                                         *)
(* scrapeQueue is a blocking LRWCache, used here by its specification,     *)
(* BoundedMap.  External: the tracker and the network between, which       *)
(* loses, repeats and reorders datagrams.                                  *)
(***************************************************************************)
EXTENDS Integers, FiniteSets

CONSTANTS Scrapers,   \* goroutines that call Scrape
          Txs,        \* transaction ids, drawn at random by Scrape
          QueueSize,  \* conf.QueueSize
          MaxConns,   \* bound: sockets dialled
          None        \* no transaction

ASSUME TrackerAssumption ==
  /\ IsFiniteSet(Txs) /\ None \notin Txs
  /\ QueueSize \in Nat \ {0}
  /\ MaxConns \in Nat \ {0}

Socks == 1 .. MaxConns

VARIABLES conn,         \* t.conn: a socket, 0 is nil
          connectionID, \* t.connectionID: 0, or 1 for an id the tracker gave
          scrapeQueue,  \* transaction -> is it filed?
          dialled,      \* sockets dialled so far
          open,         \* sockets not closed
          net,          \* answers on their way
          pc,           \* scraper -> where it is in Scrape
          tx,           \* scraper -> its transaction
          header,       \* scraper -> the connection id of its request
          own,          \* scraper -> the socket it dialled
          rpc,          \* receive goroutine, by the socket dialled before it
          rsock,        \* ... -> the socket it reads from
          rmsg,         \* ... -> the answer it is handling
          used,         \* history: transactions drawn
          expired,      \* history: transactions whose TTL passed
          spoiled,      \* history: transactions with too short an answer
          delivered     \* history: transaction -> results received for it

shared == <<conn, connectionID>>
wire == <<dialled, open, net>>
scraper == <<pc, tx, header, own>>
receiver == <<rpc, rsock, rmsg>>
history == <<used, expired, spoiled, delivered>>
vars == <<shared, scrapeQueue, wire, scraper, receiver, history>>

Queue == INSTANCE BoundedMap
           WITH Keys <- Txs, Vals <- {TRUE}, Capacity <- QueueSize,
                NoEntry <- FALSE, map <- scrapeQueue

Answer == [sock : Socks, action : {"connect", "scrape", "error"}, tx : Txs \cup {None}]

TypeOK ==
  /\ conn \in 0 .. dialled
  /\ connectionID \in {0, 1}
  /\ scrapeQueue \in [Txs -> BOOLEAN]
  /\ dialled \in Socks
  /\ open \in SUBSET (1 .. dialled)
  /\ net \in SUBSET Answer
  /\ pc \in [Scrapers -> {"idle", "dial", "hello", "greet", "check", "wait", "build", "set", "write",
                        "gone"}]
  /\ tx \in [Scrapers -> Txs \cup {None}]
  /\ header \in [Scrapers -> {0, 1}]
  /\ own \in [Scrapers -> 0 .. dialled]
  /\ rpc \in [Socks -> {"none", "load", "read", "handle", "token", "result",
                        "check", "close", "clear", "reset", "gone"}]
  /\ rsock \in [Socks -> 0 .. dialled]
  /\ rmsg \in [Socks -> Answer \cup {None}]
  /\ used \in SUBSET Txs /\ expired \in SUBSET used /\ spoiled \in SUBSET used
  /\ delivered \in [Txs -> Nat]

\* Start has dialled the first socket, sent the connect request and started
\* its receiver: main does not go on before, and panics if that failed.
Init ==
  /\ conn = 1
  /\ connectionID = 0
  /\ Queue!Init
  /\ dialled = 1
  /\ open = {1}
  /\ net = {[sock |-> 1, action |-> "connect", tx |-> None]}
  /\ pc = [s \in Scrapers |-> "idle"]
  /\ tx = [s \in Scrapers |-> None]
  /\ header = [s \in Scrapers |-> 0]
  /\ own = [s \in Scrapers |-> 0]
  /\ rpc = [r \in Socks |-> IF r = 1 THEN "load" ELSE "none"]
  /\ rsock = [r \in Socks |-> 0]
  /\ rmsg = [r \in Socks |-> None]
  /\ used = {}
  /\ expired = {}
  /\ spoiled = {}
  /\ delivered = [t \in Txs |-> 0]

-----------------------------------------------------------------------------
(* Scrape and the connect it may call.                                     *)

\* The scraper moves on and touches nothing but what the action names.
Move(s, label) == pc' = [pc EXCEPT ![s] = label]

\* A request written to socket c, and what the tracker makes of it: a request
\* without a connection id is answered with an error.  It, or the answer, may
\* be lost.
Write(c, action, t) ==
  /\ c \in open
  /\ \/ \E answer \in {action, "error"} :
          net' = net \cup {[sock |-> c, action |-> answer, tx |-> t]}
     \/ UNCHANGED net

\* Bound: every Scrape under way finds a transaction id that was not drawn.
TxsLeft ==
  Cardinality({s \in Scrapers : pc[s] # "idle" /\ tx[s] = None}) < Cardinality(Txs \ used)

Scrape(s) ==
  /\ pc[s] = "idle"
  /\ TxsLeft
  /\ Move(s, IF conn = 0 THEN "dial" ELSE "check")
  /\ UNCHANGED <<shared, scrapeQueue, wire, tx, header, own, receiver, history>>

Dial(s) ==
  /\ pc[s] = "dial"
  /\ dialled < MaxConns
  /\ dialled' = dialled + 1
  /\ open' = open \cup {dialled'}
  /\ conn' = dialled'
  /\ own' = [own EXCEPT ![s] = dialled']
  /\ Move(s, "hello")
  /\ UNCHANGED <<connectionID, scrapeQueue, net, tx, header, receiver, history>>

DialFails(s) ==
  /\ pc[s] = "dial"
  /\ Move(s, "idle")
  /\ UNCHANGED <<shared, scrapeQueue, wire, tx, header, own, receiver, history>>

GoReceive(s) ==
  /\ rpc' = [rpc EXCEPT ![own[s]] = "load"]
  /\ own' = [own EXCEPT ![s] = 0]
  /\ UNCHANGED <<rsock, rmsg>>

\* connect: an id left from before makes the connect request unnecessary.
Hello(s) ==
  /\ pc[s] = "hello"
  /\ IF connectionID = 0
     THEN Move(s, "greet") /\ UNCHANGED <<own, receiver>>
     ELSE Move(s, "check") /\ GoReceive(s)
  /\ UNCHANGED <<shared, scrapeQueue, wire, tx, header, history>>

SendConnect(s) ==
  /\ pc[s] = "greet"
  /\ Write(conn, "connect", None)
  /\ GoReceive(s)
  /\ Move(s, "check")
  /\ UNCHANGED <<shared, scrapeQueue, dialled, open, tx, header, history>>

\* A write may fail on any socket.  With conn nil it panics (see Panic), unless
\* the message router, which calls handleNewTorrent, recovers and takes that for
\* an error too.  connect returns before it starts the receiver, and leaves the
\* socket.
SendConnectFails(s) ==
  /\ pc[s] = "greet"
  /\ own' = [own EXCEPT ![s] = 0]
  /\ Move(s, "idle")
  /\ UNCHANGED <<shared, scrapeQueue, wire, tx, header, receiver, history>>

CheckConnected(s) ==
  /\ pc[s] = "check"
  /\ Move(s, IF connectionID = 0 THEN "wait" ELSE "build")
  /\ UNCHANGED <<shared, scrapeQueue, wire, tx, header, own, receiver, history>>

\* The unbuffered channel connected: a handleConnect and a Scrape meet.
Connected(s, r) ==
  /\ pc[s] = "wait"
  /\ rpc[r] = "token"
  /\ Move(s, "build")
  /\ rpc' = [rpc EXCEPT ![r] = "load"]
  /\ UNCHANGED <<shared, scrapeQueue, wire, tx, header, own, rsock, rmsg, history>>

\* Transaction ids are 32 random bits: two that are filed are not the same.
Build(s, t) ==
  /\ pc[s] = "build"
  /\ t \notin used
  /\ used' = used \cup {t}
  /\ tx' = [tx EXCEPT ![s] = t]
  /\ header' = [header EXCEPT ![s] = connectionID]
  /\ Move(s, "set")
  /\ UNCHANGED <<shared, scrapeQueue, wire, own, receiver, expired, spoiled, delivered>>

\* scrapeQueue.Set waits while the queue is full.
SetQueue(s) ==
  /\ pc[s] = "set"
  /\ Queue!Put(tx[s], TRUE)
  /\ Move(s, "write")
  /\ UNCHANGED <<shared, wire, tx, header, own, receiver, history>>

Return(s) ==
  /\ tx' = [tx EXCEPT ![s] = None]
  /\ header' = [header EXCEPT ![s] = 0]
  /\ Move(s, "idle")

WriteScrape(s) ==
  /\ pc[s] = "write"
  /\ Write(conn, IF header[s] = 0 THEN "error" ELSE "scrape", tx[s])
  /\ Return(s)
  /\ UNCHANGED <<shared, scrapeQueue, dialled, open, own, receiver, history>>

WriteScrapeFails(s) ==
  /\ pc[s] = "write"
  /\ Return(s)
  /\ UNCHANGED <<shared, scrapeQueue, wire, own, receiver, history>>

\* Mutant: entries expire only while there is a connection.
ExpireConnected(t) ==
  /\ connectionID # 0
  /\ Queue!Drop(t)
  /\ expired' = expired \cup {t}
  /\ UNCHANGED <<shared, wire, scraper, receiver, used, spoiled, delivered>>

\* The timer of a filed transaction.
Expire(t) ==
  /\ Queue!Drop(t)
  /\ expired' = expired \cup {t}
  /\ UNCHANGED <<shared, wire, scraper, receiver, used, spoiled, delivered>>

-----------------------------------------------------------------------------
(* The goroutine receive.                                                  *)

Step(r, label) == rpc' = [rpc EXCEPT ![r] = label]

\* The loop reads t.conn anew: it may be another socket by now.
Load(r) ==
  /\ rpc[r] = "load"
  /\ conn # 0
  /\ rsock' = [rsock EXCEPT ![r] = conn]
  /\ Step(r, "read")
  /\ UNCHANGED <<shared, scrapeQueue, wire, scraper, rmsg, history>>

\* The socket was closed, or reports an error.
ReadFails(r) ==
  /\ rpc[r] = "read"
  /\ rsock' = [rsock EXCEPT ![r] = 0]
  /\ Step(r, "check")
  /\ UNCHANGED <<shared, scrapeQueue, wire, scraper, rmsg, history>>

\* ReadFrom returns an answer, which may come again.
Read(r) ==
  /\ rpc[r] = "read"
  /\ rsock[r] \in open
  /\ \E d \in net :
       /\ d.sock = rsock[r]
       /\ rmsg' = [rmsg EXCEPT ![r] = d]
       /\ net' \in {net, net \ {d}}
  /\ rsock' = [rsock EXCEPT ![r] = 0]
  /\ Step(r, "handle")
  /\ UNCHANGED <<shared, scrapeQueue, dialled, open, scraper, history>>

\* The receiver is done with its answer and goes on at label.
Handled(r, action, label) ==
  /\ rpc[r] = "handle"
  /\ rmsg[r].action = action
  /\ rmsg' = [rmsg EXCEPT ![r] = None]
  /\ Step(r, label)
  /\ UNCHANGED <<wire, scraper, rsock>>

\* handleConnect up to its send: len(t.connected) is 0, as of any channel
\* without a buffer.
HandleConnect(r) ==
  /\ Handled(r, "connect", "token")
  /\ connectionID' = 1
  /\ UNCHANGED <<conn, scrapeQueue, history>>

\* Mutant: the transaction stays in the queue.
HandleScrapeKeeps(r) ==
  /\ rpc[r] = "handle"
  /\ rmsg[r].action = "scrape"
  /\ scrapeQueue[rmsg[r].tx]
  /\ Step(r, "result")
  /\ UNCHANGED <<shared, scrapeQueue, wire, scraper, rsock, rmsg, history>>

\* handleScrape up to its send on result.
HandleScrape(r) ==
  /\ rpc[r] = "handle"
  /\ rmsg[r].action = "scrape"
  /\ Queue!Drop(rmsg[r].tx)
  /\ Step(r, "result")
  /\ UNCHANGED <<shared, wire, scraper, rsock, rmsg, history>>

\* The transaction is not, or no longer, in the queue.
HandleLost(r) ==
  /\ Handled(r, "scrape", "load")
  /\ ~scrapeQueue[rmsg[r].tx]
  /\ UNCHANGED <<shared, scrapeQueue, history>>

\* The answer has fewer entries than the request had hashes.
HandleShort(r) ==
  /\ Handled(r, "scrape", "check")
  /\ Queue!Drop(rmsg[r].tx)
  /\ spoiled' = spoiled \cup {rmsg[r].tx}
  /\ UNCHANGED <<shared, used, expired, delivered>>

\* ActionError is an unknown action to receive.
HandleError(r) ==
  /\ Handled(r, "error", "check")
  /\ UNCHANGED <<shared, scrapeQueue, history>>

\* The updater's handleResult takes the result.
Result(r) ==
  /\ rpc[r] = "result"
  /\ delivered' = [delivered EXCEPT ![rmsg[r].tx] = @ + 1]
  /\ rmsg' = [rmsg EXCEPT ![r] = None]
  /\ Step(r, "load")
  /\ UNCHANGED <<shared, scrapeQueue, wire, scraper, rsock, used, expired, spoiled>>

\* disconnect, and the end of receive.
CheckConn(r) ==
  /\ rpc[r] = "check"
  /\ Step(r, IF conn = 0 THEN "gone" ELSE "close")
  /\ UNCHANGED <<shared, scrapeQueue, wire, scraper, rsock, rmsg, history>>

Close(r) ==
  /\ rpc[r] = "close"
  /\ conn # 0
  /\ open' = open \ {conn}
  /\ net' = {d \in net : d.sock # conn}
  /\ Step(r, "clear")
  /\ UNCHANGED <<shared, scrapeQueue, dialled, scraper, rsock, rmsg, history>>

Clear(r) ==
  /\ rpc[r] = "clear"
  /\ conn' = 0
  /\ Step(r, "reset")
  /\ UNCHANGED <<connectionID, scrapeQueue, wire, scraper, rsock, rmsg, history>>

Reset(r) ==
  /\ rpc[r] = "reset"
  /\ connectionID' = 0
  /\ Step(r, "gone")
  /\ UNCHANGED <<conn, scrapeQueue, wire, scraper, rsock, rmsg, history>>

\* A goroutine calls a method of conn when another has set it to nil: the
\* process ends, and its memory, with what the history says of it, is gone.
Panic ==
  /\ conn = 0
  /\ \/ \E s \in Scrapers : pc[s] \in {"greet", "write"}
     \/ \E r \in Socks : rpc[r] \in {"load", "close"}
  /\ pc' = [s \in Scrapers |-> "gone"]
  /\ tx' = [s \in Scrapers |-> None]
  /\ header' = [s \in Scrapers |-> 0]
  /\ own' = [s \in Scrapers |-> 0]
  /\ rpc' = [r \in Socks |-> "gone"]
  /\ rsock' = [r \in Socks |-> 0]
  /\ rmsg' = [r \in Socks |-> None]
  /\ scrapeQueue' = [t \in Txs |-> FALSE]
  /\ open' = {} /\ net' = {}
  /\ used' = {} /\ expired' = {} /\ spoiled' = {}
  /\ delivered' = [t \in Txs |-> 0]
  /\ UNCHANGED <<shared, dialled>>

Disconnect(r) == CheckConn(r) \/ Close(r) \/ Clear(r) \/ Reset(r)

Handle(r) ==
  HandleConnect(r) \/ HandleScrape(r) \/ HandleLost(r) \/ HandleShort(r) \/ HandleError(r)

Receive(r) ==
  Load(r) \/ Read(r) \/ ReadFails(r) \/ Handle(r) \/ Result(r) \/ Disconnect(r)

Connect(s) == Dial(s) \/ DialFails(s) \/ Hello(s) \/ SendConnect(s) \/ SendConnectFails(s)

ScrapeStep(s) ==
  \/ Connect(s)
  \/ CheckConnected(s)
  \/ \E r \in Socks : Connected(s, r)
  \/ \E t \in Txs : Build(s, t)
  \/ SetQueue(s)
  \/ WriteScrape(s) \/ WriteScrapeFails(s)

Next ==
  \/ \E s \in Scrapers : Scrape(s) \/ ScrapeStep(s)
  \/ \E r \in Socks : Receive(r)
  \/ \E t \in Txs : Expire(t)
  \/ Panic

Spec == Init /\ [][Next]_vars

\* The goroutines run, handleResult comes back for the next result, and
\* timers fire.  A Set that waits for room is served in turn.
Fairness ==
  /\ \A s \in Scrapers : WF_vars(ScrapeStep(s)) /\ SF_vars(SetQueue(s))
  /\ \A r \in Socks : WF_vars(Receive(r))
  /\ \A t \in Txs : WF_vars(Expire(t))
  /\ WF_vars(Panic)

FairSpec == Spec /\ Fairness

-----------------------------------------------------------------------------
(* Properties.                                                             *)

\* Where a transaction is, once for every place.
Ends(t) ==
  {<<"scrape", s>> : s \in {s \in Scrapers : pc[s] = "set" /\ tx[s] = t}}
    \cup {<<"result", r>> : r \in {r \in Socks : rpc[r] = "result" /\ rmsg[r].tx = t}}
    \cup {e \in {<<"queue", 1>>} : scrapeQueue[t]}
    \cup {e \in {<<"expired", 1>>} : t \in expired}
    \cup {e \in {<<"spoiled", 1>>} : t \in spoiled}
    \cup {<<"done", n>> : n \in 1 .. delivered[t]}

\* A transaction comes to one end only, though its answer may arrive twice,
\* after its TTL, or be read by two receivers: it is in the hands of its
\* Scrape, filed, expired, spoiled, or its result is passed on, once.
SettledOnce == \A t \in used : \E end \in Ends(t) : Ends(t) = {end}

\* A Scrape never waits for ever for room in the queue, even when no answer
\* comes at all.
QueueMakesRoom == \A s \in Scrapers : pc[s] = "set" ~> pc[s] # "set"
=============================================================================
