------------------------------- MODULE Proxy --------------------------------
(***************************************************************************)
(* proxy/: a UDP socket over a TCP connection.  The crawler's end (UDPConn *)
(* of proxy/internal/client) frames every datagram as a header, with the   *)
(* address and the length, and the data; the server's end (UDPHandler of   *)
(* proxy/internal/handler) has two goroutines, send from the connection to *)
(* a local UDP socket and receive back, and Run, which waits for a cancel  *)
(* and closes both.                                                        *)
(*                                                                         *)
(* One session, from the dial to the end.  The crawler may dial again      *)
(* while an old session winds down, but sessions share no state: another   *)
(* one can keep the accept loop busy, hold the port, or panic and so end   *)
(* the whole server.                                                       *)
(*                                                                         *)
(* A frame is a sequence of cells: the header is one, and so is each unit  *)
(* of data.  External: TCP (a stream in each direction; a broken           *)
(* connection is one that both ends have closed), the UDP network, bufio.  *)
(***************************************************************************)
EXTENDS Integers, Sequences, FiniteSetsExt

CONSTANTS Lengths,      \* lengths a datagram may have
          BufSize,      \* size of the bufio writers
          PipeSize,     \* 4096: the first size of pipeBuf and readBuf
          MaxUp,        \* bound: datagrams the crawler writes
          MaxDown       \* bound: datagrams that come from the network

ASSUME ProxyAssumption ==
  /\ BufSize \in Nat \ {0}
  /\ PipeSize \in Nat \ {0}
  /\ Lengths \subseteq Nat
  /\ MaxUp \in Nat /\ MaxDown \in Nat

VARIABLES run,         \* the server's side: see RunStates
          greeted,     \* handshakes the crawler has written
          clientOpen,  \* the crawler's end of the connection is open
          serverOpen,  \* the handler's end of the connection is open
          cancelled,   \* the handler's context
          localConn,   \* the handler's UDP socket: "open", "closed" or "nil"
          writer,      \* UDPConn.writer: cells not flushed
          toServer,    \* cells on the connection, towards the handler
          send,        \* where send is
          sending,     \* the frame it has read
          pipeLen,     \* len(pipeBuf)
          inbox,       \* frames of the datagrams waiting at localConn
          receive,     \* where receive is
          receiving,   \* the frame it writes
          readLen,     \* len(readBuf)
          buffered,    \* the writer of UDPHandler.buffered: cells not flushed
          toClient,    \* cells on the connection, towards the crawler
          ups,         \* datagrams the crawler has written
          downs,       \* datagrams the network has sent
          toNetwork,   \* history: frames whose datagram send has passed on
          toCrawler    \* history: frames whose datagram ReadFrom has returned

link == <<run, greeted, clientOpen, serverOpen, cancelled, localConn>>
sendSide == <<writer, toServer, send, sending, pipeLen, toNetwork>>
receiveSide == <<inbox, receive, receiving, readLen, buffered, toClient, toCrawler>>
bounds == <<ups, downs>>
vars == <<link, sendSide, receiveSide, bounds>>

\* A cell: of datagram id, which has n units of data; the header is at 0.
Frame(id, n) == [i \in 1 .. n + 1 |-> [id |-> id, len |-> n, at |-> i - 1]]
Datagrams == {Frame(id, n) : id \in 1 .. MaxUp + MaxDown, n \in Lengths}
Cells == {c \in [id : 1 .. MaxUp + MaxDown, len : Lengths, at : Nat] : c.at <= c.len}

\* "greeting": the accept loop reads the first handshake; "left": it failed.
RunStates == {"dialed", "greeting", "left", "accepted", "open", "closing", "ended"}

TypeOK ==
  /\ run \in RunStates /\ greeted \in 0 .. 2
  /\ clientOpen \in BOOLEAN /\ serverOpen \in BOOLEAN /\ cancelled \in BOOLEAN
  /\ localConn \in {"open", "closed", "nil"}
  /\ writer \in Seq(Cells) /\ Len(writer) <= BufSize
  /\ toServer \in Seq(Cells)
  /\ send \in {"none", "read", "write", "done"}
  /\ sending \in Datagrams \cup {<< >>}
  /\ pipeLen \in Nat \ {0}
  /\ inbox \in Seq(Datagrams)
  /\ receive \in {"none", "loop", "read", "write", "done"}
  /\ receiving \in Datagrams \cup {<< >>}
  /\ readLen \in Nat
  /\ buffered \in Seq(Cells) /\ Len(buffered) <= BufSize
  /\ toClient \in Seq(Cells)
  /\ ups \in 0 .. MaxUp /\ downs \in 0 .. MaxDown
  /\ toNetwork \in Seq(Datagrams)
  /\ toCrawler \in Seq(Datagrams)

\* ProxyClient.ListenUDP has dialed.
Init ==
  /\ run = "dialed" /\ greeted = 0
  /\ clientOpen = TRUE /\ serverOpen = TRUE /\ cancelled = FALSE
  /\ localConn = "nil"
  /\ writer = << >> /\ toServer = << >>
  /\ send = "none" /\ sending = << >> /\ pipeLen = PipeSize
  /\ inbox = << >>
  /\ receive = "none" /\ receiving = << >> /\ readLen = PipeSize
  /\ buffered = << >> /\ toClient = << >>
  /\ ups = 0 /\ downs = 0
  /\ toNetwork = << >> /\ toCrawler = << >>

-----------------------------------------------------------------------------
(* bufio.Writer, and the frames at the head of a stream.                   *)

\* Write(p) with b unflushed: what goes out, and what is kept.
BufWrite(b, p) ==
  LET room == BufSize - Len(b)
      rest == SubSeq(p, room + 1, Len(p))
  IN  IF Len(p) <= room THEN [flushed |-> << >>, kept |-> b \o p]
      ELSE IF b = << >> THEN [flushed |-> p, kept |-> << >>]
      ELSE IF Len(rest) <= BufSize THEN [flushed |-> b \o SubSeq(p, 1, room), kept |-> rest]
      ELSE [flushed |-> b \o p, kept |-> << >>]

\* The header and the data are written one after the other; neither flushes.
WriteFrame(b, frame) ==
  LET header == BufWrite(b, SubSeq(frame, 1, 1))
      data == BufWrite(header.kept, Tail(frame))
  IN  [flushed |-> header.flushed \o data.flushed, kept |-> data.kept]

\* The header is read, then as many units as it says.
FrameAt(cells, i) == [k \in 1 .. cells[i].len + 1 |-> cells[i + k - 1]]
HasFrame(stream) == stream # << >> /\ Len(stream) > stream[1].len
AfterFrame(stream) == SubSeq(stream, stream[1].len + 2, Len(stream))

-----------------------------------------------------------------------------
(* The crawler's end.                                                      *)

\* ProxyClient.ListenUDP writes one of its two handshakes.
ListenUDP ==
  /\ clientOpen
  /\ greeted < 2
  /\ greeted' = greeted + 1
  /\ UNCHANGED <<run, clientOpen, serverOpen, cancelled, localConn, sendSide, receiveSide, bounds>>

\* UDPConn.WriteTo.  Once an end is closed it fails, or writes what nobody
\* will read.
WriteTo(n) ==
  /\ greeted = 2
  /\ ups < MaxUp
  /\ ups' = ups + 1
  /\ LET written == WriteFrame(writer, Frame(ups + 1, n))
     IN  IF clientOpen /\ serverOpen
         THEN writer' = written.kept /\ toServer' = toServer \o written.flushed
         ELSE UNCHANGED <<writer, toServer>>
  /\ UNCHANGED <<link, send, sending, pipeLen, toNetwork, receiveSide, downs>>

\* UDPConn.ReadFrom, also of what its reader holds when the end is closed.
ReadFrom ==
  /\ greeted = 2
  /\ HasFrame(toClient)
  /\ toCrawler' = Append(toCrawler, FrameAt(toClient, 1))
  /\ toClient' = AfterFrame(toClient)
  /\ UNCHANGED <<link, sendSide, inbox, receive, receiving, readLen, buffered, bounds>>

\* The cells of both writers will not be read; UDPConn's reader has some of
\* those on the connection.
CloseClient ==
  /\ clientOpen
  /\ clientOpen' = FALSE
  /\ writer' = << >> /\ buffered' = << >>
  /\ \E n \in 0 .. Len(toClient) : toClient' = SubSeq(toClient, 1, n)
  /\ UNCHANGED <<run, greeted, serverOpen, cancelled, localConn, toServer, send, sending, pipeLen,
                 toNetwork, inbox, receive, receiving, readLen, toCrawler, bounds>>

\* ReadFrom fails once the handler has closed, and the crawler calls Close.
ReadFromFails ==
  /\ greeted = 2
  /\ ~serverOpen
  /\ ~HasFrame(toClient)
  /\ CloseClient

\* The crawler calls Close for its own reasons, a failed write among them.
Close == CloseClient

-----------------------------------------------------------------------------
(* ProxyServer.listen and UDPHandler.Run.                                  *)

Accept ==
  /\ run = "dialed"
  /\ run' = "greeting"
  /\ UNCHANGED <<greeted, clientOpen, serverOpen, cancelled, localConn, sendSide, receiveSide, bounds>>

\* The accept loop waits in this read; nobody else is accepted.
HandshakeRead ==
  /\ run = "greeting"
  /\ greeted >= 1
  /\ run' = "accepted"
  /\ UNCHANGED <<greeted, clientOpen, serverOpen, cancelled, localConn, sendSide, receiveSide, bounds>>

\* The loop goes on without closing the connection ...
HandshakeFails ==
  /\ run = "greeting"
  /\ ~clientOpen
  /\ run' = "left"
  /\ UNCHANGED <<greeted, clientOpen, serverOpen, cancelled, localConn, sendSide, receiveSide, bounds>>

\* ... which the garbage collector may close.
Collect ==
  /\ run = "left"
  /\ serverOpen
  /\ serverOpen' = FALSE
  /\ UNCHANGED <<run, greeted, clientOpen, cancelled, localConn, sendSide, receiveSide, bounds>>

RunOpens ==
  /\ run = "accepted"
  /\ greeted = 2
  /\ run' = "open"
  /\ localConn' = "open"
  /\ send' = "read" /\ receive' = "loop"
  /\ UNCHANGED <<greeted, clientOpen, serverOpen, cancelled, writer, toServer, sending, pipeLen,
                 toNetwork, inbox, receiving, readLen, buffered, toClient, toCrawler, bounds>>

\* There is no second handshake, the port is taken, or its buffers are refused.
RunFails ==
  /\ run = "accepted"
  /\ greeted = 2 \/ ~clientOpen
  /\ run' = "ended"
  /\ serverOpen' = FALSE
  /\ UNCHANGED <<greeted, clientOpen, cancelled, localConn, sendSide, receiveSide, bounds>>

\* ProxyServer.Stop cancels the context of every handler, and closes the
\* listener with the connections it has not accepted.
Stop ==
  /\ ~cancelled
  /\ cancelled' = TRUE
  /\ IF run = "dialed" THEN run' = "ended" /\ serverOpen' = FALSE ELSE UNCHANGED <<run, serverOpen>>
  /\ UNCHANGED <<greeted, clientOpen, localConn, sendSide, receiveSide, bounds>>

\* close, up to localConn.Close ...
CloseLocal ==
  /\ run = "open"
  /\ cancelled
  /\ run' = "closing"
  /\ localConn' = "closed"
  /\ inbox' = << >>
  /\ UNCHANGED <<greeted, clientOpen, serverOpen, cancelled, sendSide, receive, receiving, readLen,
                 buffered, toClient, toCrawler, bounds>>

\* ... and the rest of it: both fields are nil, whoever still uses them.
CloseRest ==
  /\ run = "closing"
  /\ run' = "ended"
  /\ localConn' = "nil"
  /\ serverOpen' = FALSE
  /\ UNCHANGED <<greeted, clientOpen, cancelled, sendSide, receiveSide, bounds>>

-----------------------------------------------------------------------------
(* send.                                                                   *)

\* Mutant: pipeBuf is not extended.
SendReadShort ==
  /\ send = "read"
  /\ HasFrame(toServer)
  /\ LET n == Min({toServer[1].len, pipeLen})
     IN  /\ sending' = SubSeq(toServer, 1, n + 1)
         /\ toServer' = SubSeq(toServer, n + 2, Len(toServer))
  /\ send' = "write"
  /\ UNCHANGED <<link, writer, pipeLen, toNetwork, receiveSide, bounds>>

\* pipeBuf is doubled when it is too short, once: the slice panics if it is
\* still too short.
TooLong == send = "read" /\ toServer # << >> /\ toServer[1].len > 2 * pipeLen

\* A frame is read.
SendRead ==
  /\ send = "read"
  /\ HasFrame(toServer)
  /\ ~TooLong
  /\ sending' = FrameAt(toServer, 1)
  /\ toServer' = AfterFrame(toServer)
  /\ pipeLen' = IF toServer[1].len > pipeLen THEN 2 * pipeLen ELSE pipeLen
  /\ send' = "write"
  /\ UNCHANGED <<link, writer, toNetwork, receiveSide, bounds>>

\* Mutant: the goroutine returns without the cancel.
SendReadFailsSilently ==
  /\ send = "read"
  /\ ~serverOpen \/ ~clientOpen
  /\ send' = "done"
  /\ UNCHANGED <<link, writer, toServer, sending, pipeLen, toNetwork, receiveSide, bounds>>

\* An end is closed; what is on the connection may be read first, or lost.
SendReadFails ==
  /\ send = "read"
  /\ ~serverOpen \/ ~clientOpen
  /\ send' = "done"
  /\ cancelled' = TRUE
  /\ UNCHANGED <<run, greeted, clientOpen, serverOpen, localConn, writer, toServer, sending, pipeLen,
                 toNetwork, receiveSide, bounds>>

SendWrite ==
  /\ send = "write"
  /\ localConn = "open"
  /\ toNetwork' = Append(toNetwork, sending)
  /\ sending' = << >>
  /\ send' = "read"
  /\ UNCHANGED <<link, writer, toServer, pipeLen, receiveSide, bounds>>

SendWriteFails ==
  /\ send = "write"
  /\ localConn # "nil"
  /\ send' = "done"
  /\ sending' = << >>
  /\ cancelled' = TRUE
  /\ UNCHANGED <<run, greeted, clientOpen, serverOpen, localConn, writer, toServer, pipeLen, toNetwork,
                 receiveSide, bounds>>

-----------------------------------------------------------------------------
(* receive.                                                                *)

\* A datagram reaches localConn, whose buffer holds one (others are lost).
Arrive(n) ==
  /\ localConn = "open"
  /\ inbox = << >>
  /\ downs < MaxDown
  /\ downs' = downs + 1
  /\ inbox' = <<Frame(MaxUp + downs + 1, n)>>
  /\ UNCHANGED <<link, sendSide, receive, receiving, readLen, buffered, toClient, toCrawler, ups>>

\* u.localConn is evaluated, and the read begins.
ReceiveLoop ==
  /\ receive = "loop"
  /\ localConn # "nil"
  /\ receive' = "read"
  /\ UNCHANGED <<link, sendSide, inbox, receiving, readLen, buffered, toClient, toCrawler, bounds>>

\* Mutant: a datagram cut to the size of readBuf is passed on.
ReceiveReadCut ==
  /\ receive = "read"
  /\ inbox # << >>
  /\ receiving' = Frame(inbox[1][1].id, Min({inbox[1][1].len, readLen}))
  /\ receive' = "write"
  /\ inbox' = Tail(inbox)
  /\ UNCHANGED <<link, sendSide, readLen, buffered, toClient, toCrawler, bounds>>

\* A datagram that fills readBuf may have been cut: it is dropped, and
\* readBuf doubled.
ReceiveRead ==
  /\ receive = "read"
  /\ inbox # << >>
  /\ IF inbox[1][1].len >= readLen
     THEN readLen' = 2 * readLen /\ receive' = "loop" /\ UNCHANGED receiving
     ELSE receiving' = Head(inbox) /\ receive' = "write" /\ UNCHANGED readLen
  /\ inbox' = Tail(inbox)
  /\ UNCHANGED <<link, sendSide, buffered, toClient, toCrawler, bounds>>

ReceiveReadFails ==
  /\ receive = "read"
  /\ localConn # "open"
  /\ receive' = "done"
  /\ cancelled' = TRUE
  /\ UNCHANGED <<run, greeted, clientOpen, serverOpen, localConn, sendSide, inbox, receiving, readLen,
                 buffered, toClient, toCrawler, bounds>>

\* Once the crawler's end is closed, nobody will read what is written.
ReceiveWrite ==
  /\ receive = "write"
  /\ serverOpen
  /\ LET written == WriteFrame(buffered, receiving)
     IN  IF clientOpen
         THEN buffered' = written.kept /\ toClient' = toClient \o written.flushed
         ELSE UNCHANGED <<buffered, toClient>>
  /\ receiving' = << >>
  /\ receive' = "loop"
  /\ UNCHANGED <<link, sendSide, inbox, readLen, toCrawler, bounds>>

ReceiveWriteFails ==
  /\ receive = "write"
  /\ ~serverOpen \/ ~clientOpen
  /\ receive' = "done"
  /\ receiving' = << >>
  /\ cancelled' = TRUE
  /\ UNCHANGED <<run, greeted, clientOpen, serverOpen, localConn, sendSide, inbox, readLen, buffered,
                 toClient, toCrawler, bounds>>

-----------------------------------------------------------------------------
(* The end of the server's process.                                        *)

\* The system closes its sockets.
Die ==
  /\ run' = "ended"
  /\ serverOpen' = FALSE /\ localConn' = "nil"
  /\ send' = "done" /\ receive' = "done"
  /\ sending' = << >> /\ receiving' = << >>
  /\ inbox' = << >>
  /\ UNCHANGED <<greeted, clientOpen, cancelled, writer, toServer, pipeLen, toNetwork, readLen, buffered,
                 toClient, toCrawler, bounds>>

\* A goroutine uses localConn after close has made it nil, or slices pipeBuf
\* beyond its end: nothing recovers the panic.
Panic ==
  /\ TooLong \/ (localConn = "nil" /\ (send = "write" \/ receive = "loop"))
  /\ Die

\* Something else ends the process, a handler of another session perhaps.
Crash == serverOpen /\ Die

-----------------------------------------------------------------------------
RunSteps == HandshakeRead \/ HandshakeFails \/ RunOpens \/ RunFails \/ CloseLocal \/ CloseRest
SendSteps == SendRead \/ SendReadFails \/ SendWrite \/ SendWriteFails
ReceiveSteps == ReceiveLoop \/ ReceiveRead \/ ReceiveReadFails \/ ReceiveWrite \/ ReceiveWriteFails

Next ==
  \/ ListenUDP \/ ReadFrom \/ ReadFromFails \/ Close
  \/ \E n \in Lengths : WriteTo(n) \/ Arrive(n)
  \/ Accept \/ RunSteps \/ Collect \/ Stop
  \/ SendSteps
  \/ ReceiveSteps
  \/ Panic \/ Crash

Spec == Init /\ [][Next]_vars

\* Every goroutine goes on when it can; the crawler's listener keeps reading.
\* Not Accept: the loop may be waiting for another connection's handshake.
Fairness ==
  /\ WF_vars(ListenUDP)
  /\ WF_vars(ReadFrom \/ ReadFromFails)
  /\ WF_vars(RunSteps)
  /\ WF_vars(SendSteps)
  /\ WF_vars(ReceiveSteps)
  /\ WF_vars(Panic)

FairSpec == Spec /\ Fairness

-----------------------------------------------------------------------------
(* Properties.                                                             *)

\* The frames a sequence of cells has whole.
Whole(cells) == {i \in DOMAIN cells : cells[i].at = 0 /\ i + cells[i].len <= Len(cells)}
Frames(cells) == {FrameAt(cells, i) : i \in Whole(cells)}

Held(frame) == {frame} \ {<< >>}

Up == INSTANCE DatagramPipe
        WITH First <- 0, accepted <- ups,
             pending <- Frames(toServer \o writer) \cup Held(sending), out <- toNetwork

Down == INSTANCE DatagramPipe
          WITH First <- MaxUp, accepted <- MaxUp + downs,
               pending <- Frames(toClient \o buffered) \cup Held(receiving)
                            \cup {inbox[i] : i \in DOMAIN inbox},
               out <- toCrawler

\* Every datagram the server sends out is one the crawler wrote, whole, once
\* and in order: through the buffered writes, which break frames anywhere,
\* the growth of pipeBuf, the frame that is too long for it, and closes.
RefinesUpPipe == Up!Spec

\* ... and the same for the datagrams that come back, those the reader still
\* returns after a Close included.
RefinesDownPipe == Down!Spec

\* Once a session has a handler, and one end of it is gone or the server is
\* stopped or has died, the other end is closed too and both goroutines of
\* the handler return: no connection, local socket or goroutine is left over.
SessionEndsTogether ==
  (run \in {"accepted", "open", "closing", "ended"} /\ (cancelled \/ ~clientOpen \/ ~serverOpen))
    ~> (~clientOpen /\ ~serverOpen /\ localConn = "nil"
          /\ {send, receive} \subseteq {"none", "done"})

\* A datagram given to WriteTo goes out, unless the session ends: "WriteTo
\* implements net.PacketConn", and TestBasic writes one and waits for it.
WrittenIsSent ==
  \A id \in 1 .. MaxUp :
    (run = "open" /\ ups >= id)
      ~> (\/ \E i \in DOMAIN toNetwork : toNetwork[i][1].id = id
          \/ cancelled \/ ~clientOpen \/ ~serverOpen)
=============================================================================
