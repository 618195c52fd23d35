# dht-ocean: TLA+ models and proofs

dht-ocean crawls the BitTorrent DHT for info hashes, fetches each torrent's
metadata from a peer, keeps it in MongoDB, asks a tracker for its seeders and
leechers, and indexes it in Elasticsearch. This directory models the parts of
it that decide whether a torrent gets through that pipeline: what each process
keeps in memory, in which order it stores, announces and acknowledges, and what
is left when one of these steps fails.

## The system

| Part | State | Operations | What is hard |
|---|---|---|---|
| **LRW cache** `common/util/cache.go` | map of entries with timers, a channel of tokens that counts them, a mutex | Set (evicts when not blocking), Get, GetAndRemove, expiry | the token is received with the mutex held; Set tests, evicts, pushes and inserts without one lock; a timer that has fired races removal |
| **Torrent fetcher** `crawler/internal/svc/torrent_fetcher.go`, with **executor** and **Bloom filter** | filter, `uncheckedChan`, task channel, filter file and its `.tmp` | Push (by packet handlers), checkExistLoop, commit, workers' pull and handleTorrent, Stop, start | false positives; store, announce, Add can each fail; full queues; exit while saving |
| **Indexer** `indexer/internal/svc/indexer.go`, with **AMQP client** | batch in memory, deliveries not yet acknowledged | receive, bulk save, Ack / Nack with *multiple*, flag goroutine, exit | one Ack settles many deliveries; a malformed one is settled alone; a failed bulk may have been applied |
| **Tracker updater** `tracker/internal/svc/tracker.go` | batch of new torrents, `needUpdate` token, AfterFunc timer | handleNewTorrent, fetch loop, refreshTracker, handleResult, Recover, exit | the loop sends to itself; messages are acknowledged before they are scraped; the order of refreshes |
| **UDP tracker client** `common/bittorrent/tracker` | socket, connection id, `connected`, scrape queue (an LRW cache), `result` | Start, Scrape, receive, handleConnect, handleScrape, disconnect | one token per connect response; answers lost, duplicated, late; data race on conn and connection id |
| **DHT crawler** `crawler/internal/svc/crawler.go` | socket, three packet channels, neighbour channel, seen nodes (an LRW cache) | listen, decodeLoop, handlerLoop, bootstrap, neighbourLoop, sendLoop, Stop | a listener closes whatever socket is current; handlers wait for the loops they feed; only a packet to send brings a socket back |
| **DBPersist** `crawler/internal/svc/persist.go` | none | consumeNewTorrent: whole-document upsert of each message | stale snapshots |
| **BitTorrent client** `common/bittorrent/core.go` | one connection: metadata size, pieces | GetMetadata | order of pieces, messages in between, a peer that does not follow the protocol |
| **KRPC, bencode** `common/dht`, `common/bencode` | the packet's buffer | decode, answer, push | decoded bytes are slices of a buffer the handler writes to |
| **UDP proxy** `proxy/` | a buffered TCP stream, the session's UDP socket | ListenUDP, WriteTo, ReadFrom, Run, send, receive, close | frames cut anywhere; two goroutines and a close that share a socket |
| **Ocean server** `ocean/` | MongoDB, Elasticsearch | RPCs, `-bloom` | no process of the repository calls the RPCs that write |

They meet in MongoDB and in two topics. The crawler upserts a torrent and
announces it on `new_torrent`. The tracker updater and the indexer consume it.
The updater's results go to MongoDB and to `tracker_updated`, which the indexer
and DBPersist consume. The crawler's packet handlers push to the fetcher, and
its socket may be one of the proxy's.

`PROJECT.json` lists every part, the code each definition stands for (`map`),
the hazards this code is exposed to, and the properties that answer them.

## Modules

| Module | Models |
|---|---|
| `BoundedMap` | abstract: a map that never holds more than `Capacity` entries |
| `LRWCache` | the cache, both blocking (tracker) and not (crawler's seen nodes) |
| `TorrentFetcher` | fetcher, executor and Bloom filter of one crawler process, with its file on disk |
| `Indexer` | the indexer and the broker's queue it reads |
| `TrackerUpdater` | the updater, `new_torrent_tracker` and the tracker fields in MongoDB |
| `UDPTracker` | the UDP tracker client, its callers, its receivers and the network |
| `Pipeline` | composition: extends `Indexer` with the processes that publish to it (fetcher's store and announce, handleResult, Recover) and with DBPersist |
| `Crawler` | the crawler's goroutines, channels and socket |
| `DatagramPipe` | abstract: datagrams may be lost, but not changed, repeated or reordered |
| `Proxy` | one session of the proxy: client, server and the stream between them |
| `Codec` | bencoded values and the lookups of `util.go`; the encoder and the decoder are constants |
| `Bencode` | the encoder and the decoder, as recursive operators |
| `Krpc` | one packet through decode, onMessage and the answer |
| `BitTorrent` | one GetMetadata with one peer |
| `MC...` | values of the constants for TLC; one `.cfg` for each question |
| `...Proofs` | theorems of the modules they extend |

**LRWCache.** `data` maps a key to the timer of its entry, `tokens` is the
channel, `mu` the holder of the mutex, `tstate`/`tkey` the timers. A caller's
place in Set (`evict`, `evictDelete`, `evictReceive`, `push`, `insert`) is in
`pc`; each place is a point where another goroutine may run. `KeyReuse` says
whether a key may be set while an older entry or timer of it exists: the
tracker draws its keys at random, the crawler's are addresses it has first
looked up. Values are left out: no property depends on them.

**TorrentFetcher.** Every goroutine is a process with a place (`pc`) and a
request (`req`): handlers in Push, the checker, the workers. The filter is its
set of bits (`keys`); `Locations` gives the bits of each hash, so that false
positives happen by choice of the constants. `file` and `tmp` hold what is on
disk, `whole` telling a complete file from a torn one. `Stop` cancels without
waiting for the workers, as the code does; `Exit` is a crash or the end of
Stop. Pulling a torrent is one step here; `BitTorrent` is its inside.

**Indexer.** The broker is a queue of messages ready and a sequence of
deliveries outstanding; `latest` is the last message published per torrent. A
bulk request that fails may have been applied to some items (`BulkFails`), and
one that succeeds may have refused some, which the code does not look at
(`rejected`). `Exit` puts everything outstanding back, in order.

**Pipeline.** What a document holds is abstracted to its counts, each named by
the result that set them, so that *newer* has a meaning. `Pull` writes a whole
document without counts, `HandleResult` sets counts and takes the snapshot it
then publishes to both queues, `ConsumeNewTorrent` writes a snapshot back in
the order the prefetch count allows. `Show` is what indexing a message does to
the counts in the index: they are `omitempty`, so a document without them
leaves those that are there. `-recover` is a process of its own: `found` is what
its find has returned, and each document is published as it was read, which may
be after a newer result. handleNewTorrent sets no `tracker_last_tried_at`, so the
find also returns documents with counts. `behind` is the history of torrents last
announced with counts that are not the newest, by Recover or because the
publication of the newest failed. The actions of `Indexer` are used as they are.

**TrackerUpdater.** `lastTried` keeps the order of `tracker_last_tried_at`
(0 is null), closed up so that it stays finite; `Age` is the passing of six
hours. `CrawlerUpsert` is the crawler's upsert, which writes null over the
field, and `CrawlerPublish` its announcement, which comes later or never.
handleNewTorrent is split at its call of Scrape; a message that is no torrent,
and a batch with an info hash that is not hexadecimal, are refused
(`RefuseNew`). A nacked message goes back behind those the subscriber had
fetched before. `owed` is the history of torrents acknowledged and not yet sent
to the tracker. handleResult, and the documents Recover announces, are in
`Pipeline`.

**UDPTracker.** Scrapers and receive goroutines share `conn` and
`connectionID` without a lock, so each read or write of one of them is a step:
disconnect is `CheckConn`, `Close`, `Clear`, `Reset`; a receiver reads `conn`
anew for each datagram (`Load`). The channel `connected` has no buffer, so its
send and receive are one joint step (`Connected`). `scrapeQueue` is not the
cache's model but its specification, `BoundedMap`, which LRWCache is proved to
implement when it blocks. A written request puts the tracker's answer into
`net`; the network may lose it, deliver it again or put an error in its place.
A goroutine that calls a method of `conn` after another has
set it to nil ends the process (`Panic`). When handleNewTorrent called Scrape,
the message router is taken to recover the panic as an error.

**Crawler.** A channel is the number of packets or nodes in it; what one of
them is gets chosen where the code looks. Each place where a goroutine may
wait or another may come in between is a value of `listener`, `decoder`,
`handler`, `finder`, `boot` or `sender`. `conn` is nil, a socket, or the typed
nil that a failed `net.ListenUDP` leaves in the interface; a listener that
fails closes the socket that is current by then, which need not be its own. A
method call on nil is `Panic`, the end of the process. The calls of the
seen-node cache are taken to return: run `cache_get` shows when they do not.

**Proxy.** A frame is a header cell and data cells; `BufWrite` is
bufio.Writer's rule (a full buffer is flushed, the rest kept), so a frame is
cut wherever the buffer ends. `toServer` and `toClient` are the two directions
of the connection. The model is one session, from the dial to the end. A crawler
that dials again has two that overlap, but they share no state, and nothing is
promised across them; what one can do to another is in the model: keep the
accept loop busy with its handshake (`Accept` need not happen), hold the port
(`RunFails`), or end the server (`Crash`). A connection whose first handshake
cannot be read is left open (`HandshakeFails`) until the garbage collector
closes it, if it does (`Collect`). send, receive and Run have places, and close
is two steps, since the goroutines may run between the closing of `localConn`
and the assignment of nil; a use of nil, and a frame longer than `pipeBuf` is
after its one doubling (`TooLong`), end the server (`Panic`). After Close,
ReadFrom may still return what the client's reader holds, some beginning of what
was on the connection. `DatagramPipe` numbers datagrams as they are accepted and
holds a set of them, `pending`, of which the oldest is delivered and any may be
lost. The refinements map to it the frames that are whole on the connection and
in the writer together, the one a goroutine holds, and what waits at the socket.

**Codec, Bencode, Krpc, BitTorrent.** A byte is a symbol, and so is a
protocol's name for a field. The decoder returns slices (`from`, `len`) of the
buffer as the code does, so that writing to the buffer changes what was decoded:
GetNeighbourID appends to such a slice, and `WithNeighbourID` is that write, into
the buffer where its capacity allows and into a new array where it does not.
Decoding has three outcomes: a value, an error, and the panic of a key of
another type. A packet may be malformed: an id that is short or missing, a value
of the wrong type, arguments that are no dictionary. Where the code then asserts
a type or slices too far the phase is `panic`, which only ends the handling of
the packet here (`Crawler` has it under `Exit`).

In `BitTorrent`, `step` is how far GetMetadata is and `inbox` the message that
waits at its socket. A peer follows the protocol (`faithful`) or sends any of
`Lies`, as often as it likes, and either may send messages that readExtMessage
skips (`PeerChatter`) for ever. A piece whose dictionary does not end makes the
slice after it panic; GetMetadata recovers that as an error. SHA-1 is taken to
be injective.

`Krpc` and `BitTorrent` use `Codec`, and say what they need of the codec in
`PacketAssumption` and `ExchangeAssumption`: a packet that decodes to a
dictionary has the sender's values at the paths the handlers read, in slices
within the buffer that do not overlap; a reply decodes to its transaction id and
its id; a dictionary decodes to its entries and ends where it ended when it was
encoded, whatever bytes follow. In `MCWire` the constants are the operators of
`Bencode`, and TLC evaluates both assumptions with them for the packets,
torrents and sizes of the run.

External, modelled from how the code uses them: MongoDB calls are atomic and
may fail; RabbitMQ keeps its queue, delivers in order within the prefetch
count, and returns what is nacked or outstanding; Elasticsearch applies a bulk
request item by item.

## What TLC checks

| Run | Shows |
|---|---|
| `cache_tracker` | blocking, fresh keys: tokens and entries agree, the cache implements `BoundedMap`; calls return; entries expire |
| `cache_seen` | not blocking, keys set again: every entry keeps a timer, whatever became of the tokens |
| `cache_get` (violation) | not blocking: after an eviction an expiry blocks with the mutex held, and Get with it |
| `fetcher_restart` | two handlers, two workers, two exits: the filter claims only stored and announced torrents; its file is never torn; saving never loses what was saved; while the fetcher is up a handler is stuck in Push only if every worker is stuck in a pull |
| `fetcher_stored` | two torrents that share bits: a torrent announced over and over is stored; and published unless others cover its bits |
| `pipeline_documents` | no message lost; Ack and Nack settle exactly the batch; the index is current; old snapshots written back give way to the newest counts; the index shows the newest counts, unless a failed publication or Recover has put others last; the backlog falls below one batch for good |
| `updater_batches` | one token; acknowledged torrents are kept; a torrent never announced stays where Recover finds it; every outdated torrent gets its turn as long as Scrape returns |
| `tracker_safety` | each scrape transaction comes to exactly one end; a full queue makes room |
| `crawler_crawl` | one socket, always listened to; a lost one comes back; no handler is stuck; find_node requests go on being sent |
| `proxy_session` | both directions implement `DatagramPipe`; once the session has a handler and one end goes, all of it goes |
| `proxy_delivered` (violation) | a datagram given to WriteTo may never be sent |
| `wire_messages` | decoding inverts encoding; answers and pushed torrents match the request; nodes are entries of the response; GetMetadata returns the metadata asked for or an error, no error with a peer that follows the protocol, and does return unless the peer sends messages to skip for ever |

**Bounds.** Two or three keys, hashes or torrents are enough for two of them to
compete and a third to be unaffected. Queues and batches have capacity 1 or 2,
so that full, empty and in between all occur; the cache's capacity is below the
number of keys. Restarts are bounded by `MaxExits` (one, or two in
`fetcher_restart` so that a saved file is saved again), messages by `MaxMsgs`
(more than a batch; a document is stored or read only while `Room` is left to
announce it), the crawler's and other programs' messages to the updater by
`MaxQueue` (one waiting; nacked ones and Recover's come on top of it), sockets of the tracker client by `MaxConns` (two, so that
an old receiver meets a new socket), transactions by `Txs`.
`fetcher_restart` has one torrent and two of every goroutine, `fetcher_stored`
two torrents that share bits; what they check of safety is also proved for any
number. `pipeline_documents` has one torrent, since documents of different
torrents only meet in the order of messages, which `PipelineProofs` covers for
any number; two results are one old and one new. `crawler_crawl` has channels of
one, so that every send can find its channel full, and two `Sockets`, which are
the sockets with a live listener, not all sockets ever opened: a listener that
has returned gives its name back. `MaxOnTheirWay` keeps the packets between
socket and handlers apart from the queues that matter to the properties. In
`proxy_session` the buffer takes one frame of two cells and is shorter than those
of four and six; the four make `pipeBuf` and `readBuf` grow, and the six are too
long for `pipeBuf` until it has grown. Three datagrams go up and two come back,
and the UDP socket holds one at a time (others are lost). `wire_messages` has packets of every
kind with ids that contain digits, colons and delimiters, malformed ones among
them, and metadata of one, two and three pieces and too long; one message of a
peer waits at the client's socket at a time. In the cache a timer identity is
used again only when its timer is stopped or done.

**Fairness.** Goroutines that can run do run (weak fairness). A sender waiting
on a channel is served in turn by Go, hence strong fairness on sends. External
calls do not fail for ever (strong fairness on success), assumed only by the
properties that say something happens *in the end*: `BacklogDrains`,
`EventuallyStored`, `EventuallyPublished` (which also need the DHT to announce
the torrent again and again), `OutdatedGetsItsTurn`, and `SocketComesBack`
(some attempt to connect succeeds). Three calls that have no time limit are not
assumed to return: a pull, Scrape (which may wait for `connected`, `udp.go:87`),
and GetMetadata's reads, each of which renews the deadline. `PushReturns`,
`OutdatedGetsItsTurn` and `GetMetadataReturns` name that as their premise. Nor
is a connection to the proxy assumed to be accepted: the accept loop waits for
the handshake of whoever came before. Of the network `Crawler` assumes nothing:
no packet need ever arrive. A peer that follows the protocol answers. Timers of
the tracker client fire, the bootstrap ticker ticks, and a goroutine about to
panic does so. Nothing else is assumed of crashes.

## What is proved

The theorems hold for all values of the constants that satisfy the `ASSUME` of
the module: any sets of keys, hashes, torrents, goroutines; any sizes.

* **LRWCacheProofs.** Types and `EntryHasTimer` for both kinds of cache. For
  the blocking one, `SizeBounded` and `DeleteNeverWaits` from `TokensCover`:
  tokens are at least the entries plus the Sets between push and insert plus
  the holder's pending receive. That is inductive because every step that
  receives a token first removes an entry under the mutex. From it,
  `BlockingRefinesBoundedMap`: an insertion finds room.
* **TorrentFetcherProofs.** Types, `FilterIsVouchedFor`, `PublishedIsStored`,
  `CheckedIsRecognised`, `FileIsWhole`, `SavedFilterGrows`. The invariant says
  what each place of a goroutine implies (a worker about to Add has stored and
  published), and that what is on disk is part of what is in memory, which is
  why saving loses nothing.
* **PipelineProofs**, the indexer. Types, `BatchIsUnacked`, `NoLoss`: the invariant numbers
  messages; ready, outstanding and settled ones together are all that were
  sent, and the batch is what was taken of the outstanding ones, in order.
  `IndexIsCurrent` and `FlagMeansIndexed` need `OrderInv`: what the broker
  holds is in the order of publication, outstanding before ready. A Nack keeps
  that order only because the batch it returns is all that is outstanding,
  which is where the prefetch count of one batch comes in. So no older version
  is left once the newest has gone.
* **PipelineProofs**, the composition. `PipelineRunsIndexer`: a behaviour of the composition is
  one of `Indexer`, hence `PipelineIndexCurrent`. `CountsSettle`, from: unless
  one got lost, the last snapshot of a torrent on its way has its newest
  counts, and a torrent with none on its way has settled. `NewestIsShown`
  (`IndexShowsNewest`) needs that no copy of a document, wherever it is, has
  counts newer than the updater's (`AgesInv`, `NoneNewer`), and for each torrent
  that is not `behind` and has no snapshot to publish (`Arrives`): either some
  message with the broker carries the newest counts and every later one carries
  them too, or none (`IsLast`), or they are in the index and no waiting message
  carries others (`NoOlderWaits`). It rests on the order of messages in
  `OrderInv`, so that a bulk request, which applies its items in order, leaves
  the newest of them. `behind` is what the code cannot exclude: Recover may
  announce a document it read before the newest result.
* **TrackerUpdaterProofs.** Types, `OneToken`, `AckedIsKept`,
  `TriedWasAnnounced`. The invariant adds that what is being refreshed, or is
  outdated, was announced before (only a tried torrent can be outdated), that
  what Recover is about to mark it has announced, and that a message being
  scraped is still in the queue.
* **CrawlerProofs**, the crawler. Types, which say that no channel is overfilled;
  `OneSocket` and `NeverDeaf`, from `ConnectsOnlyNil`: nobody else connects, so
  when sendLoop is about to, there is still no socket.
* **CrawlerProofs**, one packet (`Krpc`), for any lengths of ids and entries and
  any packets that `PacketAssumption` holds of. `PushIsTheAnnounced`,
  `ReplyIsTheAnswer` and `NodesOfTheResponse`. The invariant (`PacketInv`) says
  that until a handler has run nothing is promised (`Unanswered`) and what was
  decoded reads as what was sent (`Reads`); the handlers then keep their promises
  because the write of GetNeighbourID stays inside the slice it was given when
  that is as long as an id, and the slices read after it, info hash and
  transaction id, are other ones. That is what `WellFormed` is for: a shorter id
  in an announcement makes the write run on into what follows it.
* **BitTorrentProofs.** `OnlyTheTorrent` (`MetadataIsTheTorrents`): whatever a
  peer sends, what is accepted is the torrent. `FaithfulNeverFails`
  (`FaithfulSucceeds`), for any piece length and any size up to
  `maxMetadataSize`: with a peer that follows the protocol no check of
  GetMetadata fails. Its invariant, `FaithfulInv`, has what is in the inbox
  (`InboxRight`: an answer to what was asked, and no second one), and that every
  piece read is the part of the metadata its id names, no id twice
  (`PiecesRight`). So when as many have been read as were requested, a count of
  finite sets shows that all of them are there, and each symbol of the assembled
  metadata is the torrent's.
* **UDPTrackerProofs.** Types, with where a goroutine may be while another is
  elsewhere; and `OneEndOnly` (`SettledOnce`), from `EndsInv`: a transaction
  that was drawn has exactly one end, of one kind, with one holder. Every step
  that takes it from one end puts it at another, because the queue is a map
  that is looked up and cleared in one call: of the timer and the receivers of
  a repeated answer only one finds it there.
* **ProxyProofs.** Types, which say that the writers stay within `BufSize` and
  that the goroutines hold and pass on whole frames; `UpImplementsPipe` and
  `DownImplementsPipe`: both directions of a session implement `DatagramPipe`,
  for any buffer sizes and any lengths, those that make the server panic
  included, whenever an end closes or the server dies. A
  stream is described by what each cell says of its neighbours (`Framed`) and by
  the order of the headers (`Rising`), so that no induction over the stream is
  needed: a frame written at the end (`Added`) or read at the beginning
  (`Taken`) changes the set of whole frames by that frame. The invariant has
  connection and writer as one stream, which ends with a whole frame while the
  crawler's end is open, with numbers above the frame that send holds; on the
  way back, below the one that receive holds and the one that waits at the
  socket. `BufWrite` may cut a frame anywhere because what it flushes and what
  it keeps are together what was there and what is written (`BufWriteKeeps`).
  A Close leaves the reader some beginning of the stream (`DownCuts`): its
  frames are those of the stream without the last ones, and one that was cut is
  no whole frame, so ReadFrom does not return it.

Most leaves of the longer modules that need no arithmetic name the prover Zenon,
which is quicker on them than the SMT translation.

Only model-checked: all liveness (out of the prover's reach), and what the
recursive operators of `Bencode` compute. A proof about those would need
induction over their input, and a module that reaches a recursive operator
cannot be reasoned about at all, which is why `Codec` has them as constants. So
`PacketAssumption` and `ExchangeAssumption` are evaluated, not proved, for the
real codec; and `DecodedIsSent`, which says that no dictionary is refused and
that decoding inverts encoding, stays with TLC, since assuming enough of a codec to prove it would be assuming it.

## Findings

1. `cache.go:47` and `:99`: an eviction receives two tokens, one in Set and one
   in delete. Entries then outnumber tokens: the crawler's seen-node cache
   exceeds `MaxSeenNodeSize`, and an expiry can wait for a token with the mutex
   held, and every user of the cache with it (run `cache_get`).
2. `proxy/internal/client/udp.go:87`: WriteTo never flushes its bufio.Writer,
   so a datagram stays in the buffer until later ones push it out (run
   `proxy_delivered`). The client's test writes one and waits for it. The
   answers at `handler/udp.go:150` are written the same way.

Behaviours of the models that contradict no statement of the repository, most of
them listed with the hazards: the waits of the tracker client for `connected`
(`udp.go:87`, `:185`), the calls on a nil socket in tracker client, crawler and
proxy, `-recover` announcing a document that is older than the last result
(`tracker.go:305`), the one doubling of `pipeBuf` (`handler/udp.go:101`), a
connection to the proxy that is left open after its handshake failed
(`server.go:62`), and the last node of a find_node response being left out
(`node.go:128`).

## Not modelled

* Metrics, logging, configuration, generated code.
* The Ocean server: each RPC is one query or one update, without state of its
  own, and no process of the repository calls it. Its `-bloom` is a manual tool
  that writes the filter file in place.
* `ListTorrentInfoForTracker` (it also sets `tracker_last_tried_at`),
  `Crawler.reconnect` and `sendPing`: nothing calls them.
* KRPC requests the crawler makes, and transaction ids: answers are handled
  without being matched to a request.
* Contents of documents beyond the fields above, and addresses.
* DBPersist writes `tracker_last_tried_at` of the snapshot back as well.
  `Pipeline` has the counts of that write only: together with the refresh loop
  of `TrackerUpdater` the state space is out of reach. A late snapshot brings an
  older time back, and a refresh that comes early, or null, and a torrent that
  is refreshed again only after `-recover` has found it.
* The crawler over the proxy, in one model. What the crawler may assume of a
  socket (reads fail once it is closed, writes may be lost) is what `Crawler`
  assumes; that the proxy provides it is in `SessionEndsTogether` and the
  refinement of `DatagramPipe`.

## Running

    tlc -config MCLRWCache_tracker.cfg MCLRWCache
    tlapm LRWCacheProofs.tla
