# Formal model of gpustat4cluster

TLA+ modules for the concurrent and distributed core of this repository, TLC
configurations that check them on small instances, and TLAPS proofs of the
safety properties for every value of the constants. `PROJECT.json` lists the
runs, the lines of source behind every definition, the hazards the properties
are aimed at, and the theorems. Paths below are relative to `src/crates/`.

To check: `tlc -config X.cfg M` for a run, `tlapm M.tla` for a proof module.

## 1. The system

Every GPU host runs a **server**; every workstation or login node runs a
**client backend** that keeps a table of hosts and connections to them; a **CLI**
asks the backend over a local socket and draws the table.

| Part | State | Operations | Talks to |
|---|---|---|---|
| Server snapshot cache (`server/src/cache.rs`) | the last snapshot, `RefreshState {in_flight, generation, last_error}`, a condition variable | `get_or_refresh`, `get_latest_or_refresh`, `store`, `finish_refresh` | collector; called by every connection thread, the UDP loop and the background loop |
| Background refresh (`server/src/main.rs`) | none | calls `get_or_refresh` every interval | cache |
| Collectors (`server/src/collector.rs`) | NVML handle; in debug builds an inventory, a memory-mapped file and a thread that rewrites it | `collect_gres_snapshot` | NVML, files |
| Payloads (`common/src/protocol.rs`) | none | split a snapshot into metadata and runtime values, hash the metadata, rebuild | both ends |
| UDP chunk codec (`common/src/udp.rs`) | one `ChunkGroup` per request id, a deadline | encode, insert, verify | used by both ends |
| UDP transport (`server/src/udp_transport.rs`, `server/src/transport.rs`, `client-backend/src/udp_client.rs`) | per connection: socket behind a mutex, metadata behind another, request counter; per peer: reassembler | handshake, query, metadata refresh, disconnect | server cache |
| TCP transport (`client-backend/src/tcp_client.rs`, `server/src/main.rs`) | a stream per connection, metadata | the same | server cache |
| Backend rows, pool and query path (`client-backend/src/local_api.rs`, `cache.rs`, `main.rs`) | rows by address, connection pool, `connecting` set, reconcile timer, a mutex each | QUERY, announce, reconcile, establish, refresh | transport, discovery, CLI |
| Discovery (`client-backend/src/discovery.rs`, `server/src/main.rs`) | none on the client; chosen ports on the server | multicast query and announce, static nodes, merge | backend |
| Configuration, ports, log sizes (`server/src/main.rs`, `common/src/config.rs`) | none | parse, validate, choose ports | startup |
| Node filter (`client-backend/src/filter.rs`) | none | parse and match host patterns | adapter |
| Query adapter (`client-backend/src/adapter.rs`) | a cache of user names | node views, user filter | backend rows, `getent` |
| Backend socket (`client-backend/src/local_api.rs`) | a socket file, a thread per CLI | `serve_on_uds`, `handle_client` | CLI, query path |
| CLI (`client-cli/src/`) | options, one connection | parse arguments, ask, draw, repeat | backend socket, terminal |
| Logging | none | print | |

What is hard here, and what makes each part correct:

* **Snapshot cache.** Any number of threads find the snapshot expired at once,
  sleep on one condition variable, and share one `last_error`. Correct: one
  collector call at a time, no sleeper without somebody to wake it, fresh
  answers, errors of one's own time, a snapshot that never goes back, and calls
  that return.
* **Chunk codec.** Datagrams are lost, repeated and reordered, and a repeated
  request is answered twice from different snapshots under one request id.
  Correct: only frames that were sent come out, every frame that arrived whole
  comes out, and chunks from before a deadline do not complete a frame after it.
* **UDP session.** A query times out and its answer arrives during the next one;
  the host's metadata changes between the runtime and the metadata answer.
  Correct: answers belong to their query, values are never shown with older
  metadata, metadata never goes back.
* **TCP session.** The client gives all its queries the same request id and takes
  the next frame for the answer; a failed query unlocks the stream before it closes
  it, and a disconnect that cannot be written leaves it open. Correct: the stream is in
  step whenever it is used, except in that gap and after such a disconnect; order
  of answers and age of metadata hold even there.
* **TCP server.** A thread per connection. Correct: nothing asked is left
  unanswered, and a thread ends with its client.
* **Discovery.** Ports are tested, released and bound again later; announces are
  lost, late, or of a server that has been restarted since. Correct: every port of
  the range is tried, announces name the configured ports, a server that answers is
  found, and a startup announce has its turn on every interface in every attempt until
  one attempt reaches an interface or the retries are used up.
* **Backend.** Startup, announces, reconciles and queries connect to the same
  nodes at once; rows and pool change while a query works off a list of targets.
  Correct: the pool's bound, one connection per host, one handshake per address,
  no answer with a snapshot that was expired when the query began.
* **Collectors and payloads.** The debug collector reads a memory map that a thread
  rewrites in place; devices come and go between the two halves of an exchange. Correct:
  every snapshot has all devices and what the contract asks of them, what is rebuilt from
  two matching halves is what was collected, and metadata follows changes of devices.
* **CLI and socket.** CLIs are interrupted, the backend crashes between the kernel's
  accepting a connection and its own, and leaves its socket file behind; threads share
  a cache of names that they fill with the rows locked. Correct: nobody waits for a
  partner that is gone, an answer belongs to the last query, names are stable, and a
  restarted backend listens.
* **Filters.** Node patterns with lists, ranges and wildcards, and a user filter that
  is applied in two programs. Correct: the patterns mean what they say, and the two
  user filters agree.

## 2. Modules

An operator whose comment begins with *Deviation* is a wrong variant of the one
that follows it; no specification uses it. Putting it in that operator's place
must make the property named for it in `PROJECT.json` fail, which shows that the
property is about the code.

| Module | Models | Proofs |
|---|---|---|
| `SingleFlight` | abstract: collections fly one at a time, callers join, landing releases them, snapshots never go back | |
| `GresCache` | the server's cache and its callers; implements `SingleFlight` | `GresCacheProofs` |
| `ChunkRing` | `Slot` and `verify_all`: each chunk carries the checksums of its two neighbours | `UdpChunksProofs` |
| `UdpChunks` | encoder, network, reassembler, on top of `ChunkRing` | `UdpChunksProofs` |
| `Exchange` | abstract: a query returns a snapshot the server has had between the query and its return | |
| `UdpSession` | one UDP connection: backend threads, network, server loop; implements `Exchange` | `UdpSessionProofs` |
| `TcpSession` | one TCP connection: backend threads, the two streams, the server's thread | `TcpSessionProofs` |
| `TcpServer` | accept loop and stream threads | `TcpSessionProofs` (last section) |
| `Discovery` | startup with its checks, choice and binding of ports, announces, discovery queries | `DiscoveryProofs` |
| `Backend` | rows, pool, handshakes, announces, reconciles and queries | `BackendProofs` |
| `Collector` | both collectors, the halves of a snapshot and the backend that puts them together | `CollectorProofs` |
| `NodeFilter` | the filter's parser and matcher, with reference definitions | `CliProofs` (last two sections) |
| `QueryView` | what a query shows: node views, user names, user filters, the table's rows; on top of `NodeFilter` | `CliProofs` |
| `Cli` | CLIs, the socket, the handler threads and the cache of names; on top of `QueryView` | `CliProofs` |
| `MC*` | instances for TLC: sets, frames, symmetry | |

### GresCache

`entry`, `inFlight`, `generation` and `lastError` are the fields of the source;
a snapshot is the instant it was collected at. Each thread's `pc` says where it
is in the call: `enter` (between `get_latest_or_refresh` and the fast path),
`miss` (fast path missed, lock not yet taken), `waiting`, `woken`, and
`collecting`, `collected`, `stored`, `failed` for the refresher. One pass of the
loop with `refresh_state` locked is one action, because nothing else it reads
changes under it but the entry and the clock, which it reads once. Collector,
`store` and `finish_refresh` are separate actions, since no lock is held between
them. Wakeups may be spurious. `generation` is `u64` in the source; here it wraps
at `GenMod`, in the run at 4, so that wrapping happens.

`since` and `failed` are history: when the call began and which refreshes failed
meanwhile.

`Flight` maps the cache to `SingleFlight`: the refresher is flying, sleepers have
joined.

### ChunkRing, UdpChunks

A frame is a sequence of cells, the first of them the header; a cell stands for a
run of bytes. Checksums are injective (CRC-32 collisions are assumed away).
Chunks of a frame travel as a set of datagrams, delivery leaves them on the wire
(repetition), not delivering one is loss. `Expire` replaces the reassembler, as
the server loop does at its deadline and the client with every exchange.
`Send` may be called for several frames of one request id: that is a request
repeated by the network and answered twice.

### UdpSession

One datagram stands for a frame here. `requests` and `replies` are all that was
ever sent on the socket. A query takes its id, then locks the socket (`io`),
sends and waits; if the runtime payload names other metadata than the
connection's, the thread fetches the metadata before it unlocks. Any wait may
fail (`QueryErr`): timeout, server error, damaged chunks. The server answers each
request each time it arrives, from the entry it has then; the entry follows what
`GresCache` guarantees (`EntryNeverRegresses`). Metadata is a version that also
stands for its hash: versions with equal hashes are taken to be equal, and none to
hash to 0, which the client reads as "no hash". `held` and `sentAt` are history: the
snapshots the server has had, and which it had when a request was sent.

`Asked` maps a connection to `Exchange`: while a thread has the socket, its window is
what the server has had since the thread's request was sent; request ids, the handshake,
retries and the refresh of metadata are not seen there.

### TcpSession

`c2s` and `s2c` are the two directions of the stream as sequences of whole frames;
`torn` says that a read timed out within one, after which nothing that is read is a
frame header (that a payload holds the bytes of a header is assumed away). A thread
of the backend goes `lock`, `runtime`, `metadata` with the stream locked (`io`), and
after an error `close` and `evict`, which the caller does in `local_api.rs` without
holding the stream: between the unlock in `query_connected` and the lock in
`close_connected` another thread may take it. `Disconnect` is the replacement of the
connection by another one of its host; when its frame cannot be written, or only in part
(`WriteErr`, as for requests), the code returns before it shuts the stream down, and
threads that already hold the connection go on with it. `Unexpected`, `ReadErr`, `SendErr` and
`RefreshErr` are the ways to fail. `mine` is history: the number of the thread's
request among all sent on this connection, which the code, with its constant request
ids, does not keep. `result.own` tells whether the frame taken was the answer to it.

### TcpServer

`query_server_loop` as `Accept`, `handle_query_stream` as `ReadFrame`, `WriteAnswer`,
`HandleErr` and `ReadEnd`. A client closes its stream or vanishes (its host dies and
nothing ever arrives, the end of the stream neither). `owed` is history.

### Discovery

`main` is the place in `run`: the configuration is checked (`LoadConfig`, with `Checks` in
the order of `validate_config`), the multicast group is resolved again, the UDP port is
chosen, then the TCP port, trying candidates one by one while other programs take and
release ports, and the collector is opened; each may end the server with an error code. A
configuration is what these checks tell apart: the values that must be positive are one
number, their least; a group is an address or a name that resolves on one call and not on
the next; a log size is a number and a unit. Sizes are scaled: `Kilo` stands for 1024 and
`WordMax` for 2^64 - 1, so that the product of a size and its unit can exceed a word in a
small instance. `Bind`, `Join` and the announcer are the threads of `start_runtime_loops`.
The announcer goes through the interfaces of an attempt one by one (`SendAnnounce`); a
socket that cannot be had and a send that fails are one outcome. `tried` is history: each
turn with its outcome. `wire` keeps every announce ever sent: any of them may be received
again or late. One server and one backend; several servers appear in `Backend`.

### Backend

One action per critical section; a network exchange is merged with the section
after it. `rows`, `conns`, `connecting`, `sinceReconcile` are the four pieces of
shared state. Threads: one per CLI client, one announce listener, and helpers
(startup, and the reconcile threads queries spawn; a query that finds no free
helper waits for one, which is a bound of the model). A row is its hostname,
whether it has a snapshot, and the snapshot's age by the backend's own clock; ages
stop growing where the code no longer tells them apart. `Node(t)`, the least
address left, is the node a thread is at: `merge_discovered_nodes` sorts by
address. Names in a discovery result come from the static list first (`Label`).
What multicast finds is an input: any subset that includes the static nodes.
`config`, the pool's size and the static nodes, is read once and never changes; it
is a variable so that one run covers several configurations.
`expired` is history: the rows a query found expired and that nobody has
refreshed, marked or removed since.

### Collector

`mem` is the mapped file as two numbers, the ticks its length and its text are from;
`write_runtime_mmap` writes one, then the other. A reader takes the length (`ReadLength`),
then the text (`ReadText`): in the middle of a write it may find old values, new ones, an
error, or `Garbage`, values no tick has. The inventory file is `None` while an editor has
truncated it. Numbers are those of `runtime_for_tick`. NVML is asked device by device
(`ReadDevice`), no more of them than a `u8` can number (`IndexMax`); what the driver
reports is an input (`Readings`, in bytes and unclamped, `RunningLists`), which
`NvmlDevice` and `collect_processes` round, cut down and rid of doubles; a device that
fails ends the collection without a snapshot. `due` is history: the devices the last
snapshot was to have, those of the inventory or those NVML counted.
`validate_gres_node_snapshot_contract` is written in full, in two parts;
`SnapshotInContract` asks for the first, on devices, of every snapshot, and for the
second, on processes, where the code ensures it (section 5). `Handshake`, `QueryRuntime`
and `QueryMetadata` are the backend's exchanges, with failures left to `UdpSession` and
`TcpSession`; only one collection runs at a time, which `GresCache` guarantees. The hash
is injective, except that a missing text hashes like an empty one, as in the code.
Commands of processes are in no half of a snapshot, so the CLI's `-c` has none to show.

### NodeFilter, QueryView

Texts are sequences of characters. `wildcard_match` and `parse` are written as the code
computes them: `Rests` is where the leftmost search stands after each literal part,
`Depths` how many brackets are open after each character, `Numbers` the value of the
digits read so far. `Glob` (with `Reached`, what the first characters of a pattern may
stand for), `ItemText` and `ItemNames` say what patterns and items mean; an item is a
name, a list of names in brackets or a range of numbers in brackets, the last two with
or without text around them. A name in a list has no dash: the code would read the list
as a range. Numbers are written with at most two digits; a plus sign before one, which
the Rust parser accepts, and white space other than blanks are left out. An address is a
text that belongs to
`IpTexts` or `AddrTexts`; that the Rust parser also accepts other spellings of one
address is left out. `build_query_response` is the backend's half of a query,
`render_table` the CLI's; both filter by user, the backend by the text as typed, the
CLI by the text without blanks.

### Cli

`cpc` is where a CLI is, `hpc` where the thread of its connection is, `bpc` where
`serve_on_uds` is. Connecting needs only that the socket listens; the handler is then
in the backlog until `Accept`. The rows' mutex `lock` is held from `LockRows` to
`BuildAnswer`, across `getent` (`CacheMiss`, `Getent`). `Crash` ends all threads and
leaves the socket file; lines already written can still be read. `Interrupt` ends a
CLI anywhere. A filter is the set of nodes it selects, computed when it is typed, since
nodes do not change here. `Refresh` stands for the whole of `Backend`: it may replace a
row.

## 3. Runs

| Run | Instance | Shows |
|---|---|---|
| `cache` | one query thread, two `get_or_refresh` callers, one failure, TTL 1 of 2 ticks, generations modulo 4, with fairness | `TypeOK`, `SingleCollector`, `NoLostWakeup`, `FreshReply`, `ErrorIsCurrent`, `EntryNeverRegresses`, `ImplementsSingleFlight`, `MergedNeverCollects`, `EveryCallReturns` |
| `udp_chunks` | one, two and four chunks, short last chunk, two answers to one request or two requests, one deadline | `CompleteIsDelivered`, `GotWasSent`, `PartialDiesAtDeadline` |
| `udp_six_chunks` | two answers of six chunks to one request | violated: `GotWasSent` (section 6) |
| `udp_session` | two threads, four request ids, three snapshots, two metadata changes | `AnswerIsOwn`, `MetadataNotOlder`, `MetadataNeverRegresses`, `ImplementsExchange` |
| `tcp_session` | three threads, five requests, three snapshots and metadata versions | `InStepOrDoomed`, `ForeignOnlyBeforeClose`, `AnswersInOrder`, `MetadataNotOlder` |
| `tcp_server` | three clients, two of which vanish, with fairness | `NothingDropped`, `ClosedIsReleased` |
| `tcp_idle` | as `tcp_server` | violated: `VanishedIsReleased` (section 6) |
| `discovery` | seventeen configurations, ports 1 and 2, automatic or configured, two interfaces, two attempts, one restart, with fairness | `StartupIsExplained`, `AnnounceTriesAll`, `AskedIsFound` |
| `discovery_race` | another program takes a port during startup | violated: `AnnouncedIsServed` (section 6) |
| `backend` | a client, a helper, the listener, two hosts with three addresses, a pool of one with one static node or a pool of two with all static | `TypeOK`, `PoolBounded`, `OneConnectionPerHost`, `OneHandshakePerAddress`, `NoExpiredSnapshotShown` |
| `collector` | six inventories, three NVML devices of which two can be numbered, two readings, two ticks, two edits, two failed calls, with fairness of the backend | `SnapshotInContract`, `RebuiltIsCollected`, `MetadataHeals` |
| `cli` | two CLIs with five command lines, two rounds, one refresh, one crash, with fairness; patterns of up to four and texts of up to five characters, filters of two items | `AnswerInStep`, `UserFilterAgrees`, `NameStable`, `NobodyHangs`, `RestartListens`, `WildcardIsGlob`, `FilterReadsBack` |

Why the bounds are enough to be interesting:

* three cache threads are the fewest for a refresher, a sleeper and a newcomer
  that starts the next refresh before the sleeper gets the lock; a failure and a
  clock past the TTL let refreshes follow one another with and without error. At most
  four refreshes fit in these bounds, so with `GenMod = 4` the generation wraps and
  yet no sleeper can miss a whole round, which `MergedNeverCollects` excludes (in the
  code a round is 2^64 refreshes);
* two answers of up to five chunks cannot be mixed, which is proved for any payloads
  (`UdpChunksProofs`); the run has four chunks, the fewest for which both checksums of
  a chunk are needed, and six are the fewest for which mixing two answers succeeds.
  The run sends at most `MaxSends = 2`; the proofs also say how many answers of shorter
  frames cannot be mixed (section 4);
* four ids allow a handshake, a query, a query overtaken by it, and a metadata
  refresh; three snapshots and two metadata changes let the metadata change both
  before and after the runtime answer;
* three TCP threads are the fewest for one that has failed and not yet closed, one
  that reads its answer, and one whose answer is read in turn; five requests allow a
  handshake, two queries and a metadata refresh out of step;
* two ports have a random start, a way round, and the excluded port; any of them may
  be taken at the start;
* seventeen configurations are each check's good and bad case and some with two errors,
  so that the order of the checks shows; with `Kilo = 2` and `WordMax = 31` the default
  of five units fits as `mb` and not as `gb`;
* a pool of one with two hosts makes every second connection hit the bound; a host with
  two addresses makes two threads connect to it at once; startup, announce, query and a
  failure make the races in `establish_one_connection` and
  `refresh_stale_cache_for_query` happen. TTL 0 makes a snapshot expire after one tick,
  before a slow query is done. Several clients at once are left to the proofs, which
  hold for any number;
* inventories differ in number of devices and in memory only; one has an index that does
  not begin at zero, one a device too small for its processes and one more devices than
  can be numbered, so that validation refuses one for each of these; two of three NVML
  devices are enough for one left out before or after another, the readings round down to
  unequal amounts and exceed 100 percent, and a process is listed twice; two edits let the
  devices change before and after the metadata is fetched;
* two CLIs are the fewest for two queries that want the same name; two rounds let an
  answer be one behind; one crash can fall before, in and after each step. Patterns of
  four characters over two letters have up to two literal parts and repeated ones, in
  texts long enough for a leftmost match that is not the last. Of the two stems names are
  made of, one ends with a dash, so that a dash outside brackets is met.

`Callers`, `Clients` and cache threads are symmetric where a run says so; runs with
liveness use no symmetry.
Deadlock is checked in every run but `collector` and `cli`: these models can always let
time pass, begin another exchange or repeat a delivery, except that calls are bounded as
named. A server whose collector cannot be opened, and CLIs that have all ended, really
stop.

**Fairness.** `cache`: weak fairness of each thread's steps inside a call. The
code justifies it by the operating system's scheduling of runnable threads and by
`notify_all` under the lock; the collector is assumed to return. Calling, spurious
wakeups and the passing of time are not assumed. `tcp_server` and `tcp_idle`: weak
fairness of each stream thread, for the same reason; clients may do nothing for
ever. `discovery`: the server answers a query it has received, and the answer
is delivered. The last is an assumption about one exchange on the network, not about
the code: `AskedIsFound` says that nothing else stands between a query and finding
the server. `collector`: the backend goes on connecting and asking, as it does for every
query of a CLI; collectors, editors and the driver may do nothing. `cli`: processes and
threads that can take a step do; a handler's waits end because exchanges with servers
have timeouts and `getent` returns. Nobody has to start a CLI or the backend, nor to
interrupt or crash it. `RestartListens` rests on an assumption about the environment
besides: `remove_file`, `create_dir_all` and the change of permissions succeed. An error
of any of them (`local_api.rs:425-436`) ends `serve_on_uds`, and the backend does not
listen; `ClearPath` and `SetPermissions` cannot fail.

## 4. Proofs

Every safety property the passing runs check is a theorem of its specification, for
every value of the constants; only liveness is left to TLC. Fairness plays no part in
the proofs.

**Assumptions.** Besides positive bounds, finite sets and markers that are not values:

* `ChunksAssumption`: a frame is a sequence whose header describes it, and the payloads
  and slots its chunks get are among the constants `Parts` and `Slots`;
* `CliAssumption`: uids are numbers, the one that stands for "unknown" is not among them
  nor zero, no account is called by the empty text (`resolve_username_for_uid` drops it)
  or by `?`, and a process belongs to one of the uids or to the unknown one;
* `CollectorAssumption`: indexes, totals and torn values are numbers, as the types of the
  source have it; and of the driver, that it names its devices, gives no two of them
  the same uuid (it may give none) and all of them at least one MiB of memory, which the
  NVML collector does not test. `ReadDevice` takes it besides that the driver reports no
  more memory in use than the device has;
* `NodeFilterAssumption`: the texts names are made of are not empty and hold no bracket,
  comma or blank, and the ends of ranges are below 100; nothing is assumed of the
  characters and lengths of wildcard patterns and texts;
* `DiscoveryAssumption`: a retry limit that is not zero (`validate_positive`), ports in
  the range of a port.

Two theorems have a hypothesis of their own, which the instance of the run meets:

* `NothingMixed` (`GotWasSent`) has `Unmixable`: frames of up to three chunks with any
  number of answers, of four with up to three, of five with up to two. Beyond that it is
  false: six chunks and two answers are the run `udp_six_chunks`, and three answers of
  five chunks can be mixed as well. Whether four answers of four chunks can is open.
* `MergedDoNotCollect` (`MergedNeverCollects`) has `Enough`: at least as many
  generations as the bounds allow refreshes. The code has 2^64.

**Arguments.** `IInv` is the inductive invariant of each module.

* **GresCache.** `IInv` is the conjunction of `TypeOK`, `SingleCollector`,
  `NoLostWakeup`, `FreshReply`, `ErrorIsCurrent` and two parts that carry them
  over a step. `Stamps`: a refresher's own result lies between the start of its
  call and now and is not older than the entry it will replace, which is why
  `store` needs no lock. `ErrorsReachWaiters`: if a woken thread sees a new
  generation and an error, that error is of a refresh that ended during its call.
  `CacheImplementsSingleFlight` is a refinement proof on top of it: each action is
  a `SingleFlight` step or a stutter. For `MergedDoNotCollect`, `Counting` says that the
  generation is at most the number of refreshes done, and that a sleeper is behind it
  unless the refresh it joined is still under way; it holds until time and failures are
  used up (`Exhausted`), after which nobody refreshes.
* **ChunkRing, UdpChunks.** `OneFrameVerifies`: `verify_all` accepts every undamaged
  frame. `FewChunksCannotMix`: a group that passes `verify_all` is one of the frames its
  chunks are from. The reason: a chunk's two neighbours vouch for its contents, so
  chunks where the frames differ come with both neighbours from frames that agree with
  them there, and a small ring has no room for that. `CutAndJoin` says that the pieces
  the encoder cuts make up the frame again. For `CompleteDelivered` the invariant is
  stated for each frame, sent or not: `Held`, as long as nothing else has arrived for
  its request, the chunks that have arrived are in the group; `Delivered`, and when they
  are all there, so is the frame. `PartialDies` needs that a group's slots have arrived
  at this reassembler.
* **UdpSession.** `SentOnce`: an id is handed out once and on the wire only after that,
  so an answer with a thread's id is to its request (`AnswersAreOwn`). `Ordered`: the
  entry when a request was sent, the payloads that answer it and the entry now are in
  this order of age; a thread that fetches metadata holds values older than its second
  request, hence older than the answer. `Exclusive` is the socket's mutex and `Unopened`
  keeps queries out of the handshake. `SessionImplementsExchange` is a refinement proof on
  top of it; it needs `Seen` besides: the entry is the newest of the snapshots the server
  has had, and whatever is on the wire or in a thread's hands is one of them. With
  `Ordered`, both halves of an answer lie in the thread's window (`ReturnSucceeds`).
* **TcpSession.** `IInv` has four parts beside the type invariant. `InStep`: as long
  as nobody is about to close an open stream, it holds exactly the exchange of the
  thread that has it locked; `InStepOrDoomed` is the case in which nobody has. Its
  exception is `CutOff`: part of a `Disconnect` stands in a stream that is out of the
  pool, and whatever a thread then sends is behind it and never answered. A
  failure takes the stream out of step and puts its thread at `close` in one step,
  which is why the exception is enough. `Quiet`: threads work only on open
  connections, and a stream that is shut down is not locked, hence the only way to a
  foreign answer is the gap before `close`. `InOrder`: results returned, the runtime
  payload in a thread's hands, the frames in the stream from the front on, and the
  server's entry are in this order of age; it does not depend on `InStep`, so
  `AnswersInOrder` and `MetadataNotOlder` hold in the gap too. `Numbered` is needed
  for types.
* **TcpServer.** `AllCounted` counts what is owed to clients that are gone too, and says
  that exactly the clients that are away have no thread; with the types it is inductive.
  Its initial states, steps and specification have names of their own (`ServerInit`,
  `ServerNext`, `ServerSpec`), so that one module extends it and `TcpSession`.
* **Discovery.** `ChoiceOK` follows the choice of ports: the candidates refused so far
  are those of the offsets tried, so that when the tries are used up they are the whole
  range (`CandidatesCover`: going round from a random start by one meets every port).
  `AnnounceOK` says of each attempt and interface whether it had its turn and how that
  ended: all of the attempts before this one failed, and of this one the interfaces that
  are not left have exactly one outcome, from which `AnnounceTriedAll` follows.
  `ConfigOK` follows the checks in their order (`ChecksDecide`); `ProductFits` and
  `LogSize` say that a checked multiplication fails exactly where a division tells that
  the product is too large.
* **Backend.** `IInv` adds to the four safety properties `Equipped` (a thread
  inside `establish_connections` has a node, one inside the refresh loop has a
  target) and `ExpiredPending` (every expired row of a query is still a target, or
  the one at hand, or settled), from which `NoExpiredSnapshotShown` follows.
  `Undisturbed` shows that threads not taking the step keep their part of it.
* **Collector.** `Collected` and `Asking`: what the server holds, and what the backend's
  two halves are from, are snapshots whose devices are in contract (`IsSnapshot`), though
  not all of one and the same. An inventory is validated for tick 0 only, while the values
  are of another tick or of none; `TestSnapshot` shows that this is enough, since
  `Resource` cuts every value of a device down. `Scanning` says that the NVML devices read
  so far are the first ones, none left out, with what the driver said of each rounded and
  cut down (`DeviceScanned`); `NvmlSnapshot` makes a snapshot of them, `TestDue` and
  `NvmlDue` that it is whole. `SameHash`: two snapshots in contract whose metadata have
  one hash have the same metadata, although a missing text hashes like an empty one, since
  the contract asks for the texts; with it `Rebuilt` puts each device's two halves
  together by its index.
* **Cli.** `InStep`: the query a CLI waits for is in exactly one place on the way to the
  answer, or was lost with a backend that crashed; and nothing is left on that way when
  the CLI does not wait (`AnswersInStep`). `Locked`: a handler that builds an answer or
  asks `getent` has the rows' mutex, so the uid it asks about gets no name meanwhile
  (`NamesStable`). `UserFiltersAgree` needs `Named` and `Selected` besides, and is then
  about the two filters alone: `WholeTable` and `OwnTable` say what `render_table` shows
  without and with a user, `TablesAgree` compares them.

* **NodeFilter: wildcards.** `WildcardMatchesGlob` says, for any pattern with a star and
  any text, that `wildcard_match` accepts only what the pattern stands for, and all of it
  when the pattern ends with a star or its last part occurs once. `Bars` and `Parts` lay
  out a pattern as literal parts between stars; `AfterPartFirst` says that a part is found
  at its first place. `LeastRests` is the core: after each part, the leftmost search
  stands at the least place the pattern up to there can reach, and fails only if it can
  reach none. It goes from part to part by `PartStep`: a star makes every later place
  reachable (`StarStep`), a literal character moves each place on by one or drops it
  (`LiteralStep`), so the part's first occurrence gives the least place. A star at the
  end makes the end of the text reachable from there; without one, the last part must end
  with the text, which the leftmost occurrence does if there is only one.
* **NodeFilter: items.** `FilterRead`: of any two items with blanks before them, `parse`
  makes exactly their names. `DepthOfBrackets` computes the depth along an item, so that
  the comma between the items is the only separator (`TwoItems`) although lists have
  commas of their own; `BracketRead` and `ExpandBracket` find the brackets, `ListNamed`
  takes a list apart, `PaddedText`, `NumberOfDigits` and `RangeNamed` read the two ends of
  a range back and write the numbers between with the width of the longer end.

**Induction.** The library's induction theorems have an operator as parameter, which none
of the provers at hand can instantiate. What is needed of them is stated for sets:
`LeastNatural`, that a set of numbers that is not empty has a least element, from the
library's theorem about well-founded relations; from it `UpTo`, that a set with 0 which
has i + 1 whenever it has i has all numbers of an interval; and from that `Iteration`,
that a recursive function on an interval exists and satisfies its equation. The recursive
functions of `NodeFilter` (`Rests`, `Reached`, `Depths`, `Numbers`) are then reasoned about
step by step.

**Model-checked only.** `EveryCallReturns`, `ClosedIsReleased`, `AskedIsFound`,
`MetadataHeals`, `NobodyHangs` and `RestartListens` are liveness, which the prover cannot
do. The three runs that end in a violation refute a statement by an example. `TypeOK` of
`UdpChunks`, `UdpSession`, `TcpSession` and `Discovery` and `ServerTypeOK` of `TcpServer`
are proved and need no run.

## 5. Not modelled

* The rkyv and JSON encodings of payloads and lines, and the TOML syntax of the
  configuration.
* The adapter's parser of old payloads (`parse_legacy_gres_views` and what it calls):
  rows are built without such a payload, so it has nothing to read.
* `spawn_heartbeat`: no connection of either protocol asks for one.
* Announces of old servers that name no port per protocol.
* What NVML measures; layout, colours and widths of the table; logging; service
  installation: input and output without decisions of their own.
* Metrics counters in the server cache: nothing reads them but the log.
* `LIST`, which only reads the rows and which the CLI never sends, and the debug
  commands of the backend (shutdown, disconnect by hostname).
* Two backends on one socket path: the second would remove the file of the first.
* An interval of the CLI too large for a `Duration`, and ranges of a filter with millions
  of members, which the code expands in full.
* What the contract asks of processes (no pid 0, no more memory than the device has,
  `collector.rs:741-754`), except of a debug collector without a mapped file. The code
  does not ensure it elsewhere: `validate_inventory` looks at tick 0 only, and at a later
  tick a process of a small device may exceed it; a torn text may hold pid 0 or any amount
  of memory, and neither is tested or cut down after reading; and the NVML collector
  passes on the pids and amounts the driver reports. So `assert_gres_collector_contract`,
  which the tests call for collectors without a mapped file, could fail for the others,
  and `SnapshotInContract` does not promise it.
* An announce that cannot be encoded as JSON, which ends the announcer.
* A bound on the server's clients: there is none. `README.md` calls `max_connections`
  the number of client connections a server admits, but the accept loop never looks
  at it, and `TcpServer!Accept` does not either.
* Poisoned mutexes, which turn every later call into an error.
* A collector that panics or never returns; a wall clock that is set back.

## 6. Disagreements with the repository's own statements

* `udp_six_chunks`: `DEV.md` says that reassembly detects wrong chunks by the
  neighbours' checksums. Nothing checks a chunk against itself, so with six chunks
  two answers that differ in two places far enough apart can be mixed.
* `tcp_idle`: `README.md` calls `connection_idle_timeout` the idle timeout of UDP and
  TCP connections; on a TCP stream only writing has a timeout, so the thread of a
  client that vanished reads for ever.
* `discovery_race`: `README.md` says that port 0 picks an available port and
  announces it; the port is only tested when it is picked, and if another program
  takes it before the serving thread binds it, that thread returns and the port is
  announced all the same.

Also met while modelling, without a run of their own: the test
`concurrent_stale_failures_are_coalesced_without_deadlock` asserts that callers
coalesced into a failed refresh get the collector's error, but one that gets the lock
only after the next refresher has cleared `last_error` gets `Internal`, which is why
`ErrorIsCurrent` allows it; `wildcard_match` refuses `abab` for `*ab`, because it looks
for `ab` leftmost, which is why `WildcardIsGlob` asks for acceptance only when the pattern
ends with a star or its last part occurs once; and a user typed with blanks around it
(`-user " ann"`) shows an empty table, since the backend does not trim it.

## 7. Plan

1. Liveness of `Backend`: a node that answers is shown again; the eviction of a
   newer connection after a failed query (`local_api.rs:773`).
2. A composition of `Backend`, `Exchange` and `GresCache`: how old can a value on the
   screen be. `TcpSession` implements `Exchange` only while its stream is in step: in the
   gap before `close` a thread may take an answer from before its own query
   (`ForeignOnlyBeforeClose`), so it needs a weaker abstract specification.
3. Four answers of four chunks: an example or a proof.
