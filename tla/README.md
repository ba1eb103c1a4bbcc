# Mini-Redis: TLA+ models, checks and proofs

This directory models the C++ key-value server in `MiniRedis/` and the dashboard
in front of it: the Node bridge `web-dashboard/server.js` and what the page,
`web-dashboard/public/app.js`, keeps. Paths below are relative to the
repository's root.

Run from this directory: `tlc -workers 2 -config <run>.cfg <MC module>` for a
model-checking run (the table of runs names the module) and
`tlapm <module>.tla` for the proofs of the eight modules whose name ends in
`Proofs`. `PROJECT.json` lists every run,
theorem, hazard and finding, and for each definition the source lines it models.

## 1. The system

| Component | State | Operations | Talks to |
|---|---|---|---|
| Store (`store/KVStore.cpp`) | `store` (hash map of value, expiry, list iterator), `lru` list, `expiryHeap`, `mtx` | set, get, del, exists, ttl, incr, decr, cleanExpired, saveSnapshot, loadSnapshot | called by every thread; writes `snapshot.rdb` |
| Command handling (`server/Server.cpp`, `handleClient`) | one thread per connection: `identified`, `is_slave`, `pending` | handshake, dispatch, append to `data.log`, forward, answer | store, `wal_mtx`, `slave_mtx` |
| Persistence | `data.log`, `snapshot.rdb` | snapshot thread every 10 s (truncate, save), at start `loadSnapshot` then `loadData` | store |
| Replication | `slave_sockets`; on the slave `loading_snapshot` and its own store | register, send snapshot, forward; the slave applies lines | handlers, snapshot file |
| Connections | `current_clients`, descriptors, detached threads | accept, refuse with "Server busy", admit, leave, close | handlers, replication |
| Bridge session (`MiniRedisSession`) | `queue` with timers, `inFlight`, `connected`, `closed`, the `sessions` map | connect, command, drain replies, time out, reject, close | master by TCP, browser tab by WebSocket |
| Key explorer (`trackedKeys`) | the keys the bridge has heard of, with deadlines; iterators of the listings under way | remember a command, hydrate from the master's files, list (verify by EXISTS/TTL/GET, drop) | sessions and one-shot connections, the files |
| One-shot connections (`sendTcpCommand`, `sendTcpBatch`) | per exchange `buffer`, `results`, `complete`, the socket | connect, send the next line, take a reply, refuse, time out, finish | master by TCP; called by the HTTP requests |
| WebSocket front | `sessions` with their `wsSocket`, `activityLog`; per socket the frames being worked on | upgrade, frames, broadcasts, close | sessions, key explorer, pages |
| Page (`public/app.js`) | `state` (socket, id, sessions, activity, keys), the connection dot, the Refresh button | open and reopen the WebSocket, run a command, fetch keys, show a message | bridge by WebSocket |
| Bundled backend process | `backendProcess` | spawn at start, SIGTERM at the end | the server process |
| Others | | terminal client, logger, entry point, static files, build and deployment | |

What is hard here:

* **Three locks, none of them around a whole command.** The store's `mtx`,
  `wal_mtx` and `slave_mtx` are taken one after the other, so the order in the
  log and on the slaves' sockets may differ from the order of execution.
* **Two files that replace each other.** `data.log` is cleared before the
  snapshot that makes it superfluous is written, in place, by a thread that
  holds no lock while it writes.
* **A slave is registered before it is synchronised**, from a file, while live
  commands already go out on its socket.
* **Descriptors are remembered by number** after they are closed, and the kernel
  gives the number to the next connection.
* **Replies carry no identifier**, and the bridge gives up waiting for a reply
  that still comes.
* **Three containers in the store** that every method must keep consistent, and
  deadlines that lapse without any step being taken.
* **A map that is walked across awaits**: a listing asks the master about one key
  after the other while replies and other listings change `trackedKeys`, which
  is also fed from files the master is rewriting.
* **An asynchronous handler per chunk**: frames that arrived together wait for one
  another, frames of another chunk do not.
* **Pages that only know what they were pushed**, and ask again on every push.

What each component must get right: the store behaves like a map whose entries
expire and loses nothing else but its oldest key to make room; a restart brings
back what the files are good for and invents nothing; a slave agrees with the
master where the protocol gives it a chance to; the client counter counts
clients; a dashboard command is resolved once; a key stored through the
dashboard stays in the explorer; pages show what the bridge knows once things
have come to rest; an HTTP request is answered from its own connection, which it
gives back.

## 2. The modules

```
Sublists ── StoreOps ─┬─ ExpiringMap ──(refinement)── KVStore ── MCKVStore
                      └─ Commands ── Master ─┬─ Durability ── MCDurability
                                             └─ Replication ── MCReplication
Sublists ─┬─ Connections ── MCConnections
          ├─ BridgeSession ── MCBridgeSession
          └─ KeyExplorer ── MCKeyExplorer
OneShot ── MCOneShot      Tabs ── MCTabs      TabLoop ── MCTabLoop

SublistsProofs ─┬─ StoreOpsProofs ─┬─ ServerProofs      (KVStore, Connections)
                │  (and Commands)  ├─ DurabilityProofs
                │                  └─ ReplicationProofs
                ├─ BridgeSessionProofs
                └─ DashboardProofs   (KeyExplorer, Tabs, TabLoop)
OneShotProofs
```

`ServerProofs` and `DashboardProofs` extend several components at once. These share
no name: the specification of `Connections` is `ConnSpec`, its types are
`ConnTypeOK`, and likewise `Tabs...` in `Tabs` and `Loop...` in `TabLoop`.

The dashboard is cut along its queues, so that each module can be checked
exhaustively: `BridgeSession` is the TCP side of one session; `Tabs` has many
sessions, with the queue of each reduced to a number; `TabLoop` has one session,
with the timeouts left to `BridgeSession`; `KeyExplorer` has the listings, with
the connection they ask over reduced to "answers or fails"; `OneShot` has that
connection for HTTP requests.

* **`Sublists`**: erasing from a list, without recursion, so that it can be
  proved about.
* **`StoreOps`**: the methods of `KVStore` as operators on a store record. Every
  method holds `mtx` throughout, so a call is one transition. A value is the
  integer `stoi` reads or a word it rejects. The heap is the *set* of its pairs:
  only `cleanExpired` pops it, and pops everything due. `int` arithmetic wraps
  at `IntMax` (`Makefile` compiles without optimisation); the same holds for
  `ttl * 1000`.
* **`KVStore`**: the store as a component: all methods by any client, the
  cleaner, the clock, and the history variable `recent` (order of last use).
* **`ExpiringMap`**: what a client may rely on: a map with expiry in which
  storing a new key may cost at most one other entry. `KVStore` implements it
  under the mapping "a key is absent when it is missing or past its deadline".
* **`Commands`**: what a protocol line does to a store, what is logged, what a
  replay acts on.
* **`Master`**: the threads of `Server::start`. Handler: execute, log, forward
  (`at[h]`). Snapshot thread: truncate, read the clock, copy, open the file,
  write a line, close (`saver.pc`).
* **`Durability`**: `Master` with crashes at any step and the restart
  (`loadSnapshot`, `loadData`, then the threads), which may crash too. Ending by
  `SIGINT` saves nothing and is a crash here. A crash is one of the process:
  nothing is ever `fsync`ed, so a machine that stops may lose more.
* **`Replication`**: `Master` with slaves: handshake, snapshot transfer, sockets
  as FIFO sequences, the slave's `loading_snapshot` automaton, lost connections
  and rejoining under the same number. The handler of a joining slave reads
  `snapshot.rdb` in parts (`ReadPart`, `ReadSnapshot`); when the snapshot thread
  empties the file meanwhile the rest comes from the new file, from any line on
  (`stage` is `"cut"`, `ReadCut`).
* **`Connections`**: the accept loop, `current_clients`, threads, descriptor
  numbers and their reuse.
* **`BridgeSession`**: one `MiniRedisSession` and the master's end of its
  connection. An action is one event-loop callback.
* **`KeyExplorer`**: `trackedKeys` as a list in insertion order (deleting a key and
  entering it again moves it, setting it does not), with the keys each listing's
  iterator has passed. A listing reads two files, in parts, and applies each,
  then walks: expired entries go at once, others after the master's answer.
  Beside it runs the master: its handlers execute a command in one step and log
  and answer it in another, so that the log may order commands otherwise than
  they were executed; the snapshot thread has three steps, two of which empty a
  file somebody may be reading. `local` says whether the bridge sees the files.
* **`OneShot`**: HTTP requests over connections of their own. An exchange sends one
  line after the other; the master has `Slots` of them, and counts a connection
  until its thread notices the end.
* **`Tabs`**: pages, WebSockets, sessions, the `sessions` map and the activity log
  with their broadcasts, and a master that stops and starts. A broadcast goes to
  the sessions that are in the map when it is sent. Messages are shown when they
  are sent: the pages do not answer them here.
* **`TabLoop`**: one page and the bridge's frame handler. A handler that waits is
  kept as the frame it waits for and the frames behind it; `Arrive(n)` puts any
  number of frames into one chunk. The page asks for the keys after every
  response and after every write of another tab. The store is the number of
  writes it has seen. A listing is known by the number at which it began: it
  reads files, sends any number of lookups one after the other (`LookFurther`),
  and its handler waits all the while. What it finds is left to `KeyExplorer`.

The history variables (`recent`; `safe`, `settling`, `clash`, `held`, `before`;
`stable`, `filed`, `based`, `good`; `strays`, `victims`; `sent` in
`BridgeSession`; `steady`, `promised` and `moved`; `recorded`, `timeouts`;
`typed`, `issued`, `behind`, `newest`) only record; no guard of a code action reads them.
Definitions commented "(faulty variant)" are not used by any specification: each
is the definition after it with a plausible bug, and a property is only kept if
putting one of them in its place violates it (`PROJECT.json`, `mutants`).

## 3. The runs

### Passing

| Run | Bounds | What it shows |
|---|---|---|
| `kv_store` (MCKVStore) | 3 keys (counters on 2), capacity 2, TTLs -1, 0, ints -2..1, 1 tick, fair | list and map name the same keys (`LruMatchesStore`), no deadline is missing from the heap (`HeapCoversDeadlines`), the list is the order of last use (`LruIsRecency`); a live key is lost only by DEL or as the least recently used one (`OnlyOldestEvicted`); only counters overfill the store (`OnlyCountersOverfill`); every deadline that comes is collected (`ExpiredCollected`); the store implements `ExpiringMap` |
| `dur_mixed` (MCDurability) | 2 keys, 2 handlers, 3 commands (SET, DEL, INCR), 2 crashes | `ExactRecovery` for safe keys, `NoInventedValue` for all |
| `dur_live` | 1 key, 2 handlers, 2 commands, with TTL, 2 ticks, 1 crash, fair | `ExactRecovery` while keys expire and are cleaned; `EventuallyDurable` |
| `rep_sync` (MCReplication) | 1 key, 2 handlers, 2 commands, with TTL, 1 tick, 2 joins on one number | `SlaveInStep`, also when the file a slave is sent is emptied and written again while it is read; the commands include a SET with a TTL of a number, which a counter then finds with a deadline |
| `conn_limit` (MCConnections) | 1 slave, 3 clients, 3 descriptors, limit 2, fair | `WithinLimit`; nothing goes astray while no slave is lost (`SoundWhileSlavesStay`); `EveryCallAnswered` |
| `bridge_session` (MCBridgeSession) | 4 commands, fair | `BooksAgree`, `ShiftedByTimeouts`, `EveryCallResolved`, `DeadSessionLeaves` |
| `one_shot` (MCOneShot) | 1 command, 1 listing of 2 keys with 3 lines each, 1 slot, fair | an ok result is the reply to its own line, and at most one line is carried out unreported (`ReportsTrue`); `SlotsReturn`; `RequestsAnswered` |
| `explorer` (MCKeyExplorer) | 2 keys, 2 listings, 2 of 3 commands, 1 snapshot, 1 failed lookup or file, 1 tick | a key stored for good stays tracked (`SteadyTracked`) and is in every listing begun since (`CompleteListing`), although commands may be logged in another order than they were executed and files are emptied while they are read; a row appears twice, in a listing under way or ended, only for a key that was moved (`NoKeyTwice`) |
| `tabs` (MCTabs) | 2 tabs, 3 WebSockets, 4 events, log of 1 | at rest all attended pages show the bridge's sessions (`PanelTrue`) and timeline (`TimelineShared`) |
| `tab_loop` (MCTabLoop) | a write and a read typed, 1 click, 1 write of another tab, 1 failed listing, listings of 0 to 2 lookups, fair | at rest the page has been shown a list begun after the last write (`LastWriteListed`) and can ask again (`ButtonReturns`); `OrderKept`, `EveryCommandAnswered` |

The conditional properties need a word. *Safe* (`Durability`) means: the last
change of the key was a SET without TTL or a DEL, logged, and not overlapped by
another handler's unlogged write of the key, and the log has not been truncated
since; or a whole snapshot was taken while the key did not change and had no
deadline. *In step* (`good` in `Replication`) means the same with "forwarded
after the slave's snapshot was sent" and "in the snapshot file it was sent", a
file that was complete when the handler came to its end and had not been emptied
since it began; a counter counts if it started from an entry the slave is in
step on.
*Steady* (`KeyExplorer`) means: the answer to a SET without TTL was heard while
that SET was the last on the key both in the master's map and in its log, no
other command on it was still to be logged or heard of, and no listing was
running; since then nobody has used the key, no lookup of it has failed, no old
snapshot line gave it a deadline, and the log was not cleared under the eyes of
a listing that had read as far as a DEL of the key and not as far as the SET.
Every part of these conditions is there because TLC refutes the property
without it; the next section says which behaviour of the code each stands for.

### Violations: what the repository's texts say and the code does not do

| Run | Statement | What happens |
|---|---|---|
| `dur_window` | full recovery, log cleared after a successful snapshot (README.md:61, 68) | the log is truncated before the snapshot is written; a key whose SET was executed, logged, forwarded and answered is gone after the restart (keys with a command not yet answered are exempt, `before.running`) |
| `tabs_stuck` (MCTabs; 1 tab, 2 WebSockets, 1 event, fair) | a dashboard that shows "Disconnected" needs the backend started (RUNNING_MANUAL.md:187-189) | the open tab's session never dials again |

Further behaviours the passing properties have to exclude, and where:

* `OnlyCountersOverfill` names INCR and DECR: on a missing key they insert
  without the eviction README.md:93 describes (`KVStore.cpp:267`, `309`).
* `clash`, in `Durability` and `Replication`: two handlers may log and forward in
  another order than they executed, so that the older value survives in the
  file or on the slave (`Server.cpp:236`, `253`).
* `LastWord(wal, ...)`, in `StoredForGood`: the same order of lines misleads the key
  explorer. "DEL k; SET k" executed and answered but logged as "SET k; DEL k" has
  the next listing drop a key that is there, until a snapshot clears the log.
* `"cut"`, in `Replication`: a slave that is sent a file which was emptied while it
  was read may lack keys of both snapshots, or get old values of them
  (`Server.cpp:165`, `KVStore.cpp:160`); such a slave is due to be in step on no
  key of the file.
* `Truncate`, in `KeyExplorer`: a listing that has read "DEL k" and not yet the "SET k"
  behind it when the log is cleared applies the DEL alone (`server.js:138`).
* `Changes`: a DECR to `INT_MIN` changes the store but is taken for the error code
  (`Server.cpp:340`): neither logged nor forwarded.
* `Restores` and `Plain` ask for no TTL: a deadline restarts when a SET is
  replayed, and one below a second is saved as none (`KVStore.cpp:173`).
* `Times(s) = 1`: the number of a lost slave stays in `slave_sockets` until a send
  fails; a slave that reconnects under it is registered twice and counts every
  INCR twice (`Server.cpp:157`).
* `Without`: what a SET with a TTL or a counter that reaches a registered slave
  ahead of its snapshot has left there is not undone by a snapshot that no longer
  has the key (`Server.cpp:157`, `165`); on a key the snapshot lacks, a slave is due
  to be in step only if it never had the key or a DEL came last.
* `SoundWhileSlavesStay` ends with the first lost slave: its descriptor is closed
  by the forwarding loop and by its own thread, and the second close may hit a
  connection accepted in between (`Server.cpp:125`, `258`).
* GET is neither logged nor forwarded, so that at capacity a replay may evict
  another key than the server did. `ExactRecovery` is checked with as many keys
  as fit: with three keys in a store of two it would have to exclude them.
* `loadData` acts on SET and DEL lines only (`Server.cpp:72`): counters since the
  last snapshot are lost by any crash, although README.md:59-61 promises full
  recovery. `Restores` leaves them out.
* A joining slave is sent the file, up to ten seconds old (`Server.cpp:165`), and
  never learns of the writes in between, although README.md:134 says that this
  "Ensures consistency for late-joining slaves". `filed` says which keys of the
  file are still good.
* After a lost slave a client may be accepted under its number and is sent the
  other clients' writes (`Server.cpp:257`); `SoundWhileSlavesStay` stops there.
* The reply to a command that timed out is delivered as the answer to the next
  one (`server.js:455`), in a session; `ShiftedByTimeouts` bounds the shift.
* `StoredForGood` and `Lose`, in `KeyExplorer`: an EXISTS that was answered before
  the key was stored drops it afterwards (`server.js:569`); so does a lookup that
  failed, for whatever reason; two sessions' replies may be heard in another
  order than executed; `del k`, which the master refuses, removes `k` from the
  explorer (`server.js:84`).
* `ApplyRdb` keeps a key steady only if it has no deadline afterwards: read after
  the log was cleared and before the new snapshot is written, an old line gives
  a key stored for good a deadline, and the loop drops it without asking.
* `moved`, in `NoKeyTwice`: another listing that replays "DEL k; SET k" moves k in
  front of the loop that has passed it, which then lists it twice.
* `LastWriteListed` is about when the list was begun. Which of overlapping lists is
  shown last, and what each finds, is not claimed and would be false: a
  listing whose EXISTS was answered 0 before a SET drops the key just remembered
  (`server.js:563-572`), and the next list then lacks it unless the log still has
  the SET. What a list does contain is `CompleteListing`.
* An INCR after a key's deadline stores it again, but `rememberCommand` keeps the
  old deadline (`server.js:103`): without access to the files it is not listed.
* `Attended`, in `Tabs`: a tab whose session died gets no broadcasts any more, and
  shows "Connected" until its next command.
* `timeouts = 0`, in `PanelTrue`: a response that is not ok turns the dot off, on a
  session that is well (`app.js:276`).
* `failures = 0`, in `TabLoop`: a listing that fails is answered with an error
  message, after which the Refresh button stays disabled (`app.js:285`).
* `behind`, in `OrderKept`: a command behind another frame of its chunk is
  overtaken by the commands of later chunks (`server.js:822`).
* `-i` among the results of `ReportsTrue`: a single command takes what it has of a
  reply for the reply when the connection ends (`server.js:240`), and does not
  remember the write.
* `Refused` in `OneShot` may hit the second lookup of a listing because the first
  one still counts as a client; the key is then dropped (`server.js:534`).
* `ttl * 1000` wraps for TTLs beyond 2147483 seconds (`KVStore.cpp:28`); the
  contract takes the deadline as computed.

### Why the bounds are enough

Keys, words, handlers, sockets, tabs and commands are used only through equality, so
two or three of each (one key in `rep_sync`) show every overlap the code
distinguishes: a key and another one to evict (three when the victim must be *chosen*), two handlers
whose steps interleave, a slave that leaves and one that returns. `int` is two
or three bits wide, which puts the wrap-around within reach of a few INCRs and
of a few TTLs. `MsPerSecond` is 1, so a clock tick is a second: the cut to whole
seconds is in the operators but the runs do not depend on it. Three commands suffice for a change, a second that overlaps it
and a third that follows; two crashes for one in a running server and one in a
restart. Two listings overlap
in every way two can, and what one does to the other's iterator does not depend
on a third. A file of one line can already be read old, emptied and read new,
which is what `rep_sync` and `explorer` need of a file read in parts; the
theorems have files of every length. Two tabs are one that acts and one that watches, and the third
WebSocket lets one of them come back. In `TabLoop` the page's own requests
multiply with every answer, so that two commands and another tab's write already
give chunks of up to five frames; a listing of two lookups stays under way while
others begin and end, one of none ends at once. One slot is the tightest limit: every exchange
that overlaps another meets it.
`MaxCommands`, `MaxCalls`, `MaxCrashes`, `MaxJoins`, `MaxSaves`, `MaxLosses`,
`MaxSessions`, `MaxEvents`, `MaxClicks`, `MaxForeign`, `MaxFailures` and `Horizon`
are the bounds that cut behaviours short; `CHECK_DEADLOCK FALSE` is set in the runs in
which the program stops when they are used up, or in which connections and
sessions end.

### Fairness

* `KVStore`: the cleaner loops while the server runs.
* `Durability`: handlers finish what they began, the snapshot thread loops, a
  restart runs to its end. Clients and crashes are bounded and not fair.
* `Replication`: none; its properties are about states in which everything sent
  has been applied.
* `Connections`: the accept loop runs; `recv` returns 0 for a gone peer, and the
  thread then closes.
* `BridgeSession`: the event loop runs due callbacks, timers among them. Nothing
  is assumed of the master.
* `OneShot`: the idle timer fires unless the exchange ends before, a body or file
  ends, the accept loop runs and a thread's `recv` returns for a closed
  connection. Nothing is assumed of replies.
* `TabLoop`: frames and messages arrive, files are read, the master answers
  (timeouts, which make up for one that does not, are in `BridgeSession`). Only
  `EveryCommandAnswered` needs it: the other properties of `tab_loop` are about
  states of rest and about order.
* `Tabs`: `TabsFairSpec` only serves `tabs_stuck`: connecting, answering and closing
  happen in the end. `PanelTrue` and `TimelineShared` are about states of rest and
  need none, and neither do the properties of `KeyExplorer`.

## 4. The proofs

Every safety invariant and action property of a passing run is a theorem. It
holds for every set of keys, words, handlers, sockets, peers, commands, requests,
listings and tabs, every capacity, int width, length of the activity log, factor
between seconds and clock, and every value of the bounds. `TypeCorrect` in each
module is `Spec => []TypeOK`.

| Module | Theorem | States |
|---|---|---|
| `ServerProofs` | `TypeCorrect`, `ListFollowsMap`, `HeapComplete` | `TypeOK`, `LruMatchesStore`, `HeapCoversDeadlines` in every state |
| | `RecencyOrder`, `OldestEvicted`, `OverfillOnlyByCounters` | `LruIsRecency` in every state; `OnlyOldestEvicted`, `OnlyCountersOverfill` of every step |
| | `StoreImplementsMap` | the store implements `ExpiringMap` |
| | `ConnTypeCorrect`, `LimitKept`, `NumbersKept` | `ConnTypeOK`, `WithinLimit`, `SoundWhileSlavesStay` |
| `DurabilityProofs` | `TypeCorrect`, `NothingInvented` | `TypeOK`, `NoInventedValue` |
| | `ExactlyRecovered` | `ExactRecovery`, given `RoomForAll` |
| `ReplicationProofs` | `TypeCorrect` | `TypeOK` |
| | `InStepKept` | `SlaveInStep`, given `RoomForAll` |
| `BridgeSessionProofs` | `TypeCorrect`, `BooksKept`, `DriftBounded` | `TypeOK`, `BooksAgree`, `ShiftedByTimeouts` |
| `OneShotProofs` | `TypeCorrect`, `ReportsBacked` | `TypeOK`, `ReportsTrue` |
| `DashboardProofs` | `KeyTypeCorrect`, `SteadyKeysTracked`, `ListingsComplete`, `RowsOnce` | `TypeOK`, `SteadyTracked`, `CompleteListing`, `NoKeyTwice` of `KeyExplorer` |
| | `TabsTypeCorrect`, `PanelsTrue`, `TimelinesShared` | `TabsTypeOK`, `PanelTrue`, `TimelineShared` |
| | `LoopTypeCorrect`, `CommandsInOrder`, `ButtonComesBack`, `LastWriteIsListed` | `LoopTypeOK`, `OrderKept`, `ButtonReturns`, `LastWriteListed` |

### Assumptions

The proofs use the assumptions the modules name (`CapacityAssumption`,
`IntAssumption`, `WordAssumption`, `InputAssumption`, `RequestAssumption` and so
on), which TLC evaluates in every run. `EpochAssumption` says that the epoch time
in milliseconds exceeds every `int`, so that no wrapped deadline can be the
sentinel -1. `FiniteAssumption`, in `KeyExplorer`, says that keys and commands are
finite in number: a snapshot is a file.

`RoomForAll` (`StoreOpsProofs`) is a hypothesis of two theorems and no assumption
of a module: there are finitely many keys and they fit in the store. Without it
the two statements are false of the code. An eviction is recorded in no file and
forwarded to no slave; which key it takes depends on GETs, which are neither
logged nor forwarded. So a restart, or a slave, evicts on its own account, and a
store at its limit may lose a key that the histories `safe` and `good` count on.
The runs of both modules satisfy the hypothesis. Everything else is proved
without it.

### The inductive invariants

**Store.** `Inv` says that the store is *in order* (`InOrder`: well typed, list
without duplicates, list and map name the same keys, heap covers deadlines). The
parts belong together: that a method keeps the list free of duplicates depends
on the map agreeing with it, since a method pushes a key after looking it up in
the map only. `StoreOpsProofs` proves that each method preserves `InOrder`, by way
of `Erase` and `PushFront`, the two things methods do. Underneath are the lemmas on
`Sublist`: its n-th element is the one of rank n among the hits, so the proofs go
by an order-preserving bijection and not by induction over sequences.
`OverfillOnlyByCounters` needs that in a store whose list follows its map an
eviction frees a place (`EvictFrees`), and that a SET stays within capacity if
there was room (`SetStaysWithin`). `RecencyOrder` has the list as the sublist of
`recent`, itself without duplicates, that the map names; `OldestEvicted` adds that
the heap holds no pair without a deadline (`HeapOfDeadlines`), so that the cleaner
never takes a live key. The refinement
has one lemma per method: it maps to the contract's step, or leaves the view
unchanged. The one that evicts has to show that the single key the contract
allows to vanish is the one at the end of the list, also when that key had
already expired and nothing vanishes at all.

**Durability.** `AllHeld`, for `NothingInvented`: wherever a restart can find a
value (the store, the saver's copy, a handler's command, either file, what a
restart has still to read) the key has had it. For `ExactlyRecovered`,
`Recoverable`, in four parts. `SafeKept`: the log ends with a command that leaves
the safe key as it is, or is silent on it and the snapshot has it; while the
files are being replaced only the log counts. `RanAlone`: a command that nobody
overlapped has left the store as it will be logged. `Settled`: the keys a
snapshot will make safe are in the copy, then in the file, as they are in the
store, and no handler has anything on them outstanding. `Booting`: the rest of what
a restart reads brings the key back, or it is back already. `SafeKept` alone is not
inductive: a key becomes safe when a handler logs it (`RanAlone`), when a file is
closed (`Settled`), and when a restart ends (`Booting`).

**Replication.** For the types, `Queues` (a slave is sent nothing between the two
markers of a snapshot but its lines, and the slave is loading just when it is
between them) and `Listed` (a registered slave is in the vector). For
`InStepKept`, `Following`: a slave that is due to be in step on a key *will* have
the master's entry once it has applied its queue (`Leads`, by way of a trace of
the entries it will go through), or is about to be sent a snapshot that has it
(`GoodKept`); a counter on its way started from where the slave will be
(`BaseKept`); `RanAlone` and `SnapshotKept` are as in `Durability`. `Leads` is needed
because the property speaks of empty queues, and nothing about an empty queue is
inductive. A handler whose file was emptied while it read (`"cut"`) is due nothing:
what it has read need not be a part of any snapshot.

**Connections.** How far each connection has come (`Stages`), the counter as the
number of running threads, and, while all slaves are there, that each thread owns
its number and the vector holds numbers of slaves that are served. The last part
is an implication: it does not survive the first lost slave, as the code does not.

**Bridge session.** The queue is the sublist of the commands sent that are still
waiting, and the timers are theirs (`Books`); what each stream carries is an
interval of the commands sent (`Streams`); and no reply of a waiting command has
been heard, every answer has used one up and came from an earlier place, not
further back than commands before it have timed out (`Drift`).

**One-shot connections.** Per exchange, the stage it is in: before the connection
only a refusal can be on its way; while it is open the results are replies to
their own lines and the line waited for is in exactly one place (`Talking`); when
it is over the results are those replies followed by failures (`Over`).

**Key explorer.** `KeyInv`, in five parts. `KeyTyped`. `MasterLogs`: what the master has
of a key comes from a command on it, and a snapshot has SETs only. `SteadyKept`: a
steady key is stored for good in the map and in `trackedKeys`, the log's last word
on it, if the log has any, is its SET, no command on it is still to be logged or
heard of, and no listing has been told that it does not exist. The middle of
this is what makes it inductive although the log may order commands otherwise
than they were executed: as long as a command on the key is executed and not
logged, the last word may still change. `PagesRead`: what a listing has read of the
log has the same last word, and of a snapshot it has read SETs only, be the
file cut or not. It says nothing of a log that is still being read in parts, where
a DEL may stand last; that `Truncate` ends the steadiness of such keys is what
keeps `PagesRead` true when the reader goes on. With these, replaying a page
cannot remove a steady key (`RememberAllEffect`), nor can a listing's loop
(`GoOnEffect`). `Walks`, for the listings: what the iterator has passed of the
promised keys is among the rows or under inquiry; rows and the key under inquiry
have been passed, or deleted since (`moved`); a key is not asked about again
unless it was moved, and so no row is there twice unless its key was, which stays
true of the rows when the listing has ended. `CompleteListing` and `NoKeyTwice`
alone are not inductive: they speak of rows, `Walks` of what the iterator still
will do.

**Tabs.** `TabsTrue`: a tab whose session has been greeted and is still in the map
shows its own id, the log, and, unless a session is dialling, the list of
sessions as it is. That is not only so at rest: whatever changes the sessions or
the log pushes it to every such tab in the same callback, and the proof is one
case per callback, over the broadcasts it makes (`SessionStep`). A dialling session
is the exception because it is in the map and not yet broadcast. `EventsCover`, for
the types: the commands in flight, added up over the sessions, and those
recorded are covered by the events, so no counter passes its bound.

**One tab.** `InOrder`, for `CommandsInOrder`: the frames on their way are in the order
typed and later than all that has arrived, and what waits in a handler's rest
arrived behind another frame. `ButtonWaits`: a disabled button has a request for
keys on its way, waiting in a rest, under way or on its way back, or a listing
has failed. `LastWriteDue`, for `LastWriteIsListed`: while the page has not been shown a
list begun at the present version, one that is being made began at it, or one is
still to be begun (a frame for keys on its way or in a rest), or there is what
will make the page ask for one: a command under way, whose response will, a response or
an activity message on its way, or another tab's write not yet in the activity
log. The property speaks of rest only, where all of this is gone. Of the lists
themselves nothing is needed but the version at which they began, so that the
proof does not depend on the order in which overlapping listings end, nor on
how many lookups each takes.

Each of these invariants also holds on the runs' instances: TLC checks it when the
MC module extends the `Proofs` module, or, for the dashboard's three, a module
with the component and the invariant alone (with the unbounded quantifiers of
`Leads` and `BaseKept` in `Replication` and of `EventsCover` in `Tabs` bounded).

### Recursion in the proofs

What `RememberAll` replays, what a list of lists is flattened to and what
`EventsCover` adds up is defined by recursion over a list or a range. The
library's induction theorems take an operator as a parameter and cannot be used
here; `DashboardProofs` begins with induction in terms of sets instead
(`LeastNatural`, `NatSetInduction`), which follows from the well-foundedness of `<`.
A recursive function is a `CHOOSE`, so each has a lemma that the function exists
(`ReplaysExists`, `FlattensExists`) before one about its values.

### What the proof of `InStepKept` showed

The first attempts failed for reasons that were flaws of the model's history
variables, which said that a slave is in step where the code leaves it out of
step. TLC confirmed both on small instances. A counter that reaches a registered
slave ahead of its snapshot counts from nothing there; if the key meanwhile
expires on the master, the snapshot does not have it, and the slave keeps its
number (now excluded by `Without` and `Pending`). And `based` remembered a slave
across the loss of its connection, so that a counter forwarded after it had come
back counted as if from the old entry (`Disconnect` now forgets it). The run
`rep_sync` has since had a SET of a number with a TTL among its commands.

### Only model-checked

* All liveness: `ExpiredCollected`, `EventuallyDurable`, `EveryCallAnswered`,
  `EveryCallResolved`, `DeadSessionLeaves`, `SlotsReturn`, `RequestsAnswered`,
  `EveryCommandAnswered`. The prover has no rules for fairness and ENABLED.
Of safety nothing is left to TLC alone. The theorems say nothing of the mutants and
of the two runs that end in a violation, which are TLC's by nature.

## 5. What is left out

* Lines refused before the store is called ("Invalid Command", "Invalid TTL"),
  and cutting the byte stream into lines.
* Values beyond what `stoi` makes of them, so `007` and `7` are one value.
* Torn lines: a crash in the middle of a `write` to either file, and a reader whose
  part of a file ends within a line, so that "DEL k2" reads as "DEL k" (a reader
  of a file that is written or emptied meanwhile promises nothing of the file's
  keys in `Replication`; in `KeyExplorer` it is left out).
* A second emptying of a file before a cut reader has come to its end.
* A machine that stops: nothing is `fsync`ed.
* What a client gets back of a deadline after a restart: `ExactRecovery` and
  `NoInventedValue` say nothing of deadlines.
* What becomes of an overfull store: a SET evicts one key, so that the excess
  counters made stays. `OnlyCountersOverfill` does not say so.
* What happens after the first lost or refused slave with a number that changed
  hands: `SoundWhileSlavesStay` ends there. `EveryCallAnswered` takes "Server busy"
  for an answer; that the counter does not leak is `WithinLimit`.
* A wall clock that is set back, and the clock moving inside one method.
* A thread that waits in `recv` on a descriptor while its number changes hands,
  and a slave that does not read, so that `send` blocks with `slave_mtx` held.
* `std::bad_alloc`, failing file writes.
* EXISTS, TTL and GET of a row are one answer in `KeyExplorer`, and the rows'
  contents are not modelled; the lines of a snapshot are written in one step
  there (line by line in `Durability` and `Replication`). Eviction, restarts of the
  master and the files of a second directory (`server.js:130`) are not modelled
  there either. The hydration at start-up is a listing that has not begun its loop.
* In `TabLoop` the messages a lost connection causes come in the order of the
  queue. The loss of the WebSocket is not in that module, and so not in
  `ButtonReturns`: the button then stays as it is until the page has reconnected
  (`Tabs` has that) and is told that its new session is connected, if it is.
* The reply shift after timeouts is in `BridgeSession` only: listings and pages are
  given the answer to what they asked.
* `Tabs` has one action for the error and the close callback of a connection that
  could not be made (`ConnectFails`).
* The WebSocket frame codec (`server.js:651-711`) and static files: formats. The
  page's rendering, filter and time format.
* The bridge process's own start and end. `server.close` waits for open
  WebSockets, so that with an open tab Ctrl + C (RUNNING_MANUAL.md:199) and SIGTERM
  do not end it; the bundled backend is stopped and not started again.
* The terminal client (one command at a time over one connection, which
  `BridgeSession` covers), the logger, build and deployment files.

## 6. Plan

Done, in this order: store, contract, durability, replication, connections,
bridge session, the first proofs about the store, then key explorer, one-shot
connections, tabs and the page, then the proofs about everything on the server's
side, the bridge session and the one-shot connections, then those about the key
explorer, the tabs and the page. What could come next:

1. Blocking sends and shutdown by `SIGINT` in `Connections`; the end of the bridge.
2. The three commands of a row in `KeyExplorer` as three answers, and rows with
   contents.
3. Liveness, with a prover that has rules for fairness.
