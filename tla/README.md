# Verification of goed2k-server

TLA+ specifications of the ED2K (eDonkey) server in this repository, TLC
configurations that check them on small instances, and TLAPS proofs for all
instances. The code is Go; everything below is in `src/ed2ksrv` unless a path
says otherwise.

## 1. The system

| component | state | operations | interacts with |
|---|---|---|---|
| Client registry (`server.go`) | `Server.clients`, `nextID`, `clientSession.assignedID` | `handleLogin`, `allocateClientID`, `registerClient`, `unregisterClient` | one goroutine per TCP connection, `Server.mu`; callbacks and source lookups find clients through it |
| Runtime index (`server.go`, `offerfiles.go`) | `Server.dynamicFiles`, `clientSession.offeredFiles` | `mergeClientOfferedFiles`, `removeClientOfferedFiles`, `addDynamicLocked`, `removeDynamicLocked` | finds the session by client ID again in every step |
| Locks | `Server.mu` (RW), `clientSession.mu`, `clientSession.writeMu` | every handler, every admin view | `sourcesAll` and `handleLogin` nest two of them in opposite order |
| Static catalog and stores (`catalog.go`, `storage.go`, `db_store.go`) | `Catalog.files`, `byHash`; a JSON file or a table | `Upsert`, `Delete`, `ReplaceAll`, `Save`, `Load` | admin API, loaded at start |
| Rate limiter (`udp_limit.go`) | `seen`: address -> bucket | `allow`, `sweepLocked` | UDP read loop, accepted connections, callbacks |
| UDP service (`server_udp.go`, `udp_search.go`) | socket, search queue | read loop, workers, replies, callbacks, `Shutdown` | registry, catalog, limiter, TCP connections of callback targets |
| Peer servers (`peer_registry.go`, `server_udp.go`) | configured and learned peers, last seen | `add`, `markSeen`, `pingPeers`, both server lists | UDP pings and lists, `OP_GETSERVERLIST` |
| Accept loop, shutdown (`server.go`, `cmd/goed2k-server/main.go`) | listeners, `shutdownCh` | `Serve`, `handleConn`, `Shutdown` | everything |
| Search (`protocol.go`, `catalog.go`) | `Catalog.triIndex` | parse two encodings, match, summarise, index lookup | TCP and UDP search |
| Paging, source selection (`server.go`) | `clientSession.searchResult`, `searchOffset` | `handleSearch`, `handleSearchMore`, `handleGetSources`, `orderAndCapSources` | catalog and runtime index, one lock after the other |
| Obfuscation and framing (`obfuscate.go`, `readFrame`) | two RC4 states, bytes read too far | handshake, `obfConn`, `prependConn`, `readFrame` | every goroutine that writes to the connection |
| Admin API, UI, audit (`admin*.go`, `audit.go`) | audit ring | HTTP handlers | catalog, registry |
| Packet layout, trace, configuration | byte buffers | encode, decode | |

What is hard in this code:

* **Interleaving.** No handler holds one lock from beginning to end. Between
  two critical sections it remembers a client ID and looks the session up
  again, so it may meet another connection's session.
* **Blocking writes.** `conn.Write` has no deadline and is called with `writeMu`
  held, from the connection's own goroutine, from the one of a client that asks
  for a callback, and from the UDP read loop.
* **Persistence.** The catalog is cloned under its lock and saved after the lock
  was released; `os.WriteFile` truncates before it writes.
* **Time.** The limiter reads the clock before it has the lock and forgets
  buckets when its table is full.
* **Streams.** TCP cuts bytes anywhere, the last Read of the handshake may take
  frames with it, and one RC4 state encrypts what several goroutines write.
* **Two readings of one request.** A search body the prefix parser refuses is
  tried as the linear form; the index decides from a summary which files are
  looked at at all.
* **Datagrams.** Pings, answers and lists get lost or come from anybody.
* **Ends.** `Shutdown` closes the clients that are registered at that moment;
  workers, the read loop and late connections have to notice by themselves.

What makes each part correct:

* registry and index: IDs are unique as long as logins do not race, the registry
  leads only to live connections, the index holds exactly what connected clients
  have published,
  the cap holds over all batches, a disconnect cleans up;
* locks: no circular wait, no lock left behind, a peer that does not read holds
  up nobody but those who write to it;
* catalog: what was confirmed is stored, and is there after a restart;
* limiter: an address gets its rate and, with one caller, never more, whatever the
  table forgets;
* search: a request is understood as it was sent or matches nothing, the index
  loses nothing a scan would find by name, pages and source lists are exact;
* stream: frames arrive once, whole and in order, replies can be decrypted, no
  frame of a client that failed the handshake is handled, no goroutine stays;
* peers: only known servers teach, a living peer is seen while the read loop lives,
  a server list is read back as it was written;
* UDP and shutdown: replies are whole, queued searches are answered, the loop
  comes back, everything ends.

## 2. Modules

| module | models | run on |
|---|---|---|
| `Sessions` | registry and runtime index | `MCSessions` |
| `SessionsProofs` | theorems about `Sessions` | |
| `LockOrder` | the three kinds of lock, all TCP handlers and the admin views | itself |
| `LockOrderProofs` | theorems about `LockOrder` | |
| `CatalogStore` | catalog, JSON and SQL store, crash and restart | itself |
| `CatalogProofs` | theorems about `CatalogStore` | |
| `TokenBucket` | what a limiter promises: a bucket per address that is never forgotten | refined by `Limiter` |
| `Limiter` | `udp_limit.go` | `MCLimiter` |
| `LimiterProofs` | theorems about `Limiter`, the refinement included | |
| `Service` | `Serve`, UDP read loop, search workers, datagram writer, `Shutdown` | `MCService` |
| `ServiceProofs` | theorems about `Service` | |
| `Text` | the functions of package `strings` that are used, over sequences of characters | |
| `CatalogIndex` | the catalog in memory: list, map, trigram index, normalisation | through `Search` |
| `SearchTerms` | the terms of a search: reading, matching and summary of one, and what it denotes | through `Search` |
| `SearchRequest` | search requests: both parsers, matching and summary of expressions | through `Search` |
| `Paging` | the results a session keeps and the pages it sends of them | through `Search` |
| `Selection` | what a loop keeps of a list | through `Search` and `Peers` |
| `Sources` | the sources of a file that a client is told | through `Search` |
| `Search` | searches, pages and source lookups of clients, over `CatalogIndex`, `SearchRequest`, `Paging`, `Sources` and a runtime index that changes | `MCSearch` |
| `SearchProofs` | theorems about `CatalogIndex`, `SearchTerms`, `Paging` and `Sources` | |
| `Stream` | one connection: first byte, obfuscation handshake, frames, replies | `MCStream` |
| `StreamProofs` | theorems about `Stream` | |
| `Peers` | peer servers: registry, pings, learning, server lists | `MCPeers` |
| `PeersProofs` | theorems about `Peers` | |

`MC...` modules only give values to constants. Definitions
whose name ends in `Mutant` are plausible bugs in the definition that follows
them; no specification uses them. Each property is violated when its mutant
takes the place of the original.

### Sessions

One action per critical section. `pc[s]` is where the goroutine of connection
`s` stands; what a handler remembers between two sections is in `target`,
`batch`, `accepted`, `previous`. `clients` and `nextID` are the registry,
`byClient` and `completes` the two maps of a `dynamicSharedFile`, `offered` is
`clientSession.offeredFiles`. `published` is a history variable: the files a
connection has had accepted with a source and has neither repeated nor cleared.

| code | actions |
|---|---|
| `handleLogin`, `allocateClientID`, `registerClient` | `LoginCheck` (RLock), `LoginAllocate` (Lock), `Register` |
| `handleOfferFiles`, `mergeClientOfferedFiles` | `OfferFiles`, `OfferFind`, `OfferMerge`, `OfferPublish` |
| `removeClientOfferedFiles` | `RemoveLookup`, `RemoveDrain`, `RemoveRevoke` |
| `handleConn`, `unregisterClient` | `Accept`, `Disconnect`, then the removal, then `Unregister` |

A file record is abstracted to whether it yields a source
(`sourceFromSharedEntry`). A batch names each file at most once; one that repeats
a hash is not modelled. The order of a batch is the client's choice, so which of
its new files the cap lets in is nondeterministic.

### LockOrder

A handler is the sequence of its lock operations; a goroutine works through one.
`Server.mu` is a Go `RWMutex`: `Announce` keeps new readers out, `Commit` waits
for the readers that are in. A write to a stalled peer is not enabled until the
connection is closed. Critical sections that take no second lock and do no I/O
are one operation. `Visits` is the loop of `sourcesAll` and `ClientsSnapshot`
over some of the registered connections, in any order. `Catalog.mu`, `peerRegistry.mu` and the limiters' mutexes are
leaves of the order and are left out.

### CatalogStore

`byHash` is memory, `stored` and `file` are the disk. A change is applied under
the lock (`Change`), cloned under a read lock (`CloneFiles`) and saved with no
lock: `SaveSQL` in one transaction, `Truncate` and `WriteFile` for the JSON file.
`SaveFails` and `Crash` may strike at each step. `promise` is what the last
successful answer for a hash confirmed. Records are keyed by hash: a loaded file
with two records of one hash is not modelled.

### Limiter and TokenBucket

Time in ticks and tokens in the units a tick refills, so sums are exact where
the code's are floating point. `allow` is two actions, since the clock is read
before the lock is taken: `ReadClock`, then `AllowNew` or `AllowKnown`. `callers` is
who calls this limiter, any part of `Callers` that is not empty: the UDP read loop
is the only caller of its limiter (`OneCaller`), those of connections and callbacks
are called by many goroutines.

### Service

`pc` holds the read loop and the workers, `job` a reply with its
`udpDatagramWriter`, `queue` the channel, `shutdown` the steps of `Shutdown`
(close the channel, list under the lock, close sockets, close clients). What a
datagram asks is chosen when it is read: ignored, answered at once, a source
lookup, a search, a callback. The limiter's refusal is among the ignored ones. A
reply is the sequence of the offsets at which its blocks end; the buffer of
`udpDatagramWriter` holds the blocks from `from` to `added`. A datagram handed to `writeUDP` may be lost; nothing in the code depends on it.

### CatalogIndex, SearchTerms, SearchRequest, Paging, Sources and Search

A search request is a sequence of tokens (a term, or a Boolean operator) instead
of bytes; `Parse` is `ParseSearchRequestLimited`: the prefix form with its depth
limit and, if that fails, the linear form. `Match` is the predicate, `Summary`
what `collectSummary` makes of it, `Candidates` what `searchCandidatesLocked`
makes of that. Numbers have W bits and are compared as signed ones, as the code
does after its conversion to `int64`. `Denotes` is the reference: the set of
records that the tree of a request means. What needs recursion is in `SearchRequest`
and `Search` and is put together from operators of `SearchTerms`, which need none, so
that theorems can be stated about these.

Names and keywords stay sequences of characters, of two or three letters: which
trigrams a keyword and a name share, whether a keyword is the text of a hash and
with which prefix, where blanks and the dot of a format stand is what the summary,
the index and the parsers decide by, and what the properties compare.

| code | actions |
|---|---|
| `UpsertFile`, `DeleteFile`, `Catalog.Upsert`, `Delete`, `ReplaceAll` | `Admin` (`Upsert`, `Delete`), `InitCatalog` |
| `mergeClientOfferedFiles`, `removeClientOfferedFiles` (detailed in `Sessions`) | `Offer`, `Withdraw` |
| `handleSearch`, `searchAll` | `SearchCatalog` (Catalog.mu), `SearchRuntime` (Server.mu, with the first page) |
| `handleSearchMore` | `SearchMore` (`NextPage` of `Paging`) |
| `handleGetSources`, `sourcesAll`, `orderAndCapSources` | `GetSources` (Catalog.mu), `GetRuntimeSources` (Server.mu) |
| `handleLogin` | `Login`: what it forgets of an earlier search (`ForgetResults`) |

A client whose record has no endpoint makes an entry with an empty `byClient`
(`addDynamicLocked`), which a search lists as well; `Withdraw` is the end of an
entry, when no source is left in it (`removeDynamicLocked`). The runtime index is
read in any order, as a range over a Go map may give it.
Only the goroutine of a session touches its results, so one client shows every
interleaving with the catalog and the index.

### Stream

A byte is a value and the set of keystream bytes it was XORed with; it can be
read when that set is empty. RC4 is a key and a position, the Diffie-Hellman
secret a set of two private numbers: what can go wrong here is which byte meets
which place of which keystream. `pc` is where `handleConn` stands: the first
byte, the steps of `serverObfuscatedHandshake`, a header, a body, a reply. A
`Read` returns any number of the bytes that have arrived; `io.ReadFull` is
repeated reads, or one action where nobody can observe the difference.
`prefix` is `prependConn.prefix`. `writer` is what a goroutine has encrypted and
not yet handed over, with `writeMu` held. The client is the one of
`obfuscate_test.go`, with faults; it may leave, or its connection break, at any
byte. What a client does is its script, with frames of any content. The one thing
assumed of scripts (`ScriptsAssumption`) is what tells the kinds apart: a plain
client begins with a protocol marker, any other client with another byte. A
dispatched frame gets one reply here, where handlers send one, several or none; the
other goroutines that write stand for the rest, as they may write before and after
every reply.

### Peers

`order` is the registry, `seen` the keys whose `lastSeen` is set, `round` the
addresses a round of pings has still to visit. `newPeerRegistry` reads the
configuration spec by spec (`Configure`); a list is learned entry by entry
(`Learn`, `Add`), since each `add` takes the registry's mutex for itself and a
round of pings may begin in between. The UDP read loop takes no other datagram
before it has learned the list, and none at all after a read error that is not
temporary (`ReadFails`): nothing starts the loop again (`Reading`, `reading`). A list or a
status may come from any address at any time, so loss, repetition and reordering need no action of
their own; only pings and their answers are followed. A configured peer is keyed
by its spelling in the configuration, everything else by `net.UDPAddr.String`. A
server list is a count of one byte and its entries; over TCP none is sent when there
is no entry (`ServerList`).

## 3. Runs

| run | bounds | result |
|---|---|---|
| `sessions_race_free` | 2 connections, one with an address whose ID the scan tries first, one without IPv4 address, logins that do not race, 2 files, cap 1, 3 logins | `TypeOK`, `UniqueIDs`, `OwnersConnected`, `OffersPreserved`, `IndexExact`, `RegistryLive`, `CapAcrossBatches`, `RevokedOnDisconnect` hold |
| `sessions_shared_loss` | 2 connections behind one address | `OffersPreserved` is violated |
| `locks` | 2 connections, one may stall, admin | `NoCircularWait`, `LocksReleased`, `AdminAnswered`, `RequestsServed` hold |
| `locks_relogin` | 2 connections, second logins | `AdminAnswered` is violated |
| `catalog_one` | 1 request at a time, both stores, 2 hashes, 2 contents, 4 changes, 2 faults | `ConfirmedIsStored`, `SuccessRepairs`, `RestartRestores` hold |
| `catalog_two` | 2 requests at a time, SQL | `ConfirmedIsStored` is violated |
| `limiter` | 1 or 2 callers, 3 addresses, table of 2, burst of one packet, 4 ticks | `TypeOK`, `RateBound`, `SweepBoundsTable`, `TimeMonotone`, `RefusalJustified`, `Implements` hold |
| `service` | 2 datagrams, 1 worker, queue of 1, 1 client | `RepliesPacked`, `SearchesAnswered`, `LoopReturns`, `ServiceEnds` hold |
| `search` | 1 client, 2 hashes, 3 records, about 180 requests, depth limit 2, 8-bit numbers, pages of 1, at most 2 results and 2 sources | `CatalogCoherent`, `UnderstoodAsSent`, `SummarySound`, `AnswerIsAsked`, `PagesExact`, `SourcesBest` hold |
| `search_by_hash` | the same | `SameAsScan` is violated |
| `stream` | numbers of 2 bytes, padding up to 2, up to 3 frames, 2 writers, 35 kinds of client | `DeliveredAsSent`, `OnlyAfterHandshake`, `RepliesReadable`, `HonestServed`, `ConnectionEnds` hold |
| `peers` | 3 addresses (one IPv6), one with a second spelling, 5 configurations, 4 lists, bytes of 3 values | `ListsDecode`, `TaughtByKnown`, `AnsweringPeersSeen` hold |

Why the bounds are enough for the cases that matter:

* In `sessions_race_free` the ID of the address is the first of the scan, as in the
  code, where the scan starts at the ID of 1.0.0.1 (`server.go:250`): the scan has to
  pass over the ID of a registered client, and a client whose address's ID is taken
  falls back on the scan. Three logins let a slot and an ID be used again after their
  owner left. A cap of one with two files makes the cap bite across batches. Only
  what `NoLoginRace` forbids is left out, two connections that hold the same ID
  between allocation and registration; `sessions_shared_loss` is that case.
* In `LockOrder` two connections and the admin goroutine give every pair of
  handlers and the three-party wait (reader, waiting writer, new reader). A
  client registered once does not come back; its mutex is no longer reachable.
* Two faults allow a failed save and a crash in one behaviour; four changes a
  change after each.
* Four ticks refill an empty bucket twice; three addresses over a table of two cross
  the limit before and after a sweep.
* A queue of one and two datagrams fill the queue while the worker is busy. The
  replies of `MCService` include an exact fit, one block too many and a block
  longer than a datagram.
* `MCSearch` has each kind of term, each operator of numbers and of Boolean
  expressions, trees that lean left and right, one level below and above the
  depth limit, in both encodings, cut and with a token too many. The names of its
  records share some trigrams of a keyword and not the keyword; one version of a
  file bears the text of its hash as its name, and one a format with a dot. Two results in pages of one give a last page and the
  empty page after it; a login and changes of both indexes may come in between.
  `MaxSources` 2 with three endpoints, one of them listed twice, makes the cap
  choose.
* `MCStream` has paddings of each length, packed frames within and beyond the
  limit, a protocol that is not served, a request that fails, and each fault of a
  handshake once. Three frames are enough for the last Read of the handshake to
  take none, part of one, one or more.
* With three values to a byte two entries are the most that can be counted, and a
  list of three wraps in the count as one of 256 does.

`RateBound`, `SweepBoundsTable` and `Implements` speak of limiters with one caller
(`OneCaller`), because they are not true of several: a caller that read the clock
early and gets the lock late may find that the bucket of its address was swept, and
makes a full one at its old time. For the limiters of connections and callbacks
only `TypeOK`, `TimeMonotone` and `RefusalJustified` are claimed.

`ListsDecode` claims all entries of a list only for as many as one byte counts; of a
longer list it claims that what is read of it is a beginning.

Deadlock is checked wherever the system cannot stop. `CatalogStore`, `Service`,
`Stream` and `Peers` may come to rest (the bounds are used up, the server is shut
down, the client waits or has left) and turn the check off.

### Findings

* Two logins may be given the same ID, because the first has not registered it when
  the second looks: two clients behind one IPv4 address (`sessions_shared_loss`),
  and as well a client whose ID came from the scan and one whose address has that
  ID. When one leaves, the other's offers go.
* A second login and a source lookup can wait for each other, and with them
  every user of `Server.mu`, `/healthz` included (`locks_relogin`).
* Two concurrent admin changes can be saved in the wrong order: a confirmed
  change is missing from the store (`catalog_two`).
* "Results are identical to a full scan" (`catalog.go:150`) is not so for a
  keyword that is a file's hash or hash link: `keywordMatchesRecord` accepts it,
  the index of names does not hold it (`search_by_hash`). `AnswerIsAsked` says
  that nothing else is lost.

Seen while modelling, without a run of their own:

* "On disconnect, dynamic shares are revoked automatically" (`README.md:349`):
  after a second login on one connection, what was offered under the first ID
  stays in the index.
* `Shutdown` leaves open the connections that have not logged in, and the
  handshake has no deadline, so a silent client keeps its goroutine.
  `ConnectionEnds` speaks of clients that leave.
* The depth limit is for the prefix form; the linear form, which is a loop, has
  none, and a prefix body that is too deep is only refused because it is not a
  linear body either (`UnderstoodAsSent`).
* Values of 2^63 and more in a numeric term are compared as negative ones.
* The dot before a format is taken off when a summary is collected
  (`protocol.go:426`) and once more when a record is compared with the summary
  (`protocol.go:580`), but only once when it is compared with the expression: a format
  asked for with two dots is required without any by the summary. `SummarySound` and
  `SummaryIsRequired` leave that field out. Today nothing follows from it:
  `matchesLegacySearch` is called only for a query without expression.
* `markSeen` speaks of configured peers but learned ones count as well, so they
  may teach further ones. A configured peer in an unusual spelling is never
  marked as seen, and once learned by its address is pinged twice in a round.
* The number of servers in a list is one byte (`server.go:690`). A list of more than 255
  is followed by more entries than its count says, and the reader drops the rest, all
  of them for 256; `server.go:660-661` has "a 1-byte server count followed by that
  many" entries.
* A read error that is not temporary ends the UDP read loop for good
  (`server_udp.go:115`); the server goes on without UDP.
* `materialize` appends to the `Endpoints` of the shared record while it holds only a
  read lock. They are the slice of the first record offered (`server.go:1088-1097`),
  of capacity 1 or nil: with one, readers write the same place of one array at the
  same time.

### Fairness

* `Sessions` (`RaceFreeSpec`): weak fairness for each handler in progress, as far as
  its step keeps logins from racing. The goroutine is runnable between its sections;
  clients owe nothing.
* `LockOrder`: strong fairness for each goroutine. Go's `Mutex` passes to a
  starved waiter, and an unlocked `RWMutex` admits the waiting readers before the
  next writer, so a lock that is free again and again is obtained.
* `Service`: weak fairness for `Serve`, the read loop in a handler, each worker
  and a `Shutdown` under way, and for the failing read of a closed socket. None
  for clients, datagrams or the call of `Shutdown`.
* `Stream`: weak fairness for the goroutine of the connection, for the end of a
  write and for the client up to the moment it leaves, which it may do at any
  time; strong fairness for the goroutine that waits for `writeMu`, since a Go
  `Mutex` passes to a starved waiter.
* `Peers`: weak fairness for the constructor, the list being learned and the
  ticker loop; strong fairness for the arrival of
  a ping at each address and of its answer: a network that loses some datagrams
  and not all of them, as long as the read loop lives. The only retry in the code is
  the next round.

## 4. Proofs

All for every value of the constants that satisfies the named assumptions. Most
listed theorems state a property that a run checks; the run shows that the model
reaches the cases, the theorem that no bound hides one. Where a theorem has a
hypothesis the run with a violation, or the text, says why it is needed. Six theorems
of `SearchProofs` carry the properties of `Search` that are over recursive
definitions; what they say and what they leave to TLC is there.

**SessionsProofs.** `CapHolds`: no session holds more files than the cap, under
no assumption on addresses or logins; two connections that share an ID may merge
into one session, and the cap is counted where the files are added (`CapKept`).
`TypeCorrect` rests on `TypeInv`: at every step that uses its
ID a session has one, and at every step that uses its target it has one.
`RegistryStaysLive` (without second logins) adds that an entry's session is
registered under that ID and still in service: the last section of
`unregisterClient` deletes only its own entry. The next four are about
behaviours without second logins (`~Relogin`) in which logins do not race
(`[]NoLoginRace`), for any addresses and any start of the scan; the run's
`RaceFreeSpec` describes such behaviours (`RaceFreeBehaviours`). `IDsAreUnique` has the
invariant `IdentityInv`: a session in service is in the registry (`InRegistry`), an ID
about to be registered is still free (`StillFree`), and the session found by ID is
always the handler's own (`OwnTarget`).
`OwnersStayConnected` follows from `OwnersInv` (what a session is about to
publish it offers; a drained session offers nothing; whoever is in the index is in
the registry and offers the file or is about to revoke it), `OffersStayPreserved`
from `PreservedInv` (whatever a session is about to take out of the index it has
withdrawn before), and `IndexStaysExact` from `ExactInv`, which adds to `OwnersInv`
that whoever is a source of a file is also counted for it, and that what the index
has of a session is published, unless the handler at work has still to replace or
clear it.
The hypothesis is needed: `sessions_shared_loss` is the counterexample.

**LockOrderProofs.** For any number of connections. `LocksAreReleased`: whoever
holds a lock has the operation that gives it back still in its script
(`ReleaseInv`, an invariant of the scripts of all handlers that taking and giving
back a lock preserves); second logins included. `NobodyWaitsInCircle` assumes that
nobody logs in twice (`~Relogin`; `locks_relogin` is the counterexample). Its
invariant `OrderInv` says what a goroutine may still take while it holds a lock
(`Shape`: it is in a handler, in a frame of an open connection, or at the login of
a connection that is still fresh) and that a connection's mutex is held over other
locks only by its own goroutine, and only before it is registered (`MuOwn`). So whoever waits for a
connection's mutex as a reader of `Server.mu` waits for one that takes nothing
more, and every set of goroutines has a member that waits for none of them.

**CatalogProofs.** With one request at a time (`OneAdmin`), `ConfirmedStaysStored`,
`RestartBringsBack` and `SuccessAlwaysRepairs`. The invariant `StoreInv`: what a
request saves is what is in memory, and is in the store when the request is to be
confirmed; the file is empty during a write of the JSON store and never broken
with SQL; a confirmed value is the one in memory while the server runs.
`catalog_two` is the counterexample for two requests.

**LimiterProofs.** For any number of callers: `TypeCorrect`, `TimeNeverGoesBack`,
and `RefusalsAreJustified`, whose invariant `RefusalInv` says that a
bucket remembers an admission at its own time or later or, while it holds less than a
packet costs, one no longer ago than its tokens took to gather. The other three properties are
conditional on one caller (`OneCaller`, which no step changes: `CallersStay`).
`ImplementsTokenBucket`, where the level of an address is what its bucket would
hold by now, full if there is none; `SweepInvisible` shows that a sweep changes no
level, `RefillIsLevel` that a refilled bucket is at its level; reading the clock is
then a step of time and `allow` an admission or a refusal. `RateIsBounded` rests on
`RateInv`: what an address was let in for since any earlier admission, and what it
could still be let in for, is paid by a burst and the time since. `TableIsBounded`
is inductive together with the refinement's invariant (`TableInv`): the table is
finite, and a newcomer that would take it past its limit sweeps it first.

**PeersProofs.** For any configuration and any lists: `PeersTaughtByKnown`,
from `RegistryInv`: no key twice, no key is ever removed, so the
source of a list is known until its last entry is added, and what is still to be
read of the configuration is configured. `PeersListsDecode`: a list that has only IPv4
addresses is what it is filtered to (`Only`), so the parser drops nothing that the
writer put in, and reads a beginning of the entries, all of them if the count did not
wrap.

**SearchProofs.** The first four theorems are about the part of `Search` they name: in
`Search` every step of the catalog is a `ChangeCatalog` or none, every step of a
session's results one of `PagingNext` or none, and every step of a source reply one of
`SourcesNext` or none.

* `CatalogStaysCoherent`, if the store holds each hash once (`HashesOnce`;
  `ReplaceAll` does not insist on it, and with two records of one hash the map has one
  and a delete removes one): `CatalogInv` says that list and map have the same records,
  each hash once.
* `PagesStayExact`: what was sent is the answer up to the offset.
* `SourcesStayBest`: each step keeps what the property needs. `Distinct` keeps one of
  each source, the stable sort puts those that can be connected to in front and loses
  none, and the cap takes from the end. All three choose positions of a list
  (`Selected`), and `SelectedIs` says once what such a choice is: the chosen positions
  in increasing order, each once.
* `IndexStaysComplete`: every file whose name has all keywords of a search is a
  candidate. The invariant `IndexInv` says that the index is the one built from the
  list; a keyword that occurs in a name has no trigram that the name has not
  (`SubstringTrigrams`). It does not need `HashesOnce`.

The other five are about expressions and requests, which are trees. The recursive
operators of `SearchRequest` and `Search` cannot be named in a module with theorems.
Each theorem is therefore about any function that satisfies the operator's equation
(`IsMatch`, `IsCollectSummary`, `IsParsePrefix`, `IsLinearRequest`, `IsEncode`,
`IsEncodeLinear`, `IsHeight`, `IsDenotes`) on a set of trees, or of bodies, of any
size. The set has a height (`AreExpressions`, `AreTrees`), which every finite tree has;
induction on it is a least counterexample among the natural numbers (`LeastNat`).

* `SummaryIsRequired`, the core of `SummarySound`: by induction, what an expression adds
  to a summary holds of every record that matches it (`Collects`).
* `IndexLosesOnlyHashes`, the core of `AnswerIsAsked`: with the one before and
  `IndexInv`, what a search does not look at it does not match, except by hash.
* `PrefixUnderstood`: what the parser reads of the encoding of a tree is the tree if it
  is well-formed, not too deep and all there, and nothing otherwise; in the first case
  it stops exactly behind it (`Reads`, `ReadAlong`: for every place in a body and every
  depth). The linear form cannot take over, because what it reads starts with a term
  (`LinearHead`).
* `LinearUnderstood`: as the last operator of a body is the root of its tree, removing
  two tokens leaves the body of the left side.
* `MatchedAsMeant`: what a well-formed tree is read as, in either form, matches the
  records that it denotes. With the two before it is what `UnderstoodAsSent` says of
  well-formed and refused requests. Numbers are below 2^63 (`SmallNumbers`).

**ServiceProofs.** `RepliesStayPacked`, for blocks of any lengths: the datagrams of
a reply follow each other and fit, and no way of cutting the reply is ahead of the
greedy one (`NoCutIsAhead`: up to where the last datagram ends, every permissible
way has at least as many cuts as there are datagrams; a buffer is sent only when it
would not fit with one block more, so every permissible way cuts within it).

**StreamProofs.** For clients, frames, sizes and paddings without bound and any
set of goroutines that write. Two facts about bytes carry everything: a byte sealed
twice at one place of a keystream is legible again (`SealedTwice`), and reading a
part of a stream moves keystream and bytes alike (`CryptIs`, `Split`).
`HandshakeInv` says, for each place of `handleConn`, what the client has
sent of its handshake and what of it is still under way, that a public number is read
whole, that both sides then have the same pair of keys and that whoever is past the
check of its half is honest. `RepliesInv` says that what was said is what the client
heard, what is under way and what the holder of `writeMu` has encrypted, in this
order, each byte sealed at the place at which the client will open it; at most one
goroutine holds such a byte. These two and the types are inductive only together: the
handshake writes to the connection only while nothing was said, and a reply of the
own goroutine is under way only behind a dispatched frame.
`OnlyHonestDispatched` and `RepliesStayReadable` follow. `FramesDeliveredAsSent` adds
four parts. The frames not yet sent are the end of the client's list (`TodoInv`);
buffers are empty outside the framing (`BuffersInv`); what was dispatched is what the
first frames mean, all acceptable, none but the last with a failing handler
(`HandledInv`); and behind the last dispatched frame the bytes of the frames sent are,
in order and without a gap, those in `header`, `buf` and `prefix`, then those under
way, each sealed at the place at which it will be opened, behind what is left of the
client's half (`FlowInv`). The last says where each frame begins in the stream with a
function of the frame's number (`Wire`), so no induction over the frames is needed: a
new frame extends the function, a dispatched one moves the base from one of its values
to the next.

Only model-checked:

* everything about liveness (`RevokedOnDisconnect`, `AdminAnswered`,
  `RequestsServed`, `SearchesAnswered`, `LoopReturns`, `ServiceEnds`,
  `HonestServed`, `ConnectionEnds`, `AnsweringPeersSeen`): fairness is out of the
  prover's reach;
* `UnderstoodAsSent`, `SummarySound`, `AnswerIsAsked` as properties of `Search`: the
  module declares recursive operators, which the prover does not take. Their core is
  proved as said above; that a session searches with the expression and the candidates
  these theorems speak of is what TLC checks, and so is that the order of an answer is
  that of the files.

## 5. Not modelled

* The layout of packets and tags and the packing of replies into compressed
  frames: byte layout without state. What a reader does with frames is in
  `Stream`.
* Trace, configuration, admin pages and audit entries: output, or values that
  are constants here. The admin requests that change the catalog are in
  `CatalogStore` and `Search`, those that read the server in `LockOrder`.
* UDP searches take the path of `Search` with a depth limit of their own; how
  their replies are queued and packed is in `Service`.
* Two records with one hash in a loaded JSON file.
* Counters and timestamps: nothing reads them back.

## 6. Plan

The components that have behaviour of their own are modelled, and every safety
property of a run is proved, or its core is (section 4). What could follow:

* a catalog with two records of one hash in the runs, if `ReplaceAll` comes to refuse or
  merge them;
* more than one caller of a limiter, if the clock comes to be read under the lock: the
  refinement would then hold for all limiters;
* the packing of replies into compressed frames, if it comes to keep state.
