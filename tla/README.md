# goLearning in TLA+

The repository holds three small Go systems. `geerpc` is an RPC framework: a client and a server that
multiplex calls over one connection, a registry with heartbeats, service discovery, and a client for many
servers. `geecache` is a distributed cache: an LRU cache on every node, consistent hashing, and a single
flight in front of every load. `geeorm` is an object-relational mapper over `database/sql`.

This directory specifies all three in TLA+, as far as they keep state: their concurrent core, the databases
and connections they drive, and what fails in between. TLC checks it on small instances, and TLAPS proves its
safety for every value of the constants.

All paths below are relative to `src/`.

## Inventory

| Component | State | Operations | What is hard | What makes it correct |
|---|---|---|---|---|
| geerpc client, `geerpc/client.go` | `seq`, `pending`, `closing`, `shutdown`, the shared `header`, two mutexes | `Call`, `Go`, `send`, `registerCall`, `removeCall`, `receive`, `terminateCalls`, `Close` | callers, `receive`, `terminateCalls` and expiring contexts race for one call | a call is completed once, with its own reply, and nobody waits for a connection that is lost |
| geerpc server, `geerpc/server.go` | per connection: stream, WaitGroup, `sending`; per request two goroutines, two channels, a timer | `serveCodec`, `readRequest`, `handleRequest`, `sendResponse` | timer against result, connection closed under handlers, a stream that gets out of step | one answer per request, no success that did not happen, no handler left when the connection is closed |
| handshake, `geerpc/client.go`, `geerpc/server.go` | the Option, the connect timer, the buffers of two readers | `XDial`, `Dial`, `DialHTTP`, `dialTimeout`, `NewHTTPClient`, `NewClient`, `Accept`, `ServeHTTP`, `ServeConn` | timer against dial, at any point of it; a JSON decoder and an HTTP server that read ahead | a failed dial leaves nothing open; what is read is what was sent, or the connection ends |
| service registration, `geerpc/service.go` | method tables | `Register`, `newService` | reflection | names denote methods |
| codecs, `geerpc/codec` | a buffered writer with a sticky error | `Write`, `ReadHeader`, `ReadBody` | a failed flush is swallowed | header and body stay paired |
| registry, `geerpc/registry/registry.go` | `servers` with the time of the last beat | `putServer`, `aliveServers`, `ServeHTTP`, `Heartbeat` | expiry against beats, lost beats | who beats is listed, who is gone is not |
| discovery, `geerpc/xclient/discovery*.go` | list, index, `lastUpdate`, mutex | `Refresh`, `Update`, `Get`, `GetAll` | the list is replaced between `Refresh` and the choice; an index of another list | the list is no older than the timeouts allow; round robin is fair |
| XClient, `geerpc/xclient/xclient.go` | `clients`, mutex; per Broadcast `e`, `reply`, a context | `dial`, `Call`, `Broadcast`, `Close` | one failure cancels the others, results are merged in any order; Clients break while cached | no Client is lost; the result is that of all calls, with the true cause |
| debug page, `geerpc/debug.go` | none | rendering | none | none |
| group and single flight, `geecache/geecache/geecache.go`, `singleflight/` | main cache, the map of calls | `Get`, `load`, `getLocally`, `getFromPeer`, `populateCache`, `Do` | joining a call that is ending; nodes that wait for each other | one load per key and node, shared by who waits; values stay with their keys |
| LRU cache, `geecache/geecache/lru/lru.go` | list, map, byte count | `Get`, `Add`, `RemoveOldest` | entries larger than the cache, updates that change the size | bytes, list and map agree; the limit holds; what goes is the oldest |
| consistent hash, `geecache/geecache/consistenthash` | ring, map | `Add`, `Get`, filled by `HTTPPool.Set` | wrap-around; virtual nodes that coincide, where the order of `Add` decides | a key has the next peer clockwise; a new peer moves no key between the others |
| HTTP pool, `geecache/geecache/http.go` | peers, getters | `Set`, `PickPeer`, `ServeHTTP`, `httpGetter.Get` | peers that are set after requests began; escaping | the peer serves the key that was asked for |
| geeorm session, `geeorm/session` | the clauses chained so far, the model, a transaction | `Model`, `Where`, `Limit`, `OrderBy`, `Insert`, `Find`, `First`, `Update`, `Delete`, `Count`, `CreateTable`, `DropTable`, `HasTable`, `Raw`, hooks, `Begin`, `Commit`, `Rollback` | hooks that use the session under construction; panics; a session that goes on after its transaction | a statement has its own clauses and table; none slips past its transaction |
| geeorm engine, `geeorm/geeorm.go` | none beside its sessions | `NewSession`, `Transaction`, `Migrate` | error, panic or failing commit; schema statements that fail half way, beside other sessions | a transaction ends once, and what is reported is what happened; no table is found half migrated |
| geeorm clause builder, `geeorm/clause` | the clauses of a statement | `Set`, `Build` | none beyond the session's | the clauses asked for |
| geeorm `schema`, `dialect`, `log` | tables of types | reflection, string building | none | none |

The parts meet as follows. `XClient` asks a `Discovery` for a server, dials it into its cache of Clients and
calls `Client.Call` on it; each Client talks to one served connection. A `GeeRegistryDiscovery` asks the
registry over HTTP under its own mutex, and servers beat towards that registry from a goroutine of their own.
`Handshake` is how a Client and a served connection come to share a stream. A geecache node asks its
consistent hash for the owner of a key and the owner over HTTP, whose handler calls the same `Group.Get`. A
geeorm `Session` builds statements and runs them on the database or in its transaction; `Transaction` and
`Migrate` of the engine drive one. `PROJECT.json` lists the hazards of this code line by line, with the
properties that cover them, and says what a property leaves out where it covers one in part.

## Modules

| Module | Models | Uses |
|---|---|---|
| `RpcClient` | one Client, its callers, `receive` and `Close` | implements `RpcCalls` |
| `RpcCalls` | what a Client promises those who share it: one outcome per call, with its own reply; a lost connection ends every call | |
| `RpcWire` | a Client with a record of what came over its connection | extends `RpcClient`, implements `RpcPeer` |
| `RpcPeer` | what the two ends of a connection promise each other: a request goes out once and is answered at most once, in any order | |
| `RpcServer` | one served connection | implements `RpcPeer` |
| `Registry` | the registry and the heartbeats | |
| `Discovery` | `GeeRegistryDiscovery` over `MultiServersDiscovery`, several goroutines | extends `Registry` |
| `XClient` | `dial`, `Call`, `Broadcast`, `Close` | its Clients do what `RpcCalls` says |
| `Stores` | what an addition to a cache may do to its contents | |
| `Cache` | what a cache promises: a key has its latest value or none | `Stores` |
| `Lru` | `lru.Cache` | implements `Cache` |
| `ConsistentHash` | the ring: `Add`, `Get`, `Set` as functions | |
| `HashRing` | a ring to which peers are added | `ConsistentHash` |
| `Node` | a node's cache and its ring, side by side | `Lru`, `HashRing` |
| `GeeCache` | `Group.Get` on several nodes | `Stores` for the cache of a node; `MCGeeCache` takes its owners from rings |
| `Handshake` | both ends of a connection until requests are read | |
| `Database` | *external*: what geeorm uses of `database/sql` and SQLite | |
| `OrmSession` | a `Session`: clauses, calls, hooks, transaction | extends `Database` |
| `OrmEngine` | sessions, `Transaction` and `Migrate` side by side | extends `OrmSession`, implements `AtomicDb` |
| `AtomicDb` | what geeorm promises of its transactions: all or nothing, at their end | |
| `*Proofs` | the theorems about the module they are named for | |
| `MC*` | instances for TLC | |

**State and actions.** A variable has the name of the field or local variable it stands for; `pc` says where a
goroutine is. A critical section that never blocks (`mu` of the client, of the cache, of single flight) is one
step. A mutex that is held across something that may block is a variable with an owner: `sending` of the
client and of the server's connection, `XClient.mu` during a dial, the mutex of the discovery during its
request. An unbuffered channel's send and receive are one step. A line whose effect others can see before the
next one runs is a step of its own: in `receive` between `removeCall` and the decoding of the body, in `Do`
between `wg.Done` and `delete`, in the client's `Write` between header and flush. Payloads are the identity of
the call or key they belong to; encoding, formatting and logging are left out. Variables marked *history*,
like `heard` and `turns` in `Discovery`, record what properties speak about; no guard reads them.

**RpcClient.** `Go`, `LockSending`, `RegisterCall`, `WriteHead`, `WriteTail` and their failures follow `send`;
`ReadHeader`, `ClaimCall`, `DeliverReply`, `DeliverError`, `DropAnswer` follow `receive`; `TerminateCalls`
takes both mutexes, as the code does. The peer answers what it has read at most once, in any order, and may
vanish.

**RpcCalls, RpcWire.** The Client seen from its two sides. For its users (`RpcCalls`) a call is sent, waits and
returns; it has an outcome once, however the sender, `receive`, `terminateCalls` and the context race for it;
`Lose` ends all who wait in one step, and afterwards a call can only be refused. `Seen` is the mapping: the
steps of `send` are one `Written` or `Refused`, those of `receive` one `Succeed` or `Fail`. For its peer a
request is its sequence number; `RpcWire` adds the record of answers that `RpcPeer` speaks of. Both ends of a
connection keep `RpcPeer`, and what `RpcClient` assumes of its peer is what it allows.

**RpcServer.** `Loop` is `serveCodec` with `readRequest` inlined; `Handler(r)` the outer goroutine of
`handleRequest` with its timer; `Sender(r)` the inner one. The stream is a sequence of headers and bodies, so
that reading one in place of the other is in the model.

**Registry and Discovery.** Time is a counter. A beat is sent in the instant it is due and arrives in that
instant or not at all; `Tick` waits for it. An answer of the registry is under way for at most `MaxDelay`.
`Refresh` is several steps because the mutex is held during the request; `Get` and `GetAll` then take the
mutex again, so that `Update` and other goroutines can come in between.

**XClient.** One goroutine per operation and server. A `Call` is a Broadcast to one server whose reply is not
followed: it goes to the Client uncloned (`xclient.go:85`), and who writes to it is shown in `RpcClient`. `Client.Call` is seen as `RpcCalls` shows it: `Sent` is
its `Written` or `Refused`, which may take for ever, `Ended` and `Answered` its `Return`, `Cancelled` its
`Cancel`; a Client is *broken* when it is `lost` and not `closed`. The mutex of Broadcast's `e`
and `replyDone` makes `Merge` one step.

**GeeCache.** Goroutine `<<u, d>>` is the user's `Get` (`d = 0`) or the handler `d` requests further on.
`Owner` is each node's consistent hash, agreed or not. `Received` is what a key has become when it arrives:
`httpGetter.Get` escapes it for a URL *query* and puts it into the *path*, so that a space arrives as `+`.
Eviction is any choice; `Lru` shows which.

**Lru.** The list is a sequence of entries, newest first, the byte count a number the actions keep, never
recomputed. `Add` includes its loop of evictions: `Evictions(c)[n]` is what `n` turns of it leave,
`Evicted(c)` what is left after the first number of turns that is enough.

**ConsistentHash, HashRing.** A virtual node is its hash, a number, and so is a key; crc32 is any choice of
numbers. `Inserted` is `append` and the sort; `Search` is the binary search of `sort.Search`, as many turns of
its loop, `Halved`, as there can be. In `HashRing` peers come in any order with any points; `Anew` is the new
ring with which `HTTPPool.Set` begins. `Node` puts cache and ring beside each other; they share nothing.

**Handshake.** The two directions of the wire are sequences of items: the CONNECT and its answer, the Option,
the newline behind it, requests, responses. A reader with a buffer may take more items than it decodes;
`hijacked` and `ahead` are what it took and nobody will see. The codec is *in step* when exactly the newline
was taken (gob then finds its first message; a JSON codec would not mind the newline, but the code has only
gob). `maker` is the goroutine of `dialTimeout` that makes the Client, and `Result` its rendezvous with the
select.

**Database, OrmSession, OrmEngine.** Rows have no contents: a change is an id, saying who made it, in
which call and transaction, and of a table the columns are kept, with whether they hold values or the NULLs of an added
column. A clause is known by the number of the call it was chained for, so that a statement built with another
call's condition shows. `Where`, `Limit` and `OrderBy` are one action: they leave a clause in `s.clause` in
the same way. A call is its before hooks, the statement, its after hooks; one hook statement per call. A panic
may leave a call (no model is set, a hook returned an error, arguments of `Update` are no pairs) and is
recovered by the user or ends `f`. `f` uses its session for statements and not for `Begin`, `Commit` or
`Rollback`. `Migrate` is one action per statement; the three of its last `Exec` may stop after one, two or
three. `s.tx` is never reset, as in the code. SQLite: one transaction holds changes at a time, and none is
committed under another that has read or written; a failed commit ends the `sql.Tx`, and go-sqlite3 rolls
back.

## What the runs check

Each passing run has a mutant per property in `PROJECT.json`: a plausible bug at the named definition that
makes that property fail.

| Run | Instance | Shows |
|---|---|---|
| `client` | two calls, a transport that holds one request | Callers, expiring contexts, `Close`, failing writes and a vanishing peer: `DoneOnce`, `OwnReply`, the refinements of `RpcCalls` (`ImplementsCalls`) and of `RpcPeer` (`ImplementsPeer`); and that who is inside `Call` when the connection is lost returns (`LostConnReleases`) |
| `server` | two good requests, one whose arguments do not decode, one of an unknown method | `AnsweredOnce`, `NoneLeftAtClose`, and every behaviour is one of `RpcPeer` (`ImplementsPeer`); with a handle timeout every request accepted is answered (`TimedRequestsAnswered`), and the connection is closed after the client has left (`ClosedAfterClient`) |
| `server_unknown` | one good, one unknown | *Violated*: a request refused for an unknown method costs the whole connection |
| `handshake` | TCP or HTTP on either side, three codecs, three requests | No request is skipped and nothing is lost with Hijack's buffer (`StreamInStep`); a failed dial leaves nothing open (`FailedDialLeavesNothing`) and with a timeout it returns (`DialReturns`) |
| `xclient` | a Broadcast to two servers beside a Call, two Clients to dial | `NoClientLost`, `CauseReported`, `ResultOfAll`, `ResultSetOnce`; and once its context is done an operation returns, unless one of its requests is never written (`FailFast`) |
| `xclient_first_success` | one Broadcast to two servers | *Violated*: a Broadcast returns as soon as one call has succeeded (`ReturnsOnFirstSuccess`) |
| `discovery` | two servers, two goroutines, a list set by hand | `HeartbeatKeepsListed`, `RoundRobinFair`, `DeadForgotten` |
| `registry_retry` | the same | *Violated*: a heartbeat that failed is not retried |
| `node_data` | a cache with three keys, three sizes, limits 0 (none) and 7; a ring of four points with three peers | `Accounting`, `WithinLimit`, `KeepsMostRecent`, `NoNeedlessEviction`, and the refinement of `Cache` (`ImplementsCache`); of the ring `NextClockwise`, `OrderIrrelevant` and `OthersKeep` |
| `geecache` | two nodes, two users, an agreed key, a disputed one, one with a space | `SingleFlight`, `WaitersShare`, `OwnKey`, `CachedAtOwner`, `WaitsEnd`; and that every `Get` of an agreed key returns (`EveryGetReturns`) |
| `geecache_spaced` | the same | *Violated*: a key with a space gets the value of another key |
| `orm` | two goroutines, any of them a session, a `Transaction` or a `Migrate`; two transactions | `ResultTells`, `StatementAsChained`, `MigrateWhole`, the refinement of `AtomicDb` (`ImplementsAtomicDb`), and that `Transaction` and `Migrate` end (`TransactionEnds`) |

### Why the bounds are enough

* `client`: with one place on the wire the second sender meets a full transport, waits in `Write` holding
  `sending`, and the first can be timed out, answered or cut off meanwhile. A third caller only repeats the
  second. The theorems hold for any number.
* `server`: each kind of request once and one kind twice; one place for answers makes responses block and
  contend for `sending`.
* `handshake`: three requests are enough for a server that has lost one, read one and has one before it. The
  client knows two of the three codecs and the server one of them, so that both, one and neither know it.
* `node_data`: with limit 7 an entry of the smallest value is 2 bytes, of the middle one 4, and the largest
  alone is over the limit; so one entry, two, or none at all fit, and an update can grow, shrink or evict
  itself. On the ring two points per peer may coincide, with each other or with another peer's, and every
  number of 0..3 is the hash of a key: before, on, between and behind the points. Cache and ring share no
  state, so `MCNode` has behaviours that use one of them.
* `geecache`: two users make a leader and a waiter; `MaxHops = 1` is the longest chain for keys whose owner is
  agreed (`OneHop`, proved for any bound) and cuts the circle of a disputed key after its first request. The
  disagreement is the code's: both rings hold the same peers with a point in common, and the peers are set in
  the order of a Go map (`geecache/main.go:69`). `OwnersByRing`, evaluated by TLC, says that the owners are
  those of the rings.
* `xclient`: two operations share Clients, two dials are enough to replace a broken one, and of two calls of a
  Broadcast one can fail while the other is cancelled or hangs. That the Call goes to `s1` and `c1` is dialled
  first only fixes names (symmetry cannot be declared where liveness is checked). 420,931 states.
* `discovery`: timeouts of 2 and a beat every tick let a server expire between two refreshes. Times end at 3,
  the first tick at which a list that is too old can be told from one that is not; `DeadForgotten` is tight
  there. The first index is 3, beyond the end of every list. Answers take no time in this run; the theorem has
  any delay. `ByHand` is one list, of one server, so that the list grows and shrinks under the index.
* `orm`: two goroutines are enough to race for the database, and two transactions for one goroutine to begin a
  second or for both to have one. One of them may make two calls: the second meets what the first left behind
  in the session. The table of `user` has a column too many and lacks one, so `Migrate` adds and drops; that
  of `log` is missing, so it can be created, and dropped, from beside. 491,242 states. A change
  is known by its call, so that a transaction applied in part would show.

### Deadlock

TLC looks for deadlock in all runs but those of `XClient`, where an operation whose request is never written
and whose context never ends may wait for ever, and `orm` and `handshake`, where every goroutine comes to its
end and the model stops; there the liveness properties say that it does. In `RpcClient`, `RpcServer` and
`GeeCache` the definition `Ended` is the only way to stop: it says in which states nothing is left to do.

### Fairness

* `RpcClient`: weak fairness of each caller and of `receive`: Go schedules goroutines, and its mutexes do not
  starve. Nothing of the peer, of contexts or of `Close`.
* `RpcServer`: weak fairness of the loop, of both goroutines of a request, the timer included, and of a client
  that reads its answers, as `receive` does. Nothing of service methods: they may never return.
* `GeeCache`: weak fairness of each goroutine and of `RegisterPeers`. This assumes that the source answers and
  that a node that was asked serves, as HTTP requests here have no timeout.
* `Handshake`: weak fairness of the client's goroutines, of the timer, and of the server's goroutine once it
  accepted the connection; it need not accept, nor does anybody have to break, close or send.
* `OrmEngine`: weak fairness of the statements and hooks that have begun, of the steps of `Migrate`, of `f`'s
  return and of the deferred function. Nothing says that `f` makes a call or that a statement succeeds.
* `XClient`: weak fairness of each goroutine and of the return of an operation; a dial ends at the latest
  after `ConnectTimeout`. Nothing of servers.

## Where code and comments disagree

1. **`server_unknown`** (`geerpc/server.go:160`). `readRequest` returns on an unknown method without reading
   the body. `serveCodec` means to go on (only an unreadable request closes the connection, `server.go:113`),
   but the next header is read from that body, fails, and ends the connection for all its calls.
2. **`geecache_spaced`** (`geecache/geecache/http.go:106`). `url.QueryEscape` is right for a query; the key is
   a part of the path (`http.go:50`), where `+` stays `+`. The peer serves another key.
3. **`registry_retry`** (`geerpc/registry/registry.go:116`). The comment (line 112) promises to retry a failed
   heartbeat until it is sent. The loop ends at the first failure, and the server expires while it runs.

4. **`xclient_first_success`** (`geerpc/xclient/xclient.go:130`). The comment of `Broadcast` (line 88) says
   that it returns as soon as the call of one server instance has succeeded. It waits for the calls of all
   servers, so one that hangs holds the result back; and one failure makes the result an error (`ResultOfAll`).

Met while modelling, and in the models, without a run of their own: `Client.Call` looks at its context only
after `send` has returned, so a call whose context has expired stays in `Write` while the peer does not read;
`receive` may decode into the reply variable of a call that has timed out; a group's `Get` that missed may
enter `Do` after the load it missed has ended and ask the source again; a dial after `XClient.Close` fills the
cache again. The goroutine behind a dial that timed out blocks for ever on its channel (`client.go:231`). Requests sent right behind the Option may be
swallowed by the JSON decoder (`server.go:81`), and the server then closes the connection. A session whose
transaction is over fails every later statement, a second `Begin` leaves the first transaction open with its
locks, and a hook that uses the session takes away the clauses of the statement it is a hook of.

## What is proved

Every theorem holds for all values of the constants that satisfy the named assumptions of the module: that
`None` and its like are nothing else, that bounds are natural numbers, and, where listed below, a fact the
code has. Each `*Proofs` module proves `Init => Inv`, `Inv /\ [Next]_vars => Inv'` action by action, and the
properties from `Inv`.

* **`RpcClientProofs`**. `TypeOK`, `DoneOnce`, `OwnReply`, `ShutdownSettlesAll`, `ReturnedNotPending`,
  `DoneHandsOver`, and that `RpcClient` implements `RpcCalls` and keeps `RpcPeer`, for any number of callers.
  `DoneOnce` alone is not inductive: what keeps sender, `receive` and `terminateCalls` apart is that a
  registered call has *one owner* (`OneOwner`: it is in `pending`, or claimed by `receive`, or settled) and
  that sequence numbers name one call everywhere, on the wire, in the shared header and in the map
  (`Numbered`, `Labelled`). `NotForgotten` gives `ShutdownSettlesAll`. That
  `terminateCalls` takes `sending` matters: no sender is between registering and the end of its `Write` when
  the map is walked (`SendingOwned`). For `RpcCalls`, each step is one its users see or none; that
  `TerminateCalls` is `Lose` means that the map it walks holds exactly the calls that wait without an outcome,
  which needs `NotForgotten`, `ReturnedNotPending` and, of a call that waits, that it was registered or refused
  (`Waiting`, an invariant beside `Inv`). For `RpcPeer` the mutex again carries the argument: the sender about
  to write is alone, and its number is above every number that has gone out or been answered
  (`NumberUnused`).
* **`RpcServerProofs`**. `TypeOK`, `AnsweredOnce`, `OkMeansReturned`, `NoneLeftAtClose`, `OwnArguments`, and
  that the server implements `RpcPeer` (`ImplementsPeer`), every step a step or a stutter of the peer.
  `HandedOver` counts the responses at each point of the handover between the two goroutines;
  `WaitGroupCounts` says that the counter is the number of handlers that run, which needs that set to be
  finite; `ReadInOrder` that a request is read once.
* **`GeeCacheProofs`**. `TypeOK`, `SingleFlight`, `WaitersShare`, `FlightsAreLive`, `OwnKey`, `CachedAtOwner`,
  `OneHop`, `WaitsEnd`, for any number of nodes, keys, users and hops. The map of calls and the goroutines in a load
  determine each other (`FlightsAreLive`, `Listed`), which gives `SingleFlight`; waiters hang on a call that
  is in the map or has a result (`Joins`); a handler serves what its caller sent (`Linked`), so that keys are
  carried from node to node (`KeysKept`). `ReceivedAssumption` is that a key that arrives changed is not
  changed again.
* **`XClientProofs`**. `TypeOK`, `NoClientLost`, `CauseReported`, `ResultOfAll`, `ResultSetOnce`. `Merged`
  says what error and reply are in terms of the calls that have ended so far, in whatever order; `Dialling`
  that who holds the mutex has found nothing usable cached.
* **`DiscoveryProofs`**. `TypeOK`, `HeartbeatKeepsListed`, `DeadForgotten`, `RoundRobinFair`, for any periods,
  timeouts, delays, lists and users. The period is assumed shorter than the timeout, as the default is made
  (`registry.go:108`). Ages are chained: who is in an answer was heard less than `Timeout` before it was given
  (`AnswerInTime`), the list is an answer at most `MaxDelay` later (`ListInTime`), a check found it younger
  than `UpdateTimeout`, or it has been replaced since (`CheckedInTime`). For round robin, the picks made so
  far read backwards through the list from the index (`TurnsFollowList`), which rests on a lemma about
  remainders, since the index may begin beyond the end.
* **`NodeProofs`**. All that `node_data` checks: of the cache, for any keys, sizes and limits, and that `Lru`
  implements `Cache`; of the ring, for any peers, numbers of points and hashes. `NodeIsBoth` puts them
  together. Both take induction: the byte count is a sum over a list, the loop of `Add` has any number of
  turns, and so have the binary search and the loops that fill a ring. The library's induction theorems are
  out of reach of the provers here; instead, the least number outside a set (`LeastOf`, from the
  well-foundedness of `<` and `WFMin`) gives induction over a *set* of numbers (`ByInduction`), and that gives
  functions defined by recursion (`Recursion`).
  * *Cache.* On these rest the sum of a concatenation (`BytesOfConcat`), with which moving, pushing and removing
    an entry are accounted for, and `LimitReached`: the loop stops, the map, list and count agree at each turn
    of it, and what is left is a first part of the list. `KeepsMostRecent` is the invariant that carries the
    refinement: list and history agree on every entry held.
  * *Ring.* A ring is sound when its list is sorted and holds the points the map knows (`Rings`); `Inserted`
    keeps that. Every point is the last added peer's that has it (`Owned`), at each turn of the loops of `Add`
    and `Set` (`RingOwned`). `SearchFinds`: at each turn of the search what is before `i` is below the hash and
    what is from `j` on is not, and `j - i` shrinks, so that `Len` turns are enough. Hence `GetFinds`, the
    peer of the next point clockwise, wrap-around included. `NextClockwise` and `OrderIrrelevant` follow for the rings of
    a state, `OthersKeep` by comparing the next point before and after `Add`. `Replicas` is assumed not to be 0
    (it is 50): a peer without points owns nothing.
* **`HandshakeProofs`**. `TypeOK` and `StreamInStep`, for any codecs and any number of requests. Until the
  Client is made the wire holds at most the CONNECT (`Asks`), and that has been taken when the client goes on
  (`TakenFirst`), so Hijack's buffer is empty. Then come the Option, its newline and the requests, in order
  (`Whole`); a server in step has before it what it has not read (`Left`), and one out of step never reads
  again.
* **`OrmProofs`**. `TypeOK`, `ResultTells`, `StatementAsChained`, `MigrateWhole`, and that `OrmEngine`
  implements `AtomicDb`, for any goroutines, models, columns, calls and transactions. Whatever an action does,
  to the database it does one of five things (`DbStep`); from that alone follows what is said of the database
  and of the other goroutines: no transaction is in two sessions (`Owned`), nothing is committed under a
  transaction that has read (`Isolated`), and a committed change was made in no transaction or in one that is
  over (`Marked`). Then each action is looked at for its own goroutine: where it is (`Placed`), whose
  condition its session holds (`Chains`), how far its migration is in its own view of the tables (`Migrates`,
  `Compared`). `Whole` says that what any transaction would commit now leaves every table whole.

`TypeOK`, `ShutdownSettlesAll`, `ReturnedNotPending` and `DoneHandsOver` (client), `OkMeansReturned` (server),
`FlightsAreLive` and `OneHop` (geecache) are proved and not listed in a run: the runs keep to the properties
that need TLC, and those of the client follow from its refinements. Every safety property of the passing runs
has a theorem.

### What is proved towards liveness

Only model-checked are the liveness properties (`LostConnReleases`, `TimedRequestsAnswered`,
`ClosedAfterClient`, `EveryGetReturns`, `FailFast`, `DialReturns`, `FailedDialLeavesNothing`,
`TransactionEnds`): fairness and `ENABLED` are out of the provers' reach. Proved, for all values of the
constants, is the safety behind most of them: in no reachable state does somebody wait in a circle, or for
somebody who has ended. The definitions named `...Goes`, and `Ready`, spell out the guards of a goroutine's
steps, where a theorem cannot say `ENABLED`.

* `RpcClient!WaitsEnd`: with the connection lost, a `Call` waits for the holder of `sending` or for `receive`
  only, `receive` at most for that holder, and the holder for nobody. Its one hard part is that `receive` has
  not stopped while a call needs it, which is `NotForgotten`.
* `RpcServer!WaitsEnd`: the loop, the handlers and the sender wait for the client, for a service method where
  there is no `HandleTimeout`, or for a goroutine that goes on; the loop in `wg.Wait` never for a handler that
  has ended (`WaitGroupCounts`). That the loop never waits for a body behind another request's header is
  `Paired`, an invariant beside `Inv`: behind each header in the stream is its body. It also gives
  `OwnArguments`: no method is called with the arguments of another request.
* `GeeCache!WaitsEnd`: on any number of nodes, a goroutine under way for a key the nodes agree on counts, at
  the third remove at most, on one that goes on: the leader of the load it joined, that leader's handler at
  the owner, the leader the handler joined. The owner asks nobody (`OwnersKept`, `Linked`), and a load lets its
  waiters go before it leaves the map (`LetGo`, an invariant beside `Inv`).
* `XClient!WaitsEnd`: whoever needs the client pool waits at most for a dial, which ends (`HeldToDial`: `mu` is
  held by nobody else); past that only for its own server, and for its answer only while the context is live.
* `Handshake!FailureReachesAll`: after a failed dial the connection is closed at the client's end (`Opened`),
  and from every place in the handshake that reaches the goroutine that makes the Client, `receive` and the
  server.

Of `OrmEngine` there is nothing of the kind to say: a statement that cannot get its lock fails.

## Not modelled

* Reflection (`service.go`): whether a name is known and whether arguments decode are parameters of
  `RpcServer`.
* The encodings themselves; HTML; the demo programs; generated protobuf code; `ByteView`.
* The tables of groups and of HTTP routes, filled before anything runs. Bad paths and unknown groups of
  `ServeHTTP`: every node has the same group.
* A `Getter` that panics inside `Do`; the torn read of `Group.peers` while `RegisterPeers` writes it.
* `runtime.Goexit` inside `f` of `Transaction`; an `f` that commits or rolls back its session itself.
* An answer of the registry with an error status, which `Refresh` would store as an empty list: a GET never
  gets one (`registry.go:79`).
* SQL text, rows and their contents, struct tags, types of SQLite; `NewEngine` and `Close`, before and after
  everything else.
* Bytes: what is written is an item, and readers take whole items.
* Delays of heartbeats: how much room the period must leave for them is not a question of this code.

## The plan

Built, in this order, each with its run, then its proofs: `RpcClient`, `RpcServer` with `RpcPeer`, `Lru` with
`Cache`, `GeeCache`, `XClient`, `Registry` and `Discovery`; then `Database`, `OrmSession` and `OrmEngine` with
`AtomicDb`, `Handshake`, and `ConsistentHash` with `HashRing`.

What could follow:

1. Composition: `RpcClient` and `RpcServer` as one specification over `RpcPeer`, behind `Handshake`; `XClient`
   over `Discovery`.
2. A measure that falls with every step of a lost connection, a transaction or a load: the other half of what
   the liveness properties need.
3. A `Getter` that panics, and `Goexit` in `f`, should the repository come to say what they ought to do.
