# Verification of recache

Recache is a distributed cache in front of a table of students and their scores.
A node answers `Get(group, key)` from its local cache, from another node when a
consistent-hash ring says that the key is not its own, or from the database.
This directory holds TLA+ modules that model its concurrent and algorithmic
core, the TLC configurations that check them on small instances, and proofs that
TLAPS checks for every instance.

    tlc -config flight.cfg MCSingleFlight.tla     # one run of the table below
    tlapm ClusterProofs.tla                       # one of the modules of section 4

## 1. Inventory

| part | source | state | operations | modelled by |
|---|---|---|---|---|
| single flight | `internal/service/singleflight/singleflight.go` | map `m` of calls in flight, `cache` of results with an expiry, one `RWMutex` | `Do`, `cacheCleaner` | `SingleFlight`, `FlightContract` |
| group | `internal/service/recache.go`, `group.go` | local cache, retriever, picker, flight | `Get`, `load`, `getLocally` | `Group` |
| cache | `internal/service/cache.go`, `policy/purge.go` | a strategy, one mutex | `set`, `get`, `put`, `New` | `Cache`, `CacheData` |
| lru, fifo | `internal/service/policy/{lru,fifo}` | list, map, byte count | `Get`, `Put`, eviction, `CleanUp` | `ListCache` |
| lfu | `internal/service/policy/lfu` | heap with index fields, map, byte count | the same | `LfuCache`, `PriorityQueue` |
| strategy interface | `internal/service/policy/interfaces` | | `Get`, `Put`, `CleanUp`, `Expired`, `Touch` | `CacheStrategy` (what every policy promises), `CacheData` |
| ring | `internal/service/consistenthash` | sorted hashes, map from hash to node | `AddNode`, `GetTruthNode`, `RemovePeer` | `ConsistentHash` |
| membership | `discovery3/discovery.go`, `grpc_picker.go` (`SetPeers`, `reconstruct`, `Pick`), `cmd/grpc/main.go` | endpoints in etcd, watch, update channel, ring | list, watch, notify, rebuild | `Membership` |
| server life cycle | `grpc_picker.go` (`Start`, `Stop`), `discovery3/registry.go` | mutex, `Status`, `stopsSignal`, listener, lease | start, stop, register, lose the lease, crash, restart | `Server` |
| gRPC transport | `grpc_picker.go` (`Pick`, `Get`), `grpc_fetcher.go`, `discovery3/discovery.go` (`Discovery`) | rings of the nodes, calls in progress | `Pick`, `Fetch`, the handler | `Cluster` |
| HTTP transport | `http_pick.go`, `http_fetcher.go`, `http_helper.go`, `cmd/http` | the same | `Pick`, `Fetch`, `UpdatePeers`, `ServeHTTP`, the api handler | `Cluster` |
| student table | `internal/pkg/student/{dao,service,model}` | the rows | `ShowStudentInfo`, `CreateStudent` | `Group` (`db`) |
| the rest | connection and migration of the database, config, logger, validation, generated message types, `discovery1`, `discovery2`, `client_put.go` | | | not modelled |

How they interact. A handler goroutine of the gRPC server calls `Group.Get`. On
a miss it calls `SingleFlight.Do` with a function that asks the `Server` (a
`Picker`) who owns the key, fetches from that peer or falls back to the
database, and stores what the database returned in the local cache under the
cache's own mutex. A fetch is a `Get` of another node, with a flight, a ring and
a cache of its own, so calls chain, and can come back to where they began. `Do`
holds its `RWMutex` only for lookups and updates of its two maps; goroutines
wait for each other on the `WaitGroup` of a call. The server's ring is shared,
under its mutex, with the goroutine `SetPeers` starts (the *updater*), which
receives from the update channel of the watcher goroutine and from
`stopsSignal`. The goroutine `Start` starts (the *registrar*) keeps the lease in
etcd, also receives from `stopsSignal`, and closes that channel and the listener
when it ends.

What is hard here, and not reached by the unit tests: overlapping flights of one
key; what a flight does to the map entries of another; panics of the function in
flight; values read before and stored after something changed; three places that
must agree on the cost of an entry; index fields that must follow every move in
a heap; loops over structures they modify; a ring that must not depend on the
order nodes came in; membership changes between a list and a watch; one channel
with two receivers, a sender that holds a mutex, and a close in between; a lease
that outlives its process; flights of several nodes that wait for each other
through calls between the nodes. `PROJECT.json` lists these as hazards, each at
its line.

What makes each part correct:

- *single flight*: no wakeup is lost; a finished call is never found by a later
  caller; a result is the caller's own or that of a run that was still in
  progress when the caller came; every `Do` returns.
- *nodes together*: what peers return is what a `Group` counts on; every answer
  can be traced to a read of the row asked for; every `Get` returns, whatever
  circle its call closes and whatever becomes of the other nodes.
- *group*: not-found means a row was looked for and not there; only what this
  node read is cached; newer values are not overwritten by older ones, except as
  overlapping flights allow.
- *strategies*: list or heap, map and byte count agree; the budget holds;
  evictions are no more than needed and follow the policy; the last value put
  for a key is the one kept.
- *ring*: owners are a function of the set of nodes; adding moves keys to the
  new nodes only.
- *membership*: a ring is a state the endpoints were in; a change is followed.
- *server*: `Stop` does not hang; the mutex has one holder; a server that lost
  its registration ends; a restarted server stays registered, and the endpoint
  of a dead one goes.

## 2. Modules and their correspondence with the code

`PROJECT.json` maps every definition to its lines. Operators whose comment says
"Fault variant of X" are not part of any specification: each is X with one
plausible bug, kept to show that a property notices it.

**SingleFlight.** One action per critical section of `sf.mu` and one for each
step between two: `Do` (enter), `CacheHit` / `Join` / `Miss` (under the read
lock), `Claim` (registers a call), `FnReturns` / `FnPanics`, `Publish`
(`wg.Done`), `Retire` (delete from `m`, cache, return), `Wake` (`wg.Wait`
returns), and `Expire` and `Sweep` for the result cache. A request names the
call it would allocate. Results name the run that produced them, so that
staleness is visible. `before[r]` is a history variable: the runs that were over
when `r` called `Do`. Readers of the `RWMutex` change nothing shared, so a
section under the read lock is atomic against writers, as an action is. `Claim`
overwrites and `Retire` deletes whatever `m` holds, as the code does, and it is
the *failed* result that is cached, and later returned with a nil error.

**FlightContract.** The abstract specification: no map, no lock, no cache. A
call runs its function at most once and returns its own outcome, that of a run
for its key that was not over when it was called, or the masked value of a
failed run that was. `SingleFlight!KeepsContract` is the refinement: a request
is "open" inside `Do`, what runs produced is `call`, and retired runs are those
whose leader has returned.

**Group** extends `SingleFlight` and replaces the abstract `fn` by the closure
of `load`: `Pick`, `FetchSucceeds` / `FetchFails`, `Retrieve` (the database
read), `Store` (the put that follows it, at another moment). A key is a pair of
a node and a name, so that the maps of the flights and the caches are those of
all nodes side by side: nodes do not interfere except through the table `db`.
Values are versions of a row; `CreateStudent` inserts it, and `Update` is
another program writing the table. `Put` evicts any keys of that node: `Group`
relies only on what `CacheStrategy` promises of a policy. What a fetch returns
is left open: any version the row has had, or nothing. `over[r]` is the history
of runs over when r's run began.

**Cluster** extends `Group` with the other end of a fetch. `transport` says
which of the two programs the nodes run. `Call` makes a request of a peer, which
is a `Get` like any other (`child[r]`); `Answered` and `FetchFails` end the
fetch. Over gRPC the peer is *any* node, the caller included, because `Fetch`
dials the service; over HTTP it is the owner, whose name for the key the
constant `Wire` gives (the key is escaped as a query and unescaped as a path). A
fetch may fail at any time, its peer unaware: that is the timeout of a second, a
reset connection, or an error. `owner` holds each node's own idea of the owners
(`Rings`): over gRPC they may differ, as `Membership` shows, over HTTP the list
is fixed. A node may crash or hang. Over HTTP a panic of the retriever is
recovered by net/http and strands the flight, over gRPC it is a crash.
`Cluster!KeepsGroup` is the refinement: with peers that are the nodes
themselves, a step of `Cluster` is a step of `Group`, with no mapping to give
since `Cluster` only adds variables.

**CacheStrategy** is what `strategy.go` promises of any policy: a map under a
budget, evictions only in a `Put` that needs them and no more than it needs, the
last value put, `CleanUp` removing some entries. `ListCache` and `LfuCache` are
both shown to implement it.

**Cache** gives a cache the strategy that `policy.New` chooses for a name (an
unknown name gets lfu) and takes the steps of that strategy, instances of
`ListCache` and `LfuCache` on shared variables. The mutex of `cache.go` makes
each method one step. **CacheData** is what they have in common.

**ListCache** holds lru and fifo. Their code is the same but for `Get` and for
the `Put` of a key that is there. `EvictFrom` has no successor if no number of
evictions makes the rest fit, when the loop of the code would not end; that it
always has one is the theorem `PutAlwaysEnds`. `CleanUp` does what the code
does: `ele.Next()` of a removed element is nil, so the walk ends after one
removal.

**PriorityQueue, LfuCache.** `Less`, `Swap`, `Push`, `Pop` are priorityqueue.go;
`Up`, `Down`, `HeapFix`, `HeapRemove` are `container/heap`, external code. The
index field is state of its own, and `Refer` and `CleanSlot` go by it. Each loop
is one operator for a turn (`Rise`, `Sink`, `Evict`, `CleanSlot`) and a
recursive function from the number of turns to the state after them (`Up`,
`Down`, `Shrink`, `CleanSlots`), as many turns as there are elements; a turn in
which the loop of the code is over changes nothing. `CleanUp` goes over the
slots of the heap as it was when the loop began; a slot that was emptied
meanwhile is the nil dereference of the code (`panicked`).

**ConsistentHash.** The hash function is chosen at the start from
`HashFunctions`. `Sorted` is `sort.Ints`, by the ranks of the numbers.
`RemovePeer` models the removal from the slice being ranged over element by
element (`Scan`), including the out-of-bounds slice expression, for every order
in which Go may range over the map. A lookup on an empty ring, whose index is
taken modulo zero, gives `Panic`.

**Membership.** One server against the endpoints in etcd: the watcher goroutine,
main's list and `SetPeers`, the updater's list and rebuild. The ring is known by
its set of nodes, which `ConsistentHash!OwnersAgree` justifies. The watch may
end, or never begin (`WatchEnds`). `lost` is a history variable: a change came
after main's list while there was no watch, or a list that an event asked for
failed; the next successful list resets it. `Pick` is taken when it panics, on
an empty ring; otherwise it changes nothing. Endpoints may be there at the
start, the server's own included, of an earlier life whose lease has not ended.

**Server.** The control of `Start`, `Stop`, the updater and the registrar, over
several lives of the process. `stopsSignal` is unbuffered: a send happens
together with one of its two receivers, or panics on the closed channel. `mu` is
modelled because `Stop` sends with the mutex held, and `StartFails` returns with
it. Both receivers poll (2 s and 200 ms); a poll that finds nothing changes
nothing and is no action. `Register` is taken step by step, since a crash may
fall between any two: `Grant`, `EtcdAdd`, `KeepAlive`, the watch of the two
channels, `EtcdDel`. etcd keeps `leases`, named by the life that was granted
them, and `endpoint`, the life whose lease the endpoint of this address is tied
to. A lease ends (`LeaseEnds`) with its endpoint; it must end when nobody keeps
it alive. `Restart` resets everything but etcd.

MC modules only give constants their values.

## 3. Runs

States and times are those of a two-worker run on a small machine.

| run | module | bounds | states | shows |
|---|---|---|---|---|
| `flight` | MCSingleFlight | 3 calls, 2 keys, panics allowed | 97,609 | `TypeOK`, `RegisteredCallIsUnretired`, `WaitIsJustified`, `ResultIsFresh`; `KeepsContract`; under fairness `DoReturns`, `ExpiredIsSwept` |
| `flight_once` | MCSingleFlight | 2 calls, 1 key | | **violated**: `AtMostOneFlight` |
| `cache` | MCCache | each strategy, 4 keys, 2 lengths of key and of value, 9 bytes, times 0 to 1, counts to 2 | 29,322 | `TypeOK`, `Coherent`, `BytesAccounted`, `HeapOrdered`, `KeepsStrategy`, `PutStays`, `KeepsArrivalOrder`, `EvictsLeastFrequent`, `CleanUpSparesFresh` |
| `lru_order` | MCCache | as `cache` | | **violated**: `EvictsLeastRecentlyUsed` |
| `ring` | MCConsistentHash | 3 nodes, 2 replicas, 7 hashes: every injective hash function and every function to 3 hashes | 69,816 | `TypeOK`, `OwnersAgree`, `AddMovesOnlyToNew` |
| `view` | MCMembership | 3 nodes, 4 changes, lists may fail and the watch end | 124,560 | `TypeOK`, `RingIsSnapshot`, `BehindIsNotified`; under fairness `RingFollowsUnlessLost` |
| `view_missed` | MCMembership | 2 nodes, 2 changes, etcd does not fail | | **violated**: `RingFollows` |
| `server` | MCServer | 2 lives, 2 other callers of Stop, 1 update | 20,828 | `TypeOK` (with mutual exclusion), `RegistrationHolds`; under fairness `StopReturns`, `EndsUnregistered`, `DeadEndpointGoes` |
| `server_lease` | MCServer | 1 life, no other callers | | **violated**: `NeverPanics` |
| `cluster` | MCCluster | 3 requests, 2 nodes, 1 name, gRPC, rings that may differ, a row inserted during the run, reads may fail | 1,410,079 | `CTypeOK`, `NotFoundIsHonest`, `CachedWasRead`, `AnswerHasSource`, `StaleStoreNeedsOverlap`, `KeepsGroup` |
| `cluster_ends` | MCCluster | 3 requests, 2 nodes, 1 name, gRPC and HTTP, a row that is there, reads may panic, one node may crash or hang | 1,344,102 | `NoDistributedDeadlock`, `KeepsGroup`; under fairness `GetReturns` |
| `cluster_owner` | MCCluster | 2 requests over gRPC | | **violated**: `FetchReachesOwner` |

Why the bounds are enough. Three calls are two overlapping flights of a key and
one more that joins, misses or comes late; two keys show that keys do not
interfere. The safety properties of every passing run are proved for any number
of requests, nodes, names, hashes and entries (section 4), so that these bounds
matter for what is only model-checked, which is liveness. In the cluster runs,
three requests are a caller, the request it makes of a peer, and one more that
joins either, overlaps, or is the request the peer makes in turn. A node that
calls itself and joins its own flight takes two requests, two nodes that call
each other three. A row that is inserted during the run gives an older and a
newer value, which is all `StaleStoreNeedsOverlap` compares. The nodes of
`cluster` speak gRPC, where more can happen: rings differ, and any node may be
the one dialled. HTTP nodes run in `cluster_ends`, where `KeepsGroup` shows that
their peers, too, are what `Group` allows; the path of a miss, a failed read or
a `Store` is the same code for both. Crashes and hangs are left to
`cluster_ends`: to the safety properties of `cluster` they add nothing, since
they only stop requests, and a fetch may fail at any time without them. Two
lives of a server are enough for a lease to outlive its process, and for its end
to meet the next registration. Four keys of unequal cost overfill the list
caches so that one `Put` evicts none, one or several entries, and a heap of four
has an element with two children, one of which is the last. Three nodes with two
virtual nodes each interleave on the ring, and three hashes for six virtual
nodes force collisions. Four changes let endpoints come and go during the start,
a list and a rebuild. Deadlock is not checked where the system may stop: every
call may be over, or the process may have ended, as each cfg says.

Symmetry is used in the runs `cluster` and `ring` only, which check no liveness.
In `cluster_ends`, where it would be unsound, the constant operator `Unused`
breaks the symmetry of requests instead: of the requests not made yet, the next
is always the first (`FirstOf`). They are identities without a past, so this
loses no behaviour but for a renaming; `cluster` lets any be next (`AnyOf`).

Named bounds: `MaxVersion` (versions of a row), `MaxTime` (clock), `MaxCount`
(references of an lfu entry), `MaxRing`, `MaxHash`, `MaxChanges`, `MaxUpdates`,
`MaxLives`.

### Fairness

- `SingleFlight!Fairness`: every goroutine inside `Do` goes on (weak fairness
  per request), because Go runs runnable goroutines and `sync.RWMutex` starves
  neither side; `fn` ends, because the database answers and `Fetch` has a
  timeout of 1 s; the cleaner's ticker ticks. Nothing makes a client call, and
  nothing makes `fn` succeed.
- `Cluster!CFairness`: a goroutine of a node that is up goes on (weak fairness
  per request). A fetch ends when its peer has answered or when it is certain to
  fail: over gRPC always, because of the context with its timeout of 1 s; over
  HTTP, which has no timeout, when the peer answers with an error or is down.
  The database answers, if only with an error.
- `Membership!Fairness`: the watcher, main and the updater go on; etcd answers a
  list, be it with an error. Endpoints need not change.
- `Server!Fairness`: main, updater and registrar go on; each `Stop` has strong
  fairness, since mutex and channel waiters are queued first come, first served.
  etcd ends a lease that nobody keeps alive, and the client closes the keepalive
  channel of a lease that has ended. Crashing, being called, being updated and
  being restarted are not fair.

### What the violated runs show

1. `flight_once`: `Do` looks a call up under the read lock, releases it, and
   registers its own call under the write lock without looking again. Two
   callers both run `fn`. The README and recache.go promise one request per key.
   The consequences are bounded by what does hold: `StaleStoreNeedsOverlap`,
   `ResultIsFresh`.
2. `lru_order`: `Get` moves to the front, `Put` to the back, and eviction takes
   the front: the entry that was just read goes first.
3. `view_missed`: the watch is set up by a goroutine beside the first list; a
   change in between is never seen.
4. `server_lease`: `Register` fails or loses its lease, the registrar closes
   `stopsSignal`, the updater takes that for a stop signal, and `Stop` sends on
   the closed channel.
5. `cluster_owner`: `SetPeers` gives every peer the same client, which dials the
   service. The ring only decides *whether* a node asks the others, not whom.
   What still holds: `KeepsGroup`, `AnswerHasSource`, `GetReturns`.

Further behaviour that the modules contain, and that no run singles out: the
flight cache keeps failures, returned later as successes with an empty value
(`CacheHit`, `ReturnMasked`), a database error being one of them; a hit on a
negative entry is a success with an empty value (`GetHit`), and the entry has no
expiry, though the comment in group.go wishes for one; a panic strands the
callers that joined (`DoReturns`, `GetReturns` make the exception); a program
over HTTP that has not opened the database, as `cmd/http`, has nothing but such
panics; over HTTP a peer looks up another name for a key with a space (`Wire`);
`CleanUp` of the list caches stops after one entry and that of lfu may meet a
nil slot; `RemovePeer` may leave keys to nobody or slice out of bounds when
hashes collide; an empty list of endpoints makes the next `Pick` panic. And the
updater may take the stop signal meant for the registrar (`SendToUpdater`): the
server then counts as stopped, its ring and clients are gone, and its lease is
kept alive, though the comments at grpc_picker.go:38, :171 and :234 say that the
signal makes the registry revoke the service and stop the keepalive. No program
of the repository calls `Stop` while `Register` runs, but it is exported.

## 4. Proofs

Eight modules hold proofs. `ClusterProofs` is about `SingleFlight`, `Group` and
`Cluster`, one after the other, each using what is proved of those before;
`CacheDataProofs`, `ListCacheProofs`, `LfuCacheProofs`, `CacheProofs`,
`ConsistentHashProofs`, `MembershipProofs` and `ServerProofs` are about the
module they are named after. They hold for every value of the constants,
infinite sets of requests or keys included. Every inductive invariant was
model-checked on the instance of the module's run before it was proved.

### What the constants are assumed to be

Each module names its assumptions, and TLC evaluates them on every instance.
`ConstantsDiffer`, `GroupConstants`, `ServerConstants` and the others keep apart
the values that Go keeps apart by type (nil, errors, values), and make bounds
numbers. Those that say something of the system are:

- `GroupConstants`: `Wire`, which escapes and unescapes a name, changes a name
  no further once it has changed it (a `+` in a path stays a `+`). The not-found
  error is none of the others.
- `ClusterConstants`: `Unused`, the order in which requests are named, chooses
  among the unused.
- `ServerConstants`: the process is started at least once.
- `RingConstants`: there is at least one virtual node per node, and no node has
  the empty name, which stands for an absent entry of `hashMap`. `Panic` is the
  outcome of a lookup that panics, and no name.
- `MembershipConstants`: the server is one of the nodes.
- `CacheConstants`: lengths, sizes and times are numbers, and the bound
  `MaxCount` on the references to an entry is not zero, for an entry is
  referenced when it is put.

### SingleFlight

| theorem | statement |
|---|---|
| `TypeCorrect` | `Spec => []TypeOK` |
| `RegisteredIsUnretired` | `Spec => []RegisteredCallIsUnretired` |
| `NoLostWakeup` | `Spec => []WaitIsJustified` |
| `NoStaleResult` | `Spec => []ResultIsFresh` |
| `ImplementsContract` | `Spec => KeepsContract` |

The argument is in three layers, each an inductive invariant that assumes the
ones below:

- `TypeInv`: `TypeOK` and what each `pc` says of the request's own fields (a key
  from "lookup" on, an outcome from "publish" on). This is what makes `TypeOK`
  inductive.
- `WaitInv`: adds the two invariants on `m` and on waiters. They hold up each
  other: a waiter's call was found in `m`, so its leader had not left `Do`, and
  a leader passes "publish" before "retire" and so is in `wgDone` by then.
- `OriginInv`: where results come from. A returned result is the request's own
  outcome, one of a call that was not over at entry, or a cached failure; a
  cached entry is the value of a failed run that is over; `before` only holds
  runs that are over. From it follow freshness and each step of the refinement.

The refinement maps every action to a step of the contract (`Do` to `Call`,
`FnReturns` to `Execute`, `Retire` to `ReturnOwn`, `Wake` to `ReturnShared`,
`CacheHit` to `ReturnMasked`) or to a stutter.

### Group

| theorem | statement |
|---|---|
| `GroupTypeCorrect` | `GSpec => []GTypeOK` |
| `NotFoundAlwaysHonest` | `GSpec => []NotFoundIsHonest` |
| `CachedAlwaysRead` | `GSpec => []CachedWasRead` |
| `StaleStoreOverlaps` | `GSpec => StaleStoreNeedsOverlap` |
| `VersionsAlwaysExist` | `GSpec => []VersionsExist` |

- `GTypeInv`: the types, and that the flight cache holds nothing but the empty
  value: a failed run has no other.
- `GFlightInv` adds the invariants of `WaitInv`. The steps of the flight are
  those of `SingleFlight` with another function, so its lemmas are used again; a
  hit in the local cache and the refusal of the empty key are steps of `Do` that
  `SingleFlight` does not have, and preserve them.
- `HistoryInv` adds what was read when. `ReadFacts`: a run past "pick" has
  begun, what it read is no newer than the row, and a run that reports not-found
  has looked and found none. `OverFacts`: while a run is about to store, no run
  for its key that was over when it began has read a newer version. This is what
  the stale store contradicts; it is inductive because versions only grow and a
  run reads after it began. `NotFoundHasRun`: behind a returned not-found is a
  run that was not over when the caller came, which the layers on `m` and on
  waiters imply at the moment of return.
- `VersionsExist`: a version anybody holds is no newer than the row. This is
  what the refinement by `Cluster` needs of answers.

### Cluster

| theorem | statement |
|---|---|
| `ClusterTypeCorrect` | `CSpec => []CTypeOK` |
| `ClusterImplementsGroup` | `CSpec => KeepsGroup` |
| `ClusterKeepsPromises` | `CSpec =>` what is proved of `Group`, by the refinement |
| `AnswerAlwaysHasSource` | `CSpec => []AnswerHasSource` |
| `NeverDistributedDeadlock` | `CSpec => []NoDistributedDeadlock` |

`ClusterInv` is `HistoryInv`, `VersionsExist` and `ChildFacts`: a request made
of a peer stays what it was made for. With it, a step of `Cluster` is one of
`Group`: only `Answered` needs an argument, that what the peer returned is one
of the things `Group` lets a peer answer.

`Sourced` follows values through flights, flight caches and calls. It needs that
a name the wire has changed stays as it is, or a chain of calls could end at the
row of a third name.

The proof that no set of requests waits in a circle is a rank argument.
`FetchIsAway`: over HTTP the nodes agree on the owners and only ask another
node. `Distance` is the number of calls that may still follow: 0 at the owner of
a name, 1 elsewhere, 2 if the wire is going to change the name. Whoever waits
for a flight waits for a run, in one step (`FlightLeadsToFetch`), and a run that
fetches waits, at the other end, for one that is nearer (`FetchIsNearer`), so a
circle would have no least distance. Over gRPC the rings differ and any node may
be dialled: there the timeout ends the circle, which is the liveness property
`GetReturns`.

### ListCache

| theorem | statement |
|---|---|
| `ListTypeCorrect`, `ListAlwaysCoherent`, `ListAlwaysAccounted` | `Spec => []TypeOK`, `[]Coherent`, `[]BytesAccounted` |
| `PutAlwaysEnds` | `Spec => []PutLoopEnds` |
| `PutAlwaysStays`, `CleanUpAlwaysSparesFresh`, `AlwaysKeepsArrivalOrder` | `Spec => [][PutStays]_vars` and so on |
| `ListImplementsStrategy` | `Spec => KeepsStrategy` |

They hold for any keys, values and lengths. The inductive invariant is the
conjunction of the three; none is inductive alone, for an eviction subtracts the
cost of an element found through the list, and a `Put` finds its element through
the map. `PutLoopEnds` says of every `Put` that could come that some number of
evictions makes the rest fit: the count after evicting everything is zero only
because it was the sum along the list.

The refinement takes the contents of the cache to be the function from keys to
values that the list is. `CacheStrategy` prices contents by a sum over the *set*
of keys, the code counts along the *list*: `SumIsBytes` of `CacheDataProofs`
equates the two, as long as keys differ. That and the other lemmas of
`CacheDataProofs` need induction, over the positions of a list and over the size
of a set. It is not taken from an induction theorem with an operator as a
parameter, but from the least element of a set of numbers (`LeastExists`, from
the library's `WFMin`), applied to the set of positions where the claim fails
(`IntervalInduction`).

### LfuCache

| theorem | statement |
|---|---|
| `LfuTypeCorrect`, `LfuAlwaysCoherent`, `LfuAlwaysOrdered`, `LfuAlwaysAccounted` | `Spec => []TypeOK`, `[]Coherent`, `[]HeapOrdered`, `[]BytesAccounted` |
| `LfuPutAlwaysEnds` | `Spec => []PutLoopEnds` |
| `LfuAlwaysEvictsLeastFrequent`, `LfuCleanUpAlwaysSparesFresh` | `Spec => [][EvictsLeastFrequent]_vars`, `[][CleanUpSparesFresh]_vars` |
| `LfuImplementsStrategy` | `Spec => KeepsStrategy` |

They hold for a heap of any size. The inductive invariant is the conjunction of
the first four. The order of the heap alone is not inductive: an entry is found
by its index field and sifted from there, which restores the order only if that
is the place where the entry was changed, and the field is right only if every
swap, pop and push before has kept it so.

- *Sifting.* `Less` compares one number, `Rank` (`LessIsRank`). `UpReady`,
  `DownReady` and `FixReady` say that a heap is in order but for one element
  that may be too low, too high, or either. A turn of `up` or `down` keeps
  `UpReady` or `DownReady` at the place where the element goes
  (`RiseKeepsReady`, `SinkKeepsReady`); a turn that changes nothing means that
  the heap is in order, and as the place only moves up, or only down, the loop
  gets there within as many turns as there are elements (`UpEffect`,
  `DownEffect`). Hence `HeapPushEffect`, `HeapPopEffect`, `HeapFixEffect` and
  `HeapRemoveEffect`: each gives a heap again, with the entries that it should
  have.
- *What sifting leaves alone.* `Bares` are the entries without their index
  fields, as a set. Swaps only shuffle them (`SwapShuffles`), and keys, contents
  and bytes depend on nothing else (`KeysOfBares`, `ContentsOfBares`,
  `SameBares`), so that map and count follow from the entries that came or went
  (`OneEntryLess`).
- *Loops.* Their functions are recursive, over states. `LoopExists` gives that
  there is a function with the equations of the loop (an induction, again by
  `IntervalInduction`), and a set of states that every turn stays in holds the
  end of the loop: `RiseStates`, `SinkStates`, `EvictStates`, `CleanStates`.
- *Evictions.* `EvictStates` holds what a `Put` promises: every entry gone was of
  no higher rank than any that is left, and the last to go was needed, since the
  heap it was taken from overflowed. That gives `EvictsLeastFrequent` and the
  refinement of `CacheStrategy`. Each turn leaves a heap one shorter, and an
  empty one fits (`EmptyFits`), hence `PutLoopEnds`: the loop of the code, which
  pops until the count fits, never pops an empty heap.
- *CleanUp.* The slot it looks at may hold another entry than when the loop
  began, but it removes the very entry that it tested, by an index field that is
  right also in the middle of the loop (`CleanSlotStep`).

### Cache

| theorem | statement |
|---|---|
| `CacheTypeCorrect`, `CacheAlwaysCoherent`, `CacheAlwaysAccounted`, `CacheHeapAlwaysOrdered` | `Spec => []TypeOK`, `[]Coherent`, `[]BytesAccounted`, `[]HeapOrdered` |
| `CachePutStays`, `CacheKeepsArrivalOrder`, `CacheEvictsLeastFrequent`, `CacheCleanUpSparesFresh` | `Spec => PutStays` and so on |
| `CacheImplementsStrategy` | `Spec => KeepsStrategy` |

These are all properties of the run `cache`, for whatever name `policy.New` is
given. `Cache` instantiates `ListCache` and `LfuCache`; `CacheProofs`
instantiates their proofs in the same way and shows first that what the
instances define is the same (`SameListSteps`, `SameLfuSteps` and their like).
Its invariant is that of the strategy in use, and that the other was never
touched. A step of the cache is then one of the strategy in use
(`StepsOfStrategy`), and of the other's contents a stutter.

### ConsistentHash

| theorem | statement |
|---|---|
| `RingTypeCorrect` | `Spec => []TypeOK` |
| `OwnersAlwaysAgree` | `Spec => []OwnersAgree` |
| `AddAlwaysMovesOnlyToNew` | `Spec => AddMovesOnlyToNew` |

`TypeInv` includes that the ring is sorted, with collisions too: `AddNode` sorts
it (`SortedProperties`: `Sorted` gives a sorted sequence with the same elements,
and keeps them distinct), and a round of the loop of `RemovePeer`, which shifts
the array under its own `range`, keeps the part in use sorted, whatever it
removes (`ScanKeepsSorted`). On a sorted ring the binary search finds the hash
that follows a key (`SearchFinds`), and when hashes are added that one is either
new or the same as before: hence `AddMovesOnlyToNew`, collisions or not.

`RingInv` is what holds without collisions: each hash of a node that is there,
and no other, is on the ring once, and `hashMap` has its node. Its step for
`RemovePeer` is `RemoveHashExact`: of a slice without duplicates the loop
removes the value and nothing else, because after the shift the element it skips
cannot be the value again, and it never gets to slice out of bounds. The owner
by definition, the node with a virtual node at the least clockwise distance, is
then the one that follows the hash (`OwnerFollows`).

### Membership, Server

| theorem | statement |
|---|---|
| `MembershipProofs!TypeCorrect` | `Spec => []TypeOK` |
| `RingIsAlwaysSnapshot` | `Spec => []RingIsSnapshot` |
| `BehindIsAlwaysNotified` | `Spec => []BehindIsNotified` |
| `ServerProofs!TypeCorrect` | `Spec => []TypeOK` (with mutual exclusion) |
| `RegistrationAlwaysHolds` | `Spec => []RegistrationHolds` |

A ring is a snapshot because the list it is built from was (`ListedIsSnapshot`).
`BehindIsPending` extends `BehindIsNotified` to the moments in between: what has
been listed and is not on the ring yet is current, or an event or a loss is
pending. The mutual exclusion of `Server` needs `StopIsNotReentered`: main and
the updater are inside `Stop` only if they called it. `RegistrationHolds` needs
`AddedIsOwn`, which covers the time between `EtcdAdd` and the watch, and
outlives the process, since leases do.

### Only model-checked

- Liveness (`DoReturns`, `ExpiredIsSwept`, `GetReturns`,
  `RingFollowsUnlessLost`, `StopReturns`, `EndsUnregistered`,
  `DeadEndpointGoes`), which needs `ENABLED`.
- The five properties that the code violates, which nothing can prove.

## 5. Not modelled

- Outages of etcd while a node dials: `Discovery` blocks, without a timeout, as
  long as no endpoint is registered. `Cluster` has a node to dial at any time.
- Rings that change while requests are served: `Membership` has one server's
  view, `Cluster` any views, fixed for a run.
- Names the HTTP wire changes: `Wire` is the identity in the instances.
- `NewGroup` and the two `Register` methods: they run before any request is
  served, and are the initial states. So does `cmd/http` with `-api`, where the
  second registration of the pattern `/api` panics.
- The group `website` has no picker: it is a cluster of one node.
- A nil option that `etcdDel` passes to `DeleteEndpoint`: if the library panics
  on it, that is one of the crashes of `Server`.
- The waits of the test client between its attempts; an attempt is a request.
- Address validation, configuration, logging, the connection to the database,
  its migration and test data, response codes (I/O and wording), generated
  message types, `discovery1`, `discovery2` and `client_put.go` (used by no
  program).

## 6. Plan

Done, in this order: `SingleFlight` with its contract and proofs, `Group`, the
cache strategies and `Cache` over them, `ConsistentHash`, `Membership`, `Server`
with crashes, restarts and leases, `Cluster` over both transports.

Proved, each inductive invariant checked by TLC first: `SingleFlight`,
`Membership`, `Server`, `Group`, `Cluster`, the list caches, `ConsistentHash`,
the lfu, `Cache`. With these, every safety property that a passing run checks is
a theorem.

Next: rings of `Membership` that change under the requests of `Cluster`, and
outages of etcd.
