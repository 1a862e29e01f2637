------------------------------- MODULE Group -------------------------------
(***************************************************************************)
(* internal/service/recache.go, group.go and cache.go: Group.Get over the  *)
(* local cache, the flight of module SingleFlight, the peers and the       *)
(* database.  Every node has a Group of its own over one database; a key   *)
(* of this module is a node and a name, so that flight and mainCache,      *)
(* functions of the keys, are those of all nodes side by side.             *)
(*                                                                         *)
(* A request is one call of Get.  Its value is a version: the row of a     *)
(* name is at version db[n], 0 when there is no such row.                  *)
(*                                                                         *)
(* mainCache is known here by what its strategy guarantees whatever the    *)
(* policy: an entry that was put may be evicted by a later Put (its own    *)
(* included, as LFU does), and by nothing else.  The policies themselves   *)
(* are in modules ListCache and LfuCache.                                  *)
(***************************************************************************)
EXTENDS SingleFlight, Naturals

CONSTANTS Nodes,        \* the processes
          Names,        \* what clients ask for: names of students
          Wire,         \* Wire[n]: the name a peer asked for n over http looks up
                        \* (n with + for every space)
          DbMayFail,    \* whether the retriever may fail otherwise than by not-found
          MaxVersion,   \* bound on the versions of a row
          AtFirst,      \* the versions a row may have at the start
          NotFound,     \* gorm.ErrRecordNotFound
          DbError,      \* any other error of the retriever
          KeyRequired   \* the error of Get("")

Versions == 1..MaxVersion
Values == Versions \cup {Empty}

(* What Get returns.                                                       *)
GOutcome == [value : Values, err : {Nil, NotFound, DbError, KeyRequired}]

ASSUME GroupConstants ==
    /\ Keys = Nodes \X Names
    /\ Wire \in [Names -> Names]
    /\ \A n \in Names : Wire[Wire[n]] = Wire[n]
    /\ DbMayFail \in BOOLEAN
    /\ MaxVersion \in Nat
    /\ AtFirst \subseteq 0..MaxVersion
    /\ {NotFound, DbError, KeyRequired} \cap {Nil, Empty, None} = {}
    /\ NotFound \notin {DbError, KeyRequired} /\ Empty # None
    /\ {Empty, None} \cap Nat = {} /\ None \notin Keys \cup GOutcome

VARIABLES db,         \* db[n]: the version of the row of n, 0 if none
          mainCache,  \* mainCache[k]: a version, Empty (negative entry) or None
          at,         \* at[r]: where r is in the function given to flight.Do
          read,       \* read[r]: what the retriever returned to r
          over        \* history: the runs that were over when r's run began

groupVars == <<db, mainCache, at, read, over>>
allVars == <<vars, groupVars>>

NodeOf(k) == k[1]
NameOf(k) == k[2]
KeysAt(n) == {n} \X Names

Row(r) == db[NameOf(key[r])]

Found(v) == [value |-> v, err |-> Nil]
Failed(e) == [value |-> Empty, err |-> e]

GInit ==
    /\ Init
    /\ db \in [Names -> AtFirst]
    /\ mainCache = [k \in Keys |-> None]
    /\ at = [r \in Requests |-> "pick"]
    /\ read = [r \in Requests |-> None]
    /\ over = [r \in Requests |-> {}]

-----------------------------------------------------------------------------
(* Get answers without a flight: r never enters Do.                        *)
Answer(r, o) ==
    /\ pc' = [pc EXCEPT ![r] = "returned"]
    /\ ret' = [ret EXCEPT ![r] = o]
    /\ UNCHANGED <<m, cache, call, wgDone, joined, before, groupVars>>

(* Get(""): refused.                                                       *)
GetRefused(r) ==
    /\ pc[r] = "idle"
    /\ Answer(r, Failed(KeyRequired))
    /\ UNCHANGED key

(* mainCache.get finds the key, a negative entry included.                 *)
GetHit(r, k) ==
    /\ pc[r] = "idle"
    /\ mainCache[k] # None
    /\ Answer(r, Found(mainCache[k]))
    /\ key' = [key EXCEPT ![r] = k]

(* mainCache.get misses: Get calls flight.Do.                              *)
GetMiss(r, k) ==
    /\ mainCache[k] = None
    /\ Do(r, k)
    /\ UNCHANGED groupVars

-----------------------------------------------------------------------------
(* The function given to flight.Do.                                        *)

Running(r, where) == pc[r] = "run" /\ at[r] = where

(* server.Pick: a peer owns the key, or this node does (or no server).     *)
Pick(r) ==
    /\ Running(r, "pick")
    /\ \E next \in {"fetch", "retrieve"} : at' = [at EXCEPT ![r] = next]
    /\ UNCHANGED <<vars, db, mainCache, read, over>>

(* fetcher.Fetch succeeds: the bytes of some version the row asked for has *)
(* had, or none at all (a peer's negative entry).  They are not cached     *)
(* here.                                                                   *)
FetchSucceeds(r) ==
    /\ Running(r, "fetch")
    /\ \E name \in {NameOf(key[r]), Wire[NameOf(key[r])]} :
          \E v \in {Empty} \cup 1..db[name] : FnReturns(r, Found(v))
    /\ UNCHANGED groupVars

(* Fault variant of FetchFails: the error is dropped.                      *)
FetchFailsSilently(r) ==
    /\ Running(r, "fetch")
    /\ FnReturns(r, Found(Empty))
    /\ UNCHANGED groupVars

(* fetcher.Fetch fails: whatever the error, the database is asked.         *)
FetchFails(r) ==
    /\ Running(r, "fetch")
    /\ at' = [at EXCEPT ![r] = "retrieve"]
    /\ UNCHANGED <<vars, db, mainCache, read, over>>

(* Fault variant of Retrieve: the row is read from a copy that lags.       *)
RetrieveLagging(r) ==
    /\ Running(r, "retrieve")
    /\ \E v \in 0..Row(r) :
          read' = [read EXCEPT ![r] = IF v = 0 THEN Empty ELSE v]
    /\ at' = [at EXCEPT ![r] = "store"]
    /\ UNCHANGED <<vars, db, mainCache, over>>

(* retriever.retrieve reads the row.                                       *)
Retrieve(r) ==
    /\ Running(r, "retrieve")
    /\ read' = [read EXCEPT ![r] = IF Row(r) = 0 THEN Empty ELSE Row(r)]
    /\ at' = [at EXCEPT ![r] = "store"]
    /\ UNCHANGED <<vars, db, mainCache, over>>

(* Fault variant of RetrieveFails: the error is taken for not-found.       *)
RetrieveFailsAsNotFound(r) ==
    /\ DbMayFail
    /\ Running(r, "retrieve")
    /\ FnReturns(r, Failed(NotFound))
    /\ UNCHANGED groupVars

(* The retriever fails: nothing is stored.                                 *)
RetrieveFails(r) ==
    /\ DbMayFail
    /\ Running(r, "retrieve")
    /\ FnReturns(r, Failed(DbError))
    /\ UNCHANGED groupVars

RetrievePanics(r) ==
    /\ Running(r, "retrieve")
    /\ FnPanics(r)
    /\ UNCHANGED groupVars

(* strategy.Put(k, v), which evicts what the policy of that node chooses.  *)
Put(k, v) ==
    \E evicted \in SUBSET KeysAt(NodeOf(k)) :
        mainCache' = [j \in Keys |-> IF j \in evicted THEN None
                                     ELSE [mainCache EXCEPT ![k] = v][j]]

(* getLocally after the read: the value, or ByteView{} if there is no row, *)
(* is put in mainCache, over whatever is there by now.                     *)
Store(r) ==
    /\ Running(r, "store")
    /\ Put(key[r], read[r])
    /\ FnReturns(r, IF read[r] = Empty THEN Failed(NotFound) ELSE Found(read[r]))
    /\ UNCHANGED <<db, at, read, over>>

(* CreateStudent inserts the first row of n.  (The row of a second student *)
(* of that name is not the one First reads.)  No cache is told.            *)
CreateStudent(n) ==
    /\ db[n] = 0
    /\ MaxVersion > 0
    /\ db' = [db EXCEPT ![n] = 1]
    /\ UNCHANGED <<vars, mainCache, at, read, over>>

(* Another program updates the row of n.                                   *)
Update(n) ==
    /\ db[n] \in 1..(MaxVersion - 1)
    /\ db' = [db EXCEPT ![n] = @ + 1]
    /\ UNCHANGED <<vars, mainCache, at, read, over>>

-----------------------------------------------------------------------------
(* Do around the function, and the flight cache, as in SingleFlight.       *)
FlightStep(r) ==
    \/ /\ CacheHit(r) \/ Join(r) \/ Miss(r) \/ Publish(r) \/ Retire(r) \/ Wake(r)
       /\ UNCHANGED groupVars
    \/ /\ Claim(r)
       /\ over' = [over EXCEPT ![r] = Retired]
       /\ UNCHANGED <<db, mainCache, at, read>>

LoadStep(r) ==
    \/ Pick(r)
    \/ Retrieve(r)
    \/ RetrieveFails(r)
    \/ RetrievePanics(r)
    \/ Store(r)

GNext ==
    \/ \E r \in Requests :
          \/ GetRefused(r)
          \/ \E k \in Keys : GetHit(r, k) \/ GetMiss(r, k)
          \/ FlightStep(r)
          \/ LoadStep(r)
          \/ FetchSucceeds(r)
          \/ FetchFails(r)
    \/ \E n \in Names : CreateStudent(n) \/ Update(n)
    \/ \E k \in Keys : Expire(k) /\ UNCHANGED groupVars
    \/ Sweep /\ UNCHANGED groupVars

GSpec == GInit /\ [][GNext]_allVars

-----------------------------------------------------------------------------
(* Types.                                                                  *)

GTypeOK ==
    /\ pc \in [Requests -> PCs]
    /\ key \in [Requests -> Keys \cup {None}]
    /\ m \in [Keys -> Requests \cup {None}]
    /\ cache \in [Keys -> [value : {Empty}, live : BOOLEAN] \cup {None}]
    /\ call \in [Requests -> GOutcome \cup {None}]
    /\ ret \in [Requests -> GOutcome \cup {None}]
    /\ db \in [Names -> 0..MaxVersion]
    /\ mainCache \in [Keys -> Values \cup {None}]
    /\ at \in [Requests -> {"pick", "fetch", "retrieve", "store"}]
    /\ read \in [Requests -> Values \cup {None}]

-----------------------------------------------------------------------------
(* Safety.                                                                 *)

(* The runs r may have its result from: its own, or one for its key that   *)
(* was not over when r called Do.                                          *)
Concurrent(r) == {c \in Requests \ before[r] : key[c] = key[r] /\ call[c] # None}

(* A Get that reports not-found has it from a run, over no sooner than the *)
(* Get began, that found no row: neither a peer's failure nor a database   *)
(* error is ever reported as not-found.                                    *)
NotFoundIsHonest ==
    \A r \in Requests : pc[r] = "returned" /\ ret[r] = Failed(NotFound) =>
        \E c \in Concurrent(r) : read[c] = Empty

(* What mainCache holds for a key, versions and negative entries, was read *)
(* from the database for that key by a run of this node: nothing fetched   *)
(* from a peer is cached, nothing is filed under another key.              *)
CachedWasRead ==
    \A k \in Keys : mainCache[k] # None =>
        \E r \in Requests : key[r] = k /\ read[r] = mainCache[k]

(* Rows are only inserted and updated: no row is older than any version.   *)
Older(v, w) == w \in Versions /\ (v = Empty \/ (v \in Versions /\ v < w))

(* Storing a version over a newer one takes two overlapping flights for    *)
(* the key: the newer version was read by a run that was not over when the *)
(* run that stores the older one began.  So the gap in Do between looking  *)
(* a call up and registering one is the only cause of a stale mainCache.   *)
StaleStoreNeedsOverlap ==
    [][\A r \in Requests, k \in Keys :
          Store(r) /\ Older(mainCache'[k], mainCache[k]) =>
              \E c \in Requests \ over[r] :
                  c # r /\ key[c] = k /\ read[c] = mainCache[k]]_allVars
=============================================================================
