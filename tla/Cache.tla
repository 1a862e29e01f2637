-------------------------------- MODULE Cache --------------------------------
(***************************************************************************)
(* internal/service/cache.go over policy/purge.go: a cache is given the    *)
(* strategy that policy.New chooses for its name, once and for all.  set,  *)
(* get and put hold its mutex, so every method of the strategy is one      *)
(* step; CleanUp is called by nobody so far, and is a step of its own.     *)
(***************************************************************************)
EXTENDS CacheData

VARIABLES policy,      \* "lru", "fifo" or "lfu"
          ll,          \* the list of the first two
          pq,          \* the heap of the third
          cache,       \* the keys of the strategy's map
          nbytes,      \* the bytes counted
          now,         \* time.Now()
          panicked,    \* whether the lfu's CleanUp has panicked
          latest,      \* history: the values last put in a list strategy
          lfuLatest    \* history: the values last put in the lfu

List == INSTANCE ListCache
Lfu == INSTANCE LfuCache WITH latest <- lfuLatest

vars == <<policy, ll, pq, cache, nbytes, now, panicked, latest, lfuLatest>>

(* policy.New: a name it does not know gets the lfu.                       *)
New(name) == IF name \in {"lru", "fifo"} THEN name ELSE "lfu"

Init ==
    /\ \E name \in {"lru", "fifo", "lfu", "unknown"} : policy = New(name)
    /\ List!Empty
    /\ Lfu!Init

UsesList == policy # "lfu" /\ UNCHANGED <<pq, panicked, lfuLatest>>
UsesHeap == policy = "lfu" /\ UNCHANGED <<policy, ll, latest>>

Next ==
    \/ UsesList /\ List!Next
    \/ UsesHeap /\ Lfu!Next

Spec == Init /\ [][Next]_vars

-----------------------------------------------------------------------------
TypeOK == IF policy = "lfu" THEN Lfu!TypeOK ELSE List!TypeOK

(* Map and list, or map, heap and index fields, never come apart.          *)
Coherent == IF policy = "lfu" THEN Lfu!Coherent ELSE List!Coherent

(* The count is the bytes of the entries, and they fit the budget.         *)
BytesAccounted == IF policy = "lfu" THEN Lfu!BytesAccounted ELSE List!BytesAccounted

(* Whatever policy.New chose implements the strategy interface.            *)
KeepsStrategy == List!KeepsStrategy /\ Lfu!KeepsStrategy

(* The lfu's heap, as stated in LfuCache.                                  *)
HeapOrdered == Lfu!HeapOrdered

(* What no step of a strategy does, as stated under these names in its     *)
(* module: a Put undone by its own evictions, the fifo's queue reordered,  *)
(* an eviction of what was referenced more, or (which the lru does) of     *)
(* what was used later.                                                    *)
PutStays == [][policy # "lfu" => List!PutStays]_vars
KeepsArrivalOrder == [][policy # "lfu" => List!KeepsArrivalOrder]_vars
EvictsLeastFrequent == [][policy = "lfu" => Lfu!EvictsLeastFrequent]_vars
EvictsLeastRecentlyUsed == [][policy # "lfu" => List!EvictsLeastRecentlyUsed]_vars

(* CleanUp, by whatever strategy, removes no entry that has not expired,   *)
(* although one walks a list, the other a heap, that it changes.           *)
CleanUpSparesFresh ==
    [][IF policy = "lfu" THEN Lfu!CleanUpSparesFresh ELSE List!CleanUpSparesFresh]_vars
=============================================================================
