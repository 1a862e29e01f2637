------------------------------ MODULE ListCache ------------------------------
(***************************************************************************)
(* The strategies kept on a container/list, policy/lru/lru.go and          *)
(* policy/fifo/fifo.go: a list of entries from front to back, a map from   *)
(* keys to list elements and a count of the bytes in use.  They differ in  *)
(* Get, and in the Put of a key that is there; the rest is the same code   *)
(* twice.  policy.New chooses one of them once and for all.                *)
(*                                                                         *)
(* All methods run under the mutex of internal/service/cache.go, so each   *)
(* is one step.                                                            *)
(*                                                                         *)
(* time.Now() is now, which advances by Tick up to MaxTime; an entry's     *)
(* UpdateAt is the time of its last Touch.                                 *)
(***************************************************************************)
EXTENDS CacheData

VARIABLES policy,   \* "lru" or "fifo"
          ll,       \* the list, its front first
          cache,    \* the keys the map holds an element for
          nbytes,   \* the bytes counted
          now,      \* time.Now()
          latest    \* history: the value last put for each key

vars == <<policy, ll, cache, nbytes, now, latest>>

Entry == [key : Keys, value : Values, at : 0..MaxTime]

Touched(k, v) == [key |-> k, value |-> v, at |-> now]

Cost(k, v) == KeyLen[k] + ValueLen[v] + ListOverhead
Bytes(l) == BytesOf(l, ListOverhead)

(* The map's element for a key that it holds.                              *)
ElementOf(k) == PositionOf(k, ll)

Empty ==
    /\ ll = << >>
    /\ cache = {}
    /\ nbytes = 0
    /\ now = 0
    /\ latest = [k \in Keys |-> None]

Init == policy \in {"lru", "fifo"} /\ Empty

(* The loop at the end of Put, once the list is l and the count n: the     *)
(* front is removed until the count no longer overflows.                   *)
EvictFrom(l, keys, n) ==
    LET left(i) == n - Bytes(SubSeq(l, 1, i))
        fit == {i \in 0..Len(l) : ~Overflows(left(i))}
        evictions == CHOOSE i \in fit : \A j \in fit : i <= j
        gone == SubSeq(l, 1, evictions)
    IN /\ fit # {}
       /\ ll' = SubSeq(l, evictions + 1, Len(l))
       /\ cache' = keys \ KeysOf(gone)
       /\ nbytes' = left(evictions)

-----------------------------------------------------------------------------
(* A hit of lru moves the element to the FRONT, where evictions start; a   *)
(* hit of fifo changes nothing.                                            *)
LruGet(k) ==
    /\ policy = "lru"
    /\ k \in cache
    /\ LET i == ElementOf(k) IN
          ll' = <<Touched(k, ll[i].value)>> \o RemoveAt(ll, i)
    /\ UNCHANGED <<policy, cache, nbytes, now, latest>>

(* Fault variants of LruPutExisting: the old value's length stays counted; *)
(* the old value is kept.                                                  *)
LruPutExistingRecounted(k, v) ==
    /\ policy = "lru"
    /\ k \in cache
    /\ LET i == ElementOf(k) IN
          EvictFrom(Append(RemoveAt(ll, i), Touched(k, v)), cache, nbytes + ValueLen[v])

LruPutExistingKeepingValue(k, v) ==
    /\ policy = "lru"
    /\ k \in cache
    /\ LET i == ElementOf(k) IN
          EvictFrom(Append(RemoveAt(ll, i), Touched(k, ll[i].value)), cache, nbytes)

(* lru's Put of a key the map holds: the element goes to the back with its *)
(* new value, and the difference in length is counted.                     *)
LruPutExisting(k, v) ==
    /\ policy = "lru"
    /\ k \in cache
    /\ LET i == ElementOf(k) IN
          EvictFrom(Append(RemoveAt(ll, i), Touched(k, v)), cache,
                    nbytes + ValueLen[v] - ValueLen[ll[i].value])

(* Fault variant of FifoPutExisting: the element is moved to the back.     *)
FifoPutExistingMoving(k, v) ==
    /\ policy = "fifo"
    /\ k \in cache
    /\ LET i == ElementOf(k) IN
          EvictFrom(Append(RemoveAt(ll, i), Touched(k, v)), cache,
                    nbytes + ValueLen[v] - ValueLen[ll[i].value])

(* fifo's: the element is updated where it is.                             *)
FifoPutExisting(k, v) ==
    /\ policy = "fifo"
    /\ k \in cache
    /\ LET i == ElementOf(k) IN
          EvictFrom([ll EXCEPT ![i] = Touched(k, v)], cache,
                    nbytes + ValueLen[v] - ValueLen[ll[i].value])

(* Fault variants of PutNew: the new element goes where evictions start;   *)
(* the key's length is not counted.                                        *)
PutNewInFront(k, v) ==
    /\ k \notin cache
    /\ EvictFrom(<<Touched(k, v)>> \o ll, cache \cup {k}, nbytes + Cost(k, v))

PutNewUndercounted(k, v) ==
    /\ k \notin cache
    /\ EvictFrom(Append(ll, Touched(k, v)), cache \cup {k}, nbytes + ValueLen[v] + ListOverhead)

(* Put of a new key, for both: pushed at the back.                         *)
PutNew(k, v) ==
    /\ k \notin cache
    /\ EvictFrom(Append(ll, Touched(k, v)), cache \cup {k}, nbytes + Cost(k, v))

Put(k, v) ==
    /\ LruPutExisting(k, v) \/ FifoPutExisting(k, v) \/ PutNew(k, v)
    /\ latest' = [latest EXCEPT ![k] = v]
    /\ UNCHANGED <<policy, now>>

(* CleanUp walks from the front and stops at an entry that is not expired. *)
(* An element that was removed has no Next: the walk also stops at the     *)
(* first expired one.                                                      *)
CleanUp ==
    /\ ll # << >>
    /\ Expired(Head(ll), now)
    /\ ll' = Tail(ll)
    /\ cache' = cache \ {Head(ll).key}
    /\ nbytes' = nbytes - Cost(Head(ll).key, Head(ll).value)
    /\ UNCHANGED <<policy, now, latest>>

Tick ==
    /\ now < MaxTime
    /\ now' = now + 1
    /\ UNCHANGED <<policy, ll, cache, nbytes, latest>>

Next ==
    \/ \E k \in Keys : LruGet(k)
    \/ \E k \in Keys, v \in Values : Put(k, v)
    \/ CleanUp
    \/ Tick

Spec == Init /\ [][Next]_vars

-----------------------------------------------------------------------------
TypeOK ==
    /\ policy \in {"lru", "fifo"}
    /\ ll \in Seq(Entry)
    /\ cache \subseteq Keys
    /\ nbytes \in Nat
    /\ now \in 0..MaxTime
    /\ latest \in [Keys -> Values \cup {None}]

(* The map and the list hold the same keys, each key once in the list: a   *)
(* Get never reaches an element that was removed, and an eviction never    *)
(* leaves a key in the map.                                                *)
Coherent ==
    /\ cache = KeysOf(ll)
    /\ \A i, j \in DOMAIN ll : ll[i].key = ll[j].key => i = j

(* The count is exactly the bytes of the entries in the list, and within   *)
(* the budget.  If it drifted up, the loop of Put would go on after the    *)
(* list is empty, for ever and under the lock.                             *)
BytesAccounted == nbytes = Bytes(ll) /\ ~Overflows(nbytes)

Strategy == INSTANCE CacheStrategy WITH contents <- ContentsOf(ll)

(* The list strategies implement the cache strategy.                       *)
KeepsStrategy == Strategy!Spec

(* What a step may never do.                                               *)

(* A Put of an entry that fits the budget by itself is not undone by the   *)
(* evictions of that same Put; an update of fifo, in its old place, may be.*)
PutStays ==
    \A k \in Keys, v \in Values :
        /\ Put(k, v)
        /\ ~Overflows(Cost(k, v))
        /\ policy = "lru" \/ k \notin cache
        => k \in cache'

(* CleanUp removes no entry that has not expired.                          *)
CleanUpSparesFresh ==
    CleanUp => \A i \in DOMAIN ll : Expired(ll[i], now) \/ ll[i].key \in cache'

(* First in, first out: entries leave from the front only, those that stay *)
(* keep their order, and only a new key joins, at the back.  An update     *)
(* keeps its place in the queue.                                           *)
KeepsArrivalOrder ==
    policy = "fifo" => \E n \in 0..Len(ll) :
        LET stay == [i \in 1..(Len(ll) - n) |-> ll[n + i].key]
            then == [i \in DOMAIN ll' |-> ll'[i].key]
        IN then = stay \/ \E k \in Keys \ cache : then = Append(stay, k)

(* What the comment on RemoveOldest of lru says: it removes the least      *)
(* recently used.  No entry evicted by a Put was used after one that stays.*)
EvictsLeastRecentlyUsed ==
    \A k \in Keys, v \in Values : policy = "lru" /\ Put(k, v) =>
        \A i, j \in DOMAIN ll :
            ll[i].key \notin cache' /\ ll[j].key \in cache' \ {k}
                => ll[i].at <= ll[j].at
=============================================================================
