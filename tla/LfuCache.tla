------------------------------ MODULE LfuCache ------------------------------
(***************************************************************************)
(* internal/service/policy/lfu/lfu.go over module PriorityQueue.  All      *)
(* methods run under the mutex of internal/service/cache.go: each is one   *)
(* step.  Time is as in ListCache.                                         *)
(***************************************************************************)
EXTENDS CacheData, PriorityQueue

VARIABLES pq,        \* the heap of entries
          cache,     \* the keys the map holds an entry for
          nbytes,    \* the bytes counted
          now,       \* time.Now()
          panicked,  \* whether CleanUp met a slot it had emptied itself
          latest     \* history: the value last put for each key

vars == <<pq, cache, nbytes, now, panicked, latest>>

Entry == [key : Keys, value : Values, count : 1..MaxCount, at : 0..MaxTime, index : Nat]

Cost(k, v) == KeyLen[k] + ValueLen[v] + LfuOverhead

(* The map's entry for a key that it holds.                                *)
EntryOf(k) == pq[PositionOf(k, pq)]

Referenced(e) == [e EXCEPT !.count = @ + 1, !.at = now]

Init ==
    /\ pq = << >>
    /\ cache = {}
    /\ nbytes = 0
    /\ now = 0
    /\ panicked = FALSE
    /\ latest = [k \in Keys |-> None]

(* The entry of k, with its new value v, is referenced and sifted to its   *)
(* place, found by its index field.                                        *)
Refer(k, v) ==
    LET e == Referenced([EntryOf(k) EXCEPT !.value = v])
    IN HeapFix([pq EXCEPT ![PositionOf(k, pq)] = e], e.index + 1)

Get(k) ==
    /\ ~panicked
    /\ k \in cache
    /\ EntryOf(k).count < MaxCount
    /\ pq' = Refer(k, EntryOf(k).value)
    /\ UNCHANGED <<cache, nbytes, now, panicked, latest>>

(* One turn of the loop of Put: Remove, if the count overflows.            *)
Evict(s) ==
    IF Overflows(s.nbytes) /\ s.pq # << >>
    THEN [pq |-> HeapPop(s.pq),
          cache |-> s.cache \ {s.pq[1].key},
          nbytes |-> s.nbytes - Cost(s.pq[1].key, s.pq[1].value)]
    ELSE s

Shrink(q, keys, n) ==
    LET turn[i \in 0..Len(q)] ==
            IF i = 0 THEN [pq |-> q, cache |-> keys, nbytes |-> n] ELSE Evict(turn[i - 1])
    IN turn[Len(q)]

Settle(q, keys, n) ==
    LET s == Shrink(q, keys, n) IN pq' = s.pq /\ cache' = s.cache /\ nbytes' = s.nbytes

PutExisting(k, v) ==
    /\ k \in cache
    /\ EntryOf(k).count < MaxCount
    /\ Settle(Refer(k, v), cache, nbytes + ValueLen[v] - ValueLen[EntryOf(k).value])

(* e := &lfuEntry{...}, referenced.                                        *)
Fresh(k, v) == [key |-> k, value |-> v, count |-> 1, at |-> now, index |-> 0]

PutNew(k, v) ==
    /\ k \notin cache
    /\ Settle(HeapPush(pq, Fresh(k, v)), cache \cup {k}, nbytes + Cost(k, v))

Put(k, v) ==
    /\ ~panicked
    /\ PutExisting(k, v) \/ PutNew(k, v)
    /\ latest' = [latest EXCEPT ![k] = v]
    /\ UNCHANGED <<now, panicked>>

(* One turn of the loop of CleanUp: it ranges over the slots of the queue  *)
(* as it was, and heap.Remove empties the last one and moves the others.   *)
CleanSlot(s, i) ==
    CASE ~s.ok -> s
      [] s.ok /\ i > Len(s.pq) -> [s EXCEPT !.ok = FALSE]
      [] s.ok /\ i <= Len(s.pq) /\ Expired(s.pq[i], now) ->
            LET e == s.pq[s.pq[i].index + 1] IN
            [ok |-> TRUE,
             pq |-> HeapRemove(s.pq, s.pq[i].index + 1),
             cache |-> s.cache \ {e.key},
             nbytes |-> s.nbytes - Cost(e.key, e.value)]
      [] OTHER -> s

CleanSlots ==
    LET turn[i \in 0..Len(pq)] ==
            IF i = 0 THEN [ok |-> TRUE, pq |-> pq, cache |-> cache, nbytes |-> nbytes]
            ELSE CleanSlot(turn[i - 1], i)
    IN turn[Len(pq)]

CleanUp ==
    /\ ~panicked
    /\ pq' = CleanSlots.pq
    /\ cache' = CleanSlots.cache
    /\ nbytes' = CleanSlots.nbytes
    /\ panicked' = ~CleanSlots.ok
    /\ UNCHANGED <<now, latest>>

Tick ==
    /\ now < MaxTime
    /\ now' = now + 1
    /\ UNCHANGED <<pq, cache, nbytes, panicked, latest>>

Next ==
    \/ \E k \in Keys : Get(k)
    \/ \E k \in Keys, v \in Values : Put(k, v)
    \/ CleanUp
    \/ Tick

Spec == Init /\ [][Next]_vars

-----------------------------------------------------------------------------
TypeOK ==
    /\ pq \in Seq(Entry)
    /\ cache \subseteq Keys
    /\ nbytes \in Nat
    /\ now \in 0..MaxTime
    /\ panicked \in BOOLEAN
    /\ latest \in [Keys -> Values \cup {None}]

(* The map, the heap and the index fields agree: heap.Fix and heap.Remove, *)
(* which go by the index field, always reach the entry they are meant for, *)
(* whatever swaps and renumberings came before.                            *)
Coherent ==
    /\ cache = KeysOf(pq)
    /\ \A i \in DOMAIN pq : pq[i].index = i - 1
    /\ \A i, j \in DOMAIN pq : pq[i].key = pq[j].key => i = j

(* The heap property: no entry is less than its parent.  Updating an entry *)
(* in place breaks it unless the entry is sifted right after.              *)
HeapOrdered == \A i \in 2..Len(pq) : ~Less(pq[i], pq[Parent(i)])

(* As for the list caches: exact count, within the budget.                 *)
BytesAccounted == nbytes = BytesOf(pq, LfuOverhead) /\ ~Overflows(nbytes)

Strategy == INSTANCE CacheStrategy WITH contents <- ContentsOf(pq)

(* LfuCache implements the cache strategy.                                 *)
KeepsStrategy == Strategy!Spec

(* Least frequently used: no entry evicted by a Put was referenced more    *)
(* often, or as often and later, than an entry that stays; the references  *)
(* are those after the Put's own.  (This and the next speak of one step.)  *)
EvictsLeastFrequent ==
    \A k \in Keys, v \in Values : Put(k, v) =>
        \A i \in DOMAIN pq, j \in DOMAIN pq' :
            pq[i].key \notin cache' \cup {k} => ~Less(pq'[j], pq[i])

(* CleanUp removes by the index field while the heap moves under its loop: *)
(* it never removes an entry that has not expired.                         *)
CleanUpSparesFresh ==
    CleanUp => \A i \in DOMAIN pq : Expired(pq[i], now) \/ pq[i].key \in cache'
=============================================================================
