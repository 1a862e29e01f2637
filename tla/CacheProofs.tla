----------------------------- MODULE CacheProofs -----------------------------
(***************************************************************************)
(* Proofs about Cache, whichever strategy policy.New has chosen: what      *)
(* ListCacheProofs and LfuCacheProofs show of the strategies holds of the  *)
(* cache over them.                                                        *)
(***************************************************************************)
EXTENDS Cache, TLAPS

ListP == INSTANCE ListCacheProofs
LfuP == INSTANCE LfuCacheProofs WITH latest <- lfuLatest

-----------------------------------------------------------------------------
(* The modules of proofs speak of the same strategies as Cache: what they  *)
(* define is, in either instance, the same formula.                        *)
LEMMA SameListStates ==
    /\ List!TypeOK <=> ListP!TypeOK
    /\ List!Coherent <=> ListP!Coherent
    /\ List!BytesAccounted <=> ListP!BytesAccounted
<1>1. List!TypeOK <=> ListP!TypeOK
    BY DEF List!TypeOK, ListP!TypeOK, List!Entry, ListP!Entry
<1>2. List!Coherent <=> ListP!Coherent
    BY DEF List!Coherent, ListP!Coherent, List!KeysOf, ListP!KeysOf
<1>3. List!BytesAccounted <=> ListP!BytesAccounted
    BY DEF List!BytesAccounted, ListP!BytesAccounted, List!Bytes, ListP!Bytes,
           List!BytesOf, ListP!BytesOf, List!BytesUpTo, ListP!BytesUpTo,
           List!Overflows, ListP!Overflows
<1>4. QED BY <1>1, <1>2, <1>3

LEMMA SameListSteps ==
    /\ List!Next <=> ListP!Next
    /\ \A k \in Keys, v \in Values : List!Put(k, v) <=> ListP!Put(k, v)
    /\ List!CleanUp <=> ListP!CleanUp
<1> USE DEF List!EvictFrom, ListP!EvictFrom, List!ElementOf, ListP!ElementOf,
            List!PositionOf, ListP!PositionOf, List!Touched, ListP!Touched,
            List!KeysOf, ListP!KeysOf, List!RemoveAt, ListP!RemoveAt,
            List!Cost, ListP!Cost, List!Bytes, ListP!Bytes, List!BytesOf, ListP!BytesOf,
            List!BytesUpTo, ListP!BytesUpTo, List!Overflows, ListP!Overflows,
            List!Expired, ListP!Expired
<1>1. ASSUME NEW k \in Keys PROVE List!LruGet(k) <=> ListP!LruGet(k)
    BY DEF List!LruGet, ListP!LruGet
<1>2. ASSUME NEW k \in Keys, NEW v \in Values PROVE List!Put(k, v) <=> ListP!Put(k, v)
  <2>1. List!LruPutExisting(k, v) <=> ListP!LruPutExisting(k, v)
    BY DEF List!LruPutExisting, ListP!LruPutExisting
  <2>2. List!FifoPutExisting(k, v) <=> ListP!FifoPutExisting(k, v)
    BY DEF List!FifoPutExisting, ListP!FifoPutExisting
  <2>3. List!PutNew(k, v) <=> ListP!PutNew(k, v)
    BY DEF List!PutNew, ListP!PutNew
  <2>4. QED BY <2>1, <2>2, <2>3 DEF List!Put, ListP!Put
<1>3. List!CleanUp <=> ListP!CleanUp
    BY DEF List!CleanUp, ListP!CleanUp
<1>4. List!Tick <=> ListP!Tick
    BY DEF List!Tick, ListP!Tick
<1>5. List!Next <=> ListP!Next
    BY <1>1, <1>2, <1>3, <1>4, Zenon DEF List!Next, ListP!Next
<1>6. QED BY <1>2, <1>3, <1>5

LEMMA SameListPromises ==
    /\ List!PutStays <=> ListP!PutStays
    /\ List!KeepsArrivalOrder <=> ListP!KeepsArrivalOrder
    /\ List!CleanUpSparesFresh <=> ListP!CleanUpSparesFresh
    /\ List!Strategy!Init <=> ListP!Strategy!Init
    /\ [List!Strategy!Next]_(List!Strategy!vars) <=> [ListP!Strategy!Next]_(ListP!Strategy!vars)
<1>1. List!PutStays <=> ListP!PutStays
    BY SameListSteps, Zenon DEF List!PutStays, ListP!PutStays, List!Overflows, ListP!Overflows,
                         List!Cost, ListP!Cost
<1>2. List!KeepsArrivalOrder <=> ListP!KeepsArrivalOrder
    BY DEF List!KeepsArrivalOrder, ListP!KeepsArrivalOrder
<1>3. List!CleanUpSparesFresh <=> ListP!CleanUpSparesFresh
    BY SameListSteps DEF List!CleanUpSparesFresh, ListP!CleanUpSparesFresh,
                         List!Expired, ListP!Expired
<1> USE DEF List!ContentsOf, ListP!ContentsOf, List!KeysOf, ListP!KeysOf,
            List!PositionOf, ListP!PositionOf, List!Cost, ListP!Cost
<1>4. List!Strategy!Init <=> ListP!Strategy!Init
    BY DEF List!Strategy!Init, ListP!Strategy!Init
<1>5. List!Strategy!Next <=> ListP!Strategy!Next
  <2> USE DEF List!Strategy!Without, ListP!Strategy!Without,
              List!Strategy!Fits, ListP!Strategy!Fits, List!Strategy!Used, ListP!Strategy!Used,
              List!Strategy!MapThenSumSet, ListP!Strategy!MapThenSumSet,
              List!Strategy!MapThenFoldSet, ListP!Strategy!MapThenFoldSet
  <2>1. ASSUME NEW k \in Keys, NEW v \in Values
        PROVE  List!Strategy!Put(k, v) <=> ListP!Strategy!Put(k, v)
    BY DEF List!Strategy!Put, ListP!Strategy!Put
  <2>2. List!Strategy!CleanUp <=> ListP!Strategy!CleanUp
    BY DEF List!Strategy!CleanUp, ListP!Strategy!CleanUp
  <2>3. QED BY <2>1, <2>2, Zenon DEF List!Strategy!Next, ListP!Strategy!Next
<1>6. UNCHANGED List!Strategy!vars <=> UNCHANGED ListP!Strategy!vars
    BY DEF List!Strategy!vars, ListP!Strategy!vars
<1>7. QED BY <1>1, <1>2, <1>3, <1>4, <1>5, <1>6

LEMMA SameLfuStates ==
    /\ Lfu!TypeOK <=> LfuP!TypeOK
    /\ Lfu!Coherent <=> LfuP!Coherent
    /\ Lfu!BytesAccounted <=> LfuP!BytesAccounted
    /\ Lfu!HeapOrdered <=> LfuP!HeapOrdered
    /\ Lfu!Init <=> LfuP!Init
<1>1. Lfu!TypeOK <=> LfuP!TypeOK
    BY DEF Lfu!TypeOK, LfuP!TypeOK, Lfu!Entry, LfuP!Entry
<1>2. Lfu!Coherent <=> LfuP!Coherent
    BY DEF Lfu!Coherent, LfuP!Coherent, Lfu!KeysOf, LfuP!KeysOf
<1>3. Lfu!BytesAccounted <=> LfuP!BytesAccounted
    BY DEF Lfu!BytesAccounted, LfuP!BytesAccounted, Lfu!BytesOf, LfuP!BytesOf,
           Lfu!BytesUpTo, LfuP!BytesUpTo, Lfu!Overflows, LfuP!Overflows
<1>4. Lfu!HeapOrdered <=> LfuP!HeapOrdered
    BY DEF Lfu!HeapOrdered, LfuP!HeapOrdered, Lfu!Less, LfuP!Less, Lfu!Parent, LfuP!Parent
<1>5. Lfu!Init <=> LfuP!Init
    BY DEF Lfu!Init, LfuP!Init
<1>6. QED BY <1>1, <1>2, <1>3, <1>4, <1>5

LEMMA SameLfuSteps ==
    /\ Lfu!Next <=> LfuP!Next
    /\ \A k \in Keys, v \in Values : Lfu!Put(k, v) <=> LfuP!Put(k, v)
    /\ Lfu!CleanUp <=> LfuP!CleanUp
<1> USE DEF Lfu!EntryOf, LfuP!EntryOf, Lfu!PositionOf, LfuP!PositionOf,
            Lfu!Cost, LfuP!Cost
<1>1. ASSUME NEW q, NEW i, NEW e
      PROVE  /\ Lfu!HeapFix(q, i) = LfuP!HeapFix(q, i)
             /\ Lfu!HeapPush(q, e) = LfuP!HeapPush(q, e)
  <2> USE DEF Lfu!Less, LfuP!Less, Lfu!Swap, LfuP!Swap
  <2>1. \A r, j : Lfu!Up(r, j) = LfuP!Up(r, j)
    BY DEF Lfu!Up, LfuP!Up, Lfu!Rise, LfuP!Rise, Lfu!Parent, LfuP!Parent
  <2> USE DEF Lfu!LesserChild, LfuP!LesserChild, Lfu!SinksBelow, LfuP!SinksBelow
  <2>2. \A r, j, n : /\ Lfu!SinksBelow(r, j, n) <=> LfuP!SinksBelow(r, j, n)
                     /\ Lfu!Down(r, j, n) = LfuP!Down(r, j, n)
    BY DEF Lfu!Down, LfuP!Down, Lfu!Sink, LfuP!Sink
  <2> HIDE DEF Lfu!SinksBelow, LfuP!SinksBelow
  <2>3. Lfu!HeapFix(q, i) = LfuP!HeapFix(q, i)
    BY <2>1, <2>2 DEF Lfu!HeapFix, LfuP!HeapFix
  <2>4. Lfu!HeapPush(q, e) = LfuP!HeapPush(q, e)
    BY <2>1 DEF Lfu!HeapPush, LfuP!HeapPush, Lfu!Push, LfuP!Push
  <2>5. QED BY <2>3, <2>4
<1>2. ASSUME NEW k, NEW v PROVE Lfu!Refer(k, v) = LfuP!Refer(k, v)
    BY <1>1 DEF Lfu!Refer, LfuP!Refer, Lfu!Referenced, LfuP!Referenced
<1>3. ASSUME NEW q, NEW keys, NEW n PROVE Lfu!Settle(q, keys, n) <=> LfuP!Settle(q, keys, n)
  <2>1. Lfu!Shrink(q, keys, n) = LfuP!Shrink(q, keys, n)
    BY DEF Lfu!Shrink, LfuP!Shrink, Lfu!Evict, LfuP!Evict, Lfu!Overflows, LfuP!Overflows,
           Lfu!HeapPop, LfuP!HeapPop, Lfu!Pop, LfuP!Pop, Lfu!Down, LfuP!Down,
           Lfu!Sink, LfuP!Sink, Lfu!SinksBelow, LfuP!SinksBelow,
           Lfu!LesserChild, LfuP!LesserChild, Lfu!Less, LfuP!Less, Lfu!Swap, LfuP!Swap
  <2>2. QED BY <2>1 DEF Lfu!Settle, LfuP!Settle
<1>4. ASSUME NEW k \in Keys PROVE Lfu!Get(k) <=> LfuP!Get(k)
    BY <1>2 DEF Lfu!Get, LfuP!Get
<1>5. ASSUME NEW k \in Keys, NEW v \in Values PROVE Lfu!Put(k, v) <=> LfuP!Put(k, v)
  <2>1. Lfu!PutExisting(k, v) <=> LfuP!PutExisting(k, v)
    BY <1>2, <1>3 DEF Lfu!PutExisting, LfuP!PutExisting
  <2>2. Lfu!PutNew(k, v) <=> LfuP!PutNew(k, v)
    BY <1>1, <1>3 DEF Lfu!PutNew, LfuP!PutNew, Lfu!Fresh, LfuP!Fresh
  <2>3. QED BY <2>1, <2>2 DEF Lfu!Put, LfuP!Put
<1>6. Lfu!CleanUp <=> LfuP!CleanUp
  <2>1. Lfu!CleanSlots = LfuP!CleanSlots
    BY DEF Lfu!CleanSlots, LfuP!CleanSlots, Lfu!CleanSlot, LfuP!CleanSlot,
           Lfu!Expired, LfuP!Expired, Lfu!HeapRemove, LfuP!HeapRemove,
           Lfu!Pop, LfuP!Pop, Lfu!Up, LfuP!Up, Lfu!Rise, LfuP!Rise, Lfu!Parent, LfuP!Parent,
           Lfu!Down, LfuP!Down, Lfu!Sink, LfuP!Sink, Lfu!SinksBelow, LfuP!SinksBelow,
           Lfu!LesserChild, LfuP!LesserChild, Lfu!Less, LfuP!Less, Lfu!Swap, LfuP!Swap
  <2>2. QED BY <2>1 DEF Lfu!CleanUp, LfuP!CleanUp
<1>7. Lfu!Tick <=> LfuP!Tick
    BY DEF Lfu!Tick, LfuP!Tick
<1>8. Lfu!Next <=> LfuP!Next
    BY <1>4, <1>5, <1>6, <1>7, Zenon DEF Lfu!Next, LfuP!Next
<1>9. QED BY <1>5, <1>6, <1>8

LEMMA SameLfuPromises ==
    /\ Lfu!EvictsLeastFrequent <=> LfuP!EvictsLeastFrequent
    /\ Lfu!CleanUpSparesFresh <=> LfuP!CleanUpSparesFresh
    /\ Lfu!Strategy!Init <=> LfuP!Strategy!Init
    /\ [Lfu!Strategy!Next]_(Lfu!Strategy!vars) <=> [LfuP!Strategy!Next]_(LfuP!Strategy!vars)
<1>1. Lfu!EvictsLeastFrequent <=> LfuP!EvictsLeastFrequent
    BY SameLfuSteps, Zenon DEF Lfu!EvictsLeastFrequent, LfuP!EvictsLeastFrequent,
                               Lfu!Less, LfuP!Less
<1>2. Lfu!CleanUpSparesFresh <=> LfuP!CleanUpSparesFresh
    BY SameLfuSteps DEF Lfu!CleanUpSparesFresh, LfuP!CleanUpSparesFresh,
                        Lfu!Expired, LfuP!Expired
<1> USE DEF Lfu!ContentsOf, LfuP!ContentsOf, Lfu!KeysOf, LfuP!KeysOf,
            Lfu!PositionOf, LfuP!PositionOf, Lfu!Cost, LfuP!Cost
<1>3. Lfu!Strategy!Init <=> LfuP!Strategy!Init
    BY DEF Lfu!Strategy!Init, LfuP!Strategy!Init
<1>4. Lfu!Strategy!Next <=> LfuP!Strategy!Next
  <2> USE DEF Lfu!Strategy!Without, LfuP!Strategy!Without,
              Lfu!Strategy!Fits, LfuP!Strategy!Fits, Lfu!Strategy!Used, LfuP!Strategy!Used,
              Lfu!Strategy!MapThenSumSet, LfuP!Strategy!MapThenSumSet,
              Lfu!Strategy!MapThenFoldSet, LfuP!Strategy!MapThenFoldSet
  <2>1. ASSUME NEW k \in Keys, NEW v \in Values
        PROVE  Lfu!Strategy!Put(k, v) <=> LfuP!Strategy!Put(k, v)
    BY DEF Lfu!Strategy!Put, LfuP!Strategy!Put
  <2>2. Lfu!Strategy!CleanUp <=> LfuP!Strategy!CleanUp
    BY DEF Lfu!Strategy!CleanUp, LfuP!Strategy!CleanUp
  <2>3. QED BY <2>1, <2>2, Zenon DEF Lfu!Strategy!Next, LfuP!Strategy!Next
<1>5. UNCHANGED Lfu!Strategy!vars <=> UNCHANGED LfuP!Strategy!vars
    BY DEF Lfu!Strategy!vars, LfuP!Strategy!vars
<1>6. QED BY <1>1, <1>2, <1>3, <1>4, <1>5

-----------------------------------------------------------------------------
(* The invariant of the strategy in use; the other one was never touched.  *)
Inv ==
    /\ policy \in {"lru", "fifo", "lfu"}
    /\ policy = "lfu" => LfuP!Inv /\ ll = << >>
    /\ policy # "lfu" => ListP!Inv /\ pq = << >>

LEMMA InvInit == Init => Inv
<1> SUFFICES ASSUME Init PROVE Inv
    OBVIOUS
<1>1. policy \in {"lru", "fifo", "lfu"} /\ List!Empty /\ Lfu!Init
    BY DEF Init, New
<1>2. ll = << >> /\ pq = << >>
    BY <1>1 DEF List!Empty, Lfu!Init
<1>3. ASSUME policy = "lfu" PROVE LfuP!Inv
    BY <1>1, SameLfuStates, LfuP!InvInit, CacheConstants
<1>4. ASSUME policy # "lfu" PROVE ListP!Inv
  <2>1. ListP!Init
    BY <1>1, <1>4 DEF List!Empty, ListP!Empty, ListP!Init
  <2>2. QED BY <2>1, ListP!InvInit, CacheConstants
<1>5. QED BY <1>1, <1>2, <1>3, <1>4 DEF Inv

(* A step of the cache is one of the strategy in use.                      *)
LEMMA StepsOfStrategy ==
    ASSUME Inv, [Next]_vars
    PROVE  /\ policy = "lfu" => [LfuP!Next]_(LfuP!vars) /\ UNCHANGED <<policy, ll, latest>>
           /\ policy # "lfu" => [ListP!Next]_(ListP!vars) /\ UNCHANGED <<pq, lfuLatest>>
<1>1. ASSUME policy = "lfu", Next PROVE LfuP!Next /\ UNCHANGED <<policy, ll, latest>>
    BY <1>1, SameLfuSteps DEF Next, UsesList, UsesHeap
<1>2. ASSUME policy # "lfu", Next PROVE ListP!Next /\ UNCHANGED <<pq, lfuLatest>>
    BY <1>2, SameListSteps DEF Next, UsesList, UsesHeap
<1>3. CASE UNCHANGED vars
    BY <1>3 DEF vars, LfuP!vars, ListP!vars
<1>4. QED BY <1>1, <1>2, <1>3

LEMMA InvNext == Inv /\ [Next]_vars => Inv'
<1> SUFFICES ASSUME Inv, [Next]_vars PROVE Inv'
    OBVIOUS
<1>1. CASE policy = "lfu"
  <2>1. LfuP!Inv'
    BY <1>1, StepsOfStrategy, LfuP!InvNext, CacheConstants DEF Inv
  <2>2. policy' = policy /\ ll' = << >>
    BY <1>1, StepsOfStrategy DEF Inv
  <2>3. QED BY <1>1, <2>1, <2>2 DEF Inv
<1>2. CASE policy # "lfu"
  <2>1. ListP!Inv'
    BY <1>2, StepsOfStrategy, ListP!InvNext, CacheConstants DEF Inv
  <2>2. pq' = << >>
    BY <1>2, StepsOfStrategy DEF Inv
  <2>3. policy' \in {"lru", "fifo"}
    BY <2>1 DEF ListP!Inv, ListP!TypeOK
  <2>4. QED BY <2>1, <2>2, <2>3 DEF Inv
<1>3. QED BY <1>1, <1>2

-----------------------------------------------------------------------------
(* Type correctness of the cache, by whatever policy.                      *)
THEOREM CacheTypeCorrect == Spec => []TypeOK
<1>1. Inv => TypeOK
    BY SameListStates, SameLfuStates DEF Inv, TypeOK, ListP!Inv, LfuP!Inv
<1>2. QED BY <1>1, InvInit, InvNext, PTL DEF Spec

(* A cache's map never comes apart from its list, or from its heap and the *)
(* index fields.                                                           *)
THEOREM CacheAlwaysCoherent == Spec => []Coherent
<1>1. Inv => Coherent
    BY SameListStates, SameLfuStates DEF Inv, Coherent, ListP!Inv, LfuP!Inv
<1>2. QED BY <1>1, InvInit, InvNext, PTL DEF Spec

(* Between the calls on a cache, the bytes counted are those of its        *)
(* entries, and within the budget.                                         *)
THEOREM CacheAlwaysAccounted == Spec => []BytesAccounted
<1>1. Inv => BytesAccounted
    BY SameListStates, SameLfuStates DEF Inv, BytesAccounted, ListP!Inv, LfuP!Inv
<1>2. QED BY <1>1, InvInit, InvNext, PTL DEF Spec

(* Between the calls on a cache, the heap of an lfu is in order.           *)
THEOREM CacheHeapAlwaysOrdered == Spec => []HeapOrdered
<1>1. Inv => HeapOrdered
  <2> SUFFICES ASSUME Inv PROVE HeapOrdered
    OBVIOUS
  <2>1. CASE policy = "lfu"
    BY <2>1, SameLfuStates DEF Inv, HeapOrdered, LfuP!Inv
  <2>2. CASE policy # "lfu"
    <3>1. Len(pq) = 0
        BY <2>2 DEF Inv
    <3>2. QED BY <3>1 DEF HeapOrdered, Lfu!HeapOrdered
  <2>3. QED BY <2>1, <2>2
<1>2. QED BY <1>1, InvInit, InvNext, PTL DEF Spec

-----------------------------------------------------------------------------
(* The evictions of a Put never undo that Put, if the entry fits by itself *)
(* and its place is a new one.                                             *)
THEOREM CachePutStays == Spec => PutStays
<1>1. Inv => (policy # "lfu" => List!PutStays)
    BY SameListPromises, ListP!InvPutStays, CacheConstants DEF Inv
<1>2. QED BY <1>1, InvInit, InvNext, PTL DEF Spec, PutStays

(* A fifo is a queue: entries join it at the back and leave from the front.*)
THEOREM CacheKeepsArrivalOrder == Spec => KeepsArrivalOrder
<1>1. Inv /\ [Next]_vars => [policy # "lfu" => List!KeepsArrivalOrder]_vars
  <2> SUFFICES ASSUME Inv, Next, policy # "lfu" PROVE List!KeepsArrivalOrder
    OBVIOUS
  <2>1. ListP!Next
    BY SameListSteps DEF Next, UsesHeap
  <2>2. ListP!KeepsArrivalOrder
    BY <2>1, ListP!InvKeepsArrivalOrder, CacheConstants DEF Inv
  <2>3. QED BY <2>2, SameListPromises
<1>2. QED BY <1>1, InvInit, InvNext, PTL DEF Spec, KeepsArrivalOrder

(* A Put in an lfu evicts what was referenced least, and longest ago.      *)
THEOREM CacheEvictsLeastFrequent == Spec => EvictsLeastFrequent
<1>1. Inv => (policy = "lfu" => Lfu!EvictsLeastFrequent)
    BY SameLfuPromises, LfuP!InvEvictsLeastFrequent, CacheConstants DEF Inv
<1>2. QED BY <1>1, InvInit, InvNext, PTL DEF Spec, EvictsLeastFrequent

(* CleanUp never removes an entry that has not expired.                    *)
THEOREM CacheCleanUpSparesFresh == Spec => CleanUpSparesFresh
<1>1. Inv => IF policy = "lfu" THEN Lfu!CleanUpSparesFresh ELSE List!CleanUpSparesFresh
    BY SameListPromises, SameLfuPromises, ListP!InvCleanUpSparesFresh,
       LfuP!InvCleanUpSparesFresh, CacheConstants DEF Inv
<1>2. QED BY <1>1, InvInit, InvNext, PTL DEF Spec, CleanUpSparesFresh

-----------------------------------------------------------------------------
(* Both strategies start empty,                                            *)
LEMMA InitMaps == Init => List!Strategy!Init /\ Lfu!Strategy!Init
<1> SUFFICES ASSUME Init PROVE List!Strategy!Init /\ Lfu!Strategy!Init
    OBVIOUS
<1>1. ll = << >> /\ latest = [k \in Keys |-> None] /\ DOMAIN << >> = {}
    BY DEF Init, List!Empty
<1>2. List!ContentsOf(ll) = [k \in Keys |-> None]
    BY <1>1 DEF List!ContentsOf, List!KeysOf
<1>3. List!Strategy!Init
    BY <1>1, <1>2 DEF List!Strategy!Init
<1>4. LfuP!Strategy!Init
  <2>1. LfuP!Init
    BY SameLfuStates DEF Init
  <2>2. QED BY <2>1, LfuP!InitMaps, CacheConstants
<1>5. QED BY <1>3, <1>4, SameLfuPromises

(* and what the one in use does maps to the abstract steps.                *)
LEMMA NextMaps ==
    Inv /\ [Next]_vars => /\ [List!Strategy!Next]_(List!Strategy!vars)
                          /\ [Lfu!Strategy!Next]_(Lfu!Strategy!vars)
<1> SUFFICES ASSUME Inv, [Next]_vars
             PROVE  /\ [List!Strategy!Next]_(List!Strategy!vars)
                    /\ [Lfu!Strategy!Next]_(Lfu!Strategy!vars)
    OBVIOUS
<1>1. CASE policy = "lfu"
  <2>1. [LfuP!Strategy!Next]_(LfuP!Strategy!vars)
    BY <1>1, StepsOfStrategy, LfuP!NextMaps, CacheConstants DEF Inv
  <2>2. UNCHANGED List!Strategy!vars
    BY <1>1, StepsOfStrategy DEF List!Strategy!vars, List!ContentsOf
  <2>3. QED BY <2>1, <2>2, SameLfuPromises
<1>2. CASE policy # "lfu"
  <2>1. [ListP!Strategy!Next]_(ListP!Strategy!vars)
    BY <1>2, StepsOfStrategy, ListP!NextMaps, CacheConstants DEF Inv
  <2>2. UNCHANGED Lfu!Strategy!vars
    BY <1>2, StepsOfStrategy DEF Lfu!Strategy!vars, Lfu!ContentsOf
  <2>3. QED BY <2>1, <2>2, SameListPromises
<1>3. QED BY <1>1, <1>2

(* Whatever policy.New has chosen implements the interface of a strategy:  *)
(* what is kept for a key is what was put last, a Put evicts only what     *)
(* does not fit with the new value, and no more than is needed.            *)
THEOREM CacheImplementsStrategy == Spec => KeepsStrategy
BY InvInit, InvNext, InitMaps, NextMaps, PTL
   DEF Spec, KeepsStrategy, List!KeepsStrategy, Lfu!KeepsStrategy,
       List!Strategy!Spec, Lfu!Strategy!Spec
=============================================================================
