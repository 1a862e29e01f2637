-------------------------- MODULE ListCacheProofs --------------------------
(***************************************************************************)
(* Proofs about ListCache, the lru and the fifo, for any keys, values and  *)
(* lengths, any budget and any list.                                       *)
(***************************************************************************)
EXTENDS ListCache, CacheDataProofs

Inv == TypeOK /\ Coherent /\ BytesAccounted

(* Entries are what CacheData prices, and Cost is their price.             *)
LEMMA EntriesPriced ==
    /\ Priced(Entry)
    /\ ListOverhead \in Nat
    /\ \A e \in Entry : CostOf(e, ListOverhead) = Cost(e.key, e.value)
BY CacheConstants DEF Priced, Entry, CostOf, Cost

(* Lengths and costs are natural numbers.                                  *)
LEMMA CostsNat ==
    ASSUME NEW k \in Keys, NEW v \in Values
    PROVE  KeyLen[k] \in Nat /\ ValueLen[v] \in Nat /\ ListOverhead \in Nat /\ Cost(k, v) \in Nat
BY CacheConstants DEF Cost

(* The difference in length is what the new value adds.                    *)
LEMMA Recount ==
    ASSUME NEW k \in Keys, NEW v \in Values, NEW w \in Values,
           NEW b \in Nat, NEW n, n = b + Cost(k, w)
    PROVE  b + Cost(k, v) = n + ValueLen[v] - ValueLen[w]
<1> DEFINE x == KeyLen[k]
           y == ValueLen[v]
           z == ValueLen[w]
           o == ListOverhead
<1>1. x \in Nat /\ y \in Nat /\ z \in Nat /\ o \in Nat
    BY CostsNat
<1>2. n = b + (x + z + o) /\ Cost(k, v) = x + y + o
    BY DEF Cost
<1> HIDE DEF x, y, z, o
<1>3. b + (x + y + o) = n + y - z
    BY <1>1, <1>2
<1>4. QED BY <1>2, <1>3 DEF y, z

(* The loop at the end of Put removes a prefix of the list, no longer than *)
(* needed, if what it is given is coherent and accounted for.              *)
LEMMA EvictFromEffect ==
    ASSUME NEW l \in Seq(Entry), KeysDiffer(l), EvictFrom(l, KeysOf(l), Bytes(l))
    PROVE  \E m \in 0..Len(l) :
               /\ ll' = SubSeq(l, m + 1, Len(l))
               /\ ll' \in Seq(Entry) /\ KeysDiffer(ll')
               /\ cache' = KeysOf(ll')
               /\ nbytes' = Bytes(ll') /\ nbytes' \in Nat /\ ~Overflows(nbytes')
               /\ \A j \in 0..Len(l) : j < m => Overflows(Bytes(SubSeq(l, j + 1, Len(l))))
<1> DEFINE left(i) == Bytes(l) - Bytes(SubSeq(l, 1, i))
           rest(i) == SubSeq(l, i + 1, Len(l))
           fit == {i \in 0..Len(l) : ~Overflows(left(i))}
           m == CHOOSE i \in fit : \A j \in fit : i <= j
<1>1. Len(l) \in Nat /\ Priced(Entry) /\ ListOverhead \in Nat
    BY LenProperties, EntriesPriced
<1>2. ASSUME NEW i \in 0..Len(l)
      PROVE  rest(i) \in Seq(Entry) /\ left(i) = Bytes(rest(i)) /\ Bytes(rest(i)) \in Nat
  <2>1. SubSeq(l, 1, i) \in Seq(Entry) /\ rest(i) \in Seq(Entry)
    BY Parts
  <2>2. Bytes(l) = Bytes(SubSeq(l, 1, i)) + Bytes(rest(i))
    BY <1>1, BytesSplit DEF Bytes
  <2>3. Bytes(SubSeq(l, 1, i)) \in Nat /\ Bytes(rest(i)) \in Nat
    BY <1>1, <2>1, BytesType DEF Bytes
  <2> DEFINE x == Bytes(SubSeq(l, 1, i))
             y == Bytes(rest(i))
  <2>4. left(i) = (x + y) - x
    BY <2>2
  <2>5. x \in Nat /\ y \in Nat
    BY <2>3
  <2> HIDE DEF x, y, left
  <2>6. left(i) = y
    BY <2>4, <2>5
  <2>7. QED BY <2>1, <2>3, <2>6 DEF y
<1>3. /\ fit # {}
      /\ ll' = rest(m)
      /\ cache' = KeysOf(l) \ KeysOf(SubSeq(l, 1, m))
      /\ nbytes' = left(m)
    BY DEF EvictFrom
<1>4. m \in fit /\ \A j \in fit : m <= j
  <2>1. fit \in SUBSET Nat
    BY <1>1
  <2> HIDE DEF fit
  <2>2. \E i \in fit : \A j \in fit : i <= j
    BY <1>3, <2>1, LeastExists
  <2>3. QED BY <2>2
<1> HIDE DEF m
<1>5. m \in 0..Len(l) /\ ~Overflows(left(m))
    BY <1>4
<1>6. ASSUME NEW j \in 0..Len(l), j < m PROVE Overflows(left(j))
    BY <1>1, <1>4, <1>6
<1>7. KeysDiffer(rest(m)) /\ KeysOf(rest(m)) = KeysOf(l) \ KeysOf(SubSeq(l, 1, m))
    BY <1>5, SplitKeys
<1>8. rest(m) \in Seq(Entry) /\ left(m) = Bytes(rest(m)) /\ Bytes(rest(m)) \in Nat
    BY <1>2, <1>5
<1>9. \A j \in 0..Len(l) : j < m => Overflows(Bytes(rest(j)))
    BY <1>2, <1>6
<1>10. QED BY <1>3, <1>5, <1>7, <1>8, <1>9, Zenon

(* What is left when the i-th entry is taken out.                          *)
LEMMA RemovedAreThere ==
    ASSUME NEW s \in Seq(Entry), KeysDiffer(s), NEW i \in 1..Len(s),
           NEW j \in 1..Len(RemoveAt(s, i))
    PROVE  /\ RemoveAt(s, i)[j].key # s[i].key
           /\ \E h \in 1..Len(s) : RemoveAt(s, i)[j] = s[h]
<1> DEFINE h == IF j < i THEN j ELSE j + 1
<1>1. /\ Len(s) \in Nat /\ DOMAIN s = 1..Len(s) /\ j \in 1..(Len(s) - 1)
      /\ RemoveAt(s, i)[j] = IF j < i THEN s[j] ELSE s[j + 1]
    BY RemoveAtProperties, LenProperties
<1>2. h \in 1..Len(s) /\ h # i /\ RemoveAt(s, i)[j] = s[h]
    BY <1>1
<1>3. s[h].key # s[i].key
    BY <1>1, <1>2 DEF KeysDiffer
<1>4. QED BY <1>2, <1>3

(* The list that Put gives to the loop: with the entry at the back, or, if *)
(* fifo has the key, in its old place.                                     *)
Placed(k, v, l) ==
    /\ l \in Seq(Entry) /\ l # << >>
    /\ KeysDiffer(l) /\ KeysOf(l) = cache \cup {k}
    /\ IF policy = "lru" \/ k \notin cache
         THEN l[Len(l)] = Touched(k, v)
         ELSE l = [ll EXCEPT ![ElementOf(k)] = Touched(k, v)]
    /\ k \notin cache => l = Append(ll, Touched(k, v))
    /\ ContentsOf(l) = [ContentsOf(ll) EXCEPT ![k] = v]

(* The map's element is in the list, under its key.                        *)
LEMMA ElementFound ==
    ASSUME Inv, NEW k \in cache
    PROVE  /\ ElementOf(k) \in 1..Len(ll) /\ ll[ElementOf(k)] \in Entry
           /\ ll[ElementOf(k)].key = k /\ ll[ElementOf(k)].value \in Values
<1>1. ll \in Seq(Entry) /\ k \in KeysOf(ll)
    BY DEF Inv, TypeOK, Coherent
<1>2. ElementOf(k) \in 1..Len(ll) /\ ll[ElementOf(k)].key = k
    BY <1>1, PositionFound DEF ElementOf
<1>3. ll[ElementOf(k)] \in Entry
    BY <1>1, <1>2, ElementOfSeq
<1>4. QED BY <1>2, <1>3 DEF Entry

(* Whichever branch Put takes, what it gives to the loop is coherent and   *)
(* accounted for.                                                          *)
LEMMA AddedAtBack ==
    ASSUME Inv, NEW k \in Keys \ cache, NEW v \in Values
    PROVE  /\ Placed(k, v, Append(ll, Touched(k, v)))
           /\ Bytes(Append(ll, Touched(k, v))) = nbytes + Cost(k, v)
<1> DEFINE e == Touched(k, v)
           l == Append(ll, e)
<1>1. ll \in Seq(Entry) /\ KeysDiffer(ll) /\ cache = KeysOf(ll) /\ nbytes = Bytes(ll)
    BY DEF Inv, TypeOK, Coherent, BytesAccounted, KeysDiffer
<1>2. e \in Entry /\ e.key = k /\ e.value = v
    BY DEF Touched, Entry, Inv, TypeOK
<1> HIDE DEF e
<1>3. KeysDiffer(l) /\ KeysOf(l) = cache \cup {k}
    BY <1>1, <1>2, AppendKeys
<1>4. l \in Seq(Entry) /\ l # << >> /\ l[Len(l)] = e
  <2>1. /\ l \in Seq(Entry) /\ l # << >> /\ Len(l) = Len(ll) + 1
        /\ l[Len(ll) + 1] = e
    BY <1>1, <1>2, AppendProperties
  <2>2. QED BY <2>1
<1>5. Bytes(l) = Bytes(ll) + Cost(k, v)
    BY <1>1, <1>2, BytesAppend, EntriesPriced DEF Bytes
<1>6. ASSUME NEW i \in 1..Len(l)
      PROVE  \/ l[i].key = k /\ l[i].value = v
             \/ l[i].key # k /\ \E j \in 1..Len(ll) : l[i] = ll[j]
  <2>1. /\ Len(l) = Len(ll) + 1 /\ l[Len(ll) + 1] = e /\ Len(ll) \in Nat
        /\ \A j \in 1..Len(ll) : l[j] = ll[j] /\ ll[j].key # k
    BY <1>1, <1>2, AppendProperties, LenProperties DEF KeysOf
  <2>2. i \in 1..Len(ll) \/ i = Len(ll) + 1
    BY <2>1
  <2>3. QED BY <1>2, <2>1, <2>2
<1> HIDE DEF l
<1>7. ContentsOf(l) = [ContentsOf(ll) EXCEPT ![k] = v]
  <2>1. Priced(Entry)
    BY EntriesPriced
  <2>2. KeysOf(l) = KeysOf(ll) \cup {k}
    BY <1>1, <1>3
  <2>3. QED BY <1>1, <1>3, <1>4, <1>6, <2>1, <2>2, ContentsWith
<1>8. QED BY <1>1, <1>3, <1>4, <1>5, <1>7 DEF Placed, e, l

(* So it is for lru's Put of a key that is there,                          *)
LEMMA MovedToBack ==
    ASSUME Inv, policy = "lru", NEW k \in cache, NEW v \in Values
    PROVE  /\ Placed(k, v, Append(RemoveAt(ll, ElementOf(k)), Touched(k, v)))
           /\ Bytes(Append(RemoveAt(ll, ElementOf(k)), Touched(k, v)))
                  = nbytes + ValueLen[v] - ValueLen[ll[ElementOf(k)].value]
<1> DEFINE e == Touched(k, v)
           i == ElementOf(k)
           r == RemoveAt(ll, i)
           l == Append(r, e)
<1>1. /\ ll \in Seq(Entry) /\ KeysDiffer(ll) /\ cache = KeysOf(ll) /\ nbytes = Bytes(ll)
      /\ k \in Keys
    BY DEF Inv, TypeOK, Coherent, BytesAccounted, KeysDiffer
<1>2. e \in Entry /\ e.key = k /\ e.value = v
    BY <1>1 DEF Touched, Entry, Inv, TypeOK
<1>3. i \in 1..Len(ll) /\ ll[i] \in Entry /\ ll[i].key = k /\ ll[i].value \in Values
    BY ElementFound
<1> HIDE DEF e, i
<1>4. r \in Seq(Entry) /\ KeysDiffer(r) /\ KeysOf(r) = cache \ {k}
    BY <1>1, <1>3, RemoveAtProperties, RemoveKeys
<1>4a. \A j \in 1..Len(r) : r[j].key # k /\ \E h \in 1..Len(ll) : r[j] = ll[h]
    BY <1>1, <1>3, <1>4, RemovedAreThere
<1>5. Bytes(ll) = Bytes(r) + Cost(k, ll[i].value) /\ Bytes(r) \in Nat
    BY <1>1, <1>3, <1>4, BytesRemoveAt, BytesType, EntriesPriced DEF Bytes
<1> HIDE DEF r
<1>6. KeysDiffer(l) /\ KeysOf(l) = cache \cup {k}
    BY <1>2, <1>4, AppendKeys
<1>7. l \in Seq(Entry) /\ l # << >> /\ l[Len(l)] = e
  <2>1. /\ l \in Seq(Entry) /\ l # << >> /\ Len(l) = Len(r) + 1
        /\ l[Len(r) + 1] = e
    BY <1>2, <1>4, AppendProperties
  <2>2. QED BY <2>1
<1>8. Bytes(l) = Bytes(r) + Cost(k, v)
    BY <1>2, <1>4, BytesAppend, EntriesPriced DEF Bytes
<1>9. ASSUME NEW h \in 1..Len(l)
      PROVE  \/ l[h].key = k /\ l[h].value = v
             \/ l[h].key # k /\ \E j \in 1..Len(ll) : l[h] = ll[j]
  <2>1. /\ Len(l) = Len(r) + 1 /\ l[Len(r) + 1] = e /\ Len(r) \in Nat
        /\ \A j \in 1..Len(r) : l[j] = r[j]
    BY <1>2, <1>4, AppendProperties, LenProperties
  <2>2. h \in 1..Len(r) \/ h = Len(r) + 1
    BY <2>1
  <2>3. QED BY <1>2, <1>4a, <2>1, <2>2
<1> HIDE DEF l
<1>10. ContentsOf(l) = [ContentsOf(ll) EXCEPT ![k] = v]
    BY <1>1, <1>6, <1>7, <1>9, ContentsWith, EntriesPriced
<1>11. Bytes(l) = nbytes + ValueLen[v] - ValueLen[ll[i].value]
    BY <1>1, <1>3, <1>5, <1>8, Recount
<1>12. QED BY <1>6, <1>7, <1>10, <1>11 DEF Placed, e, i, l, r

(* for fifo's,                                                             *)
LEMMA UpdatedInPlace ==
    ASSUME Inv, policy = "fifo", NEW k \in cache, NEW v \in Values
    PROVE  /\ Placed(k, v, [ll EXCEPT ![ElementOf(k)] = Touched(k, v)])
           /\ Bytes([ll EXCEPT ![ElementOf(k)] = Touched(k, v)])
                  = nbytes + ValueLen[v] - ValueLen[ll[ElementOf(k)].value]
<1> DEFINE e == Touched(k, v)
           i == ElementOf(k)
           r == RemoveAt(ll, i)
           l == [ll EXCEPT ![i] = e]
<1>1. /\ ll \in Seq(Entry) /\ KeysDiffer(ll) /\ cache = KeysOf(ll) /\ nbytes = Bytes(ll)
      /\ k \in Keys
    BY DEF Inv, TypeOK, Coherent, BytesAccounted, KeysDiffer
<1>2. e \in Entry /\ e.key = k /\ e.value = v
    BY <1>1 DEF Touched, Entry, Inv, TypeOK
<1>3. i \in 1..Len(ll) /\ ll[i] \in Entry /\ ll[i].key = k /\ ll[i].value \in Values
    BY ElementFound
<1> HIDE DEF e, i
<1>4. KeysDiffer(l) /\ KeysOf(l) = cache \cup {k}
  <2>1. KeysDiffer(l) /\ KeysOf(l) = KeysOf(ll)
    BY <1>1, <1>2, <1>3, ReplaceKeys
  <2>2. QED BY <1>1, <2>1
<1>5. l \in Seq(Entry) /\ l # << >>
  <2>1. l \in Seq(Entry) /\ Len(l) = Len(ll) /\ Len(ll) \in Nat
    BY <1>1, <1>2, <1>3, ExceptSeq, LenProperties
  <2>2. QED BY <1>3, <2>1, EmptySeq
<1>6. r \in Seq(Entry) /\ Bytes(ll) = Bytes(r) + Cost(k, ll[i].value) /\ Bytes(r) \in Nat
  <2>1. r \in Seq(Entry)
    BY <1>1, <1>3, RemoveAtProperties
  <2>2. Bytes(ll) = Bytes(r) + CostOf(ll[i], ListOverhead)
    BY <1>1, <1>3, BytesRemoveAt, EntriesPriced DEF Bytes
  <2>3. CostOf(ll[i], ListOverhead) = Cost(k, ll[i].value)
    BY <1>3, EntriesPriced
  <2>4. Bytes(r) \in Nat
    BY <2>1, BytesType, EntriesPriced DEF Bytes
  <2>5. QED BY <2>1, <2>2, <2>3, <2>4
<1>7. Bytes(l) = Bytes(r) + Cost(k, v)
    BY <1>1, <1>2, <1>3, BytesReplace, EntriesPriced DEF Bytes
<1>8. ASSUME NEW h \in 1..Len(l)
      PROVE  \/ l[h].key = k /\ l[h].value = v
             \/ l[h].key # k /\ \E j \in 1..Len(ll) : l[h] = ll[j]
  <2>1. /\ DOMAIN ll = 1..Len(ll) /\ Len(l) = Len(ll)
        /\ l[h] = IF h = i THEN e ELSE ll[h]
    BY <1>1, <1>2, <1>3, ExceptSeq, LenProperties
  <2>2. h # i => ll[h].key # k
    BY <1>1, <1>3, <2>1 DEF KeysDiffer
  <2>3. QED BY <1>2, <2>1, <2>2
<1> HIDE DEF l, r
<1>9. ContentsOf(l) = [ContentsOf(ll) EXCEPT ![k] = v]
    BY <1>1, <1>4, <1>5, <1>8, ContentsWith, EntriesPriced
<1>10. Bytes(l) = nbytes + ValueLen[v] - ValueLen[ll[i].value]
    BY <1>1, <1>3, <1>6, <1>7, Recount
<1>11. QED BY <1>4, <1>5, <1>9, <1>10 DEF Placed, e, i, l

(* and so for every Put.                                                   *)
LEMMA PutPlaces ==
    ASSUME Inv, NEW k \in Keys, NEW v \in Values, Put(k, v)
    PROVE  \E l : Placed(k, v, l) /\ EvictFrom(l, KeysOf(l), Bytes(l))
<1>1. CASE PutNew(k, v)
  <2>1. KeysOf(Append(ll, Touched(k, v))) = cache \cup {k}
    BY <1>1, AddedAtBack DEF PutNew, Placed
  <2>2. QED BY <1>1, <2>1, AddedAtBack DEF PutNew
<1>2. CASE LruPutExisting(k, v)
  <2> DEFINE l == Append(RemoveAt(ll, ElementOf(k)), Touched(k, v))
  <2>1. /\ k \in cache /\ Placed(k, v, l)
        /\ Bytes(l) = nbytes + ValueLen[v] - ValueLen[ll[ElementOf(k)].value]
    BY <1>2, MovedToBack DEF LruPutExisting
  <2>2. KeysOf(l) = cache
    BY <2>1 DEF Placed
  <2>3. EvictFrom(l, cache, nbytes + ValueLen[v] - ValueLen[ll[ElementOf(k)].value])
    BY <1>2 DEF LruPutExisting
  <2>4. QED BY <2>1, <2>2, <2>3
<1>3. CASE FifoPutExisting(k, v)
  <2> DEFINE l == [ll EXCEPT ![ElementOf(k)] = Touched(k, v)]
  <2>1. /\ k \in cache /\ Placed(k, v, l)
        /\ Bytes(l) = nbytes + ValueLen[v] - ValueLen[ll[ElementOf(k)].value]
    BY <1>3, UpdatedInPlace DEF FifoPutExisting
  <2>2. KeysOf(l) = cache
    BY <2>1 DEF Placed
  <2>3. EvictFrom(l, cache, nbytes + ValueLen[v] - ValueLen[ll[ElementOf(k)].value])
    BY <1>3 DEF FifoPutExisting
  <2>4. QED BY <2>1, <2>2, <2>3
<1>4. QED BY <1>1, <1>2, <1>3 DEF Put

-----------------------------------------------------------------------------
(* The invariant holds of the empty cache,                                 *)
LEMMA InvInit == Init => Inv
<1> SUFFICES ASSUME Init PROVE Inv
    OBVIOUS
<1>1. /\ policy \in {"lru", "fifo"} /\ ll = << >> /\ cache = {} /\ nbytes = 0 /\ now = 0
      /\ latest = [k \in Keys |-> None]
    BY DEF Init, Empty
<1>2. Bytes(<< >>) = 0
    BY BytesEmpty, EntriesPriced DEF Bytes
<1>3. MaxBytes \in Nat /\ MaxTime \in Nat
    BY CacheConstants
<1>4. << >> \in Seq(Entry) /\ DOMAIN << >> = {}
    OBVIOUS
<1>5. TypeOK
    BY <1>1, <1>3, <1>4 DEF TypeOK
<1>6. Coherent
    BY <1>1, <1>4 DEF Coherent, KeysOf
<1>7. BytesAccounted
    BY <1>1, <1>2, <1>3 DEF BytesAccounted, Overflows
<1>8. QED BY <1>5, <1>6, <1>7 DEF Inv

(* after a hit of lru,                                                     *)
LEMMA GetKeepsInv ==
    ASSUME Inv, NEW k \in Keys, LruGet(k)
    PROVE  Inv'
<1> DEFINE i == ElementOf(k)
           e == Touched(k, ll[i].value)
           r == RemoveAt(ll, i)
           l == <<e>> \o r
<1>1. k \in cache /\ ll' = l /\ UNCHANGED <<policy, cache, nbytes, now, latest>>
    BY DEF LruGet
<1>2. /\ ll \in Seq(Entry) /\ KeysDiffer(ll) /\ cache = KeysOf(ll)
      /\ nbytes = Bytes(ll) /\ ~Overflows(nbytes)
    BY DEF Inv, TypeOK, Coherent, BytesAccounted, KeysDiffer
<1>3. i \in 1..Len(ll) /\ ll[i] \in Entry /\ ll[i].key = k /\ ll[i].value \in Values
    BY <1>1, ElementFound
<1>4. e \in Entry /\ e.key = k /\ e.value = ll[i].value
    BY <1>3 DEF Touched, Entry, Inv, TypeOK
<1> HIDE DEF i, e
<1>5. r \in Seq(Entry) /\ KeysDiffer(r) /\ KeysOf(r) = cache \ {k}
    BY <1>2, <1>3, RemoveAtProperties, RemoveKeys
<1>6. Bytes(ll) = Bytes(r) + CostOf(ll[i], ListOverhead)
    BY <1>2, <1>3, BytesRemoveAt, EntriesPriced DEF Bytes
<1> HIDE DEF r
<1>7. <<e>> \in Seq(Entry) /\ l \in Seq(Entry)
    BY <1>4, <1>5, ConcatProperties
<1>8. KeysDiffer(l) /\ KeysOf(l) = cache
  <2>1. KeysDiffer(l) /\ KeysOf(l) = KeysOf(r) \cup {e.key}
    BY <1>4, <1>5, ConsKeys
  <2>2. QED BY <1>1, <1>4, <1>5, <2>1
<1>9. Bytes(l) = Bytes(ll)
  <2>1. Bytes(l) = Bytes(r) + CostOf(e, ListOverhead)
    BY <1>4, <1>5, BytesCons, EntriesPriced DEF Bytes
  <2>2. CostOf(e, ListOverhead) = CostOf(ll[i], ListOverhead)
    BY <1>3, <1>4 DEF CostOf
  <2>3. QED BY <1>6, <2>1, <2>2
<1> HIDE DEF l
<1>10. TypeOK'
    BY <1>1, <1>7 DEF Inv, TypeOK
<1>11. Coherent'
    BY <1>1, <1>8 DEF Coherent, KeysDiffer
<1>12. BytesAccounted'
    BY <1>1, <1>2, <1>9 DEF BytesAccounted, Bytes
<1>13. QED BY <1>10, <1>11, <1>12 DEF Inv

(* a Put with its evictions                                                *)
LEMMA PutKeepsInv ==
    ASSUME Inv, NEW k \in Keys, NEW v \in Values, Put(k, v)
    PROVE  Inv'
<1>1. PICK l : Placed(k, v, l) /\ EvictFrom(l, KeysOf(l), Bytes(l))
    BY PutPlaces
<1>2. l \in Seq(Entry) /\ KeysDiffer(l) /\ KeysOf(l) = cache \cup {k}
    BY <1>1 DEF Placed
<1>3. PICK m \in 0..Len(l) :
          /\ ll' = SubSeq(l, m + 1, Len(l))
          /\ ll' \in Seq(Entry) /\ KeysDiffer(ll')
          /\ cache' = KeysOf(ll')
          /\ nbytes' = Bytes(ll') /\ nbytes' \in Nat /\ ~Overflows(nbytes')
    BY <1>1, <1>2, EvictFromEffect
<1>4. cache' \subseteq Keys
    BY <1>3 DEF KeysOf, Entry
<1>5. latest' \in [Keys -> Values \cup {None}] /\ UNCHANGED <<policy, now>>
    BY DEF Put, Inv, TypeOK
<1>6. TypeOK'
    BY <1>3, <1>4, <1>5 DEF Inv, TypeOK
<1>7. Coherent'
    BY <1>3 DEF Coherent, KeysDiffer
<1>8. BytesAccounted'
    BY <1>3 DEF BytesAccounted, Bytes
<1>9. QED BY <1>6, <1>7, <1>8 DEF Inv

(* The list that CleanUp leaves.                                           *)
LEMMA CleanUpEffect ==
    ASSUME Inv, CleanUp
    PROVE  /\ 1 \in 1..Len(ll) /\ Len(ll) \in Nat
           /\ Head(ll) = ll[1] /\ Head(ll) \in Entry
           /\ ll' = SubSeq(ll, 2, Len(ll)) /\ ll' \in Seq(Entry) /\ KeysDiffer(ll')
           /\ cache' = KeysOf(ll') /\ cache' = cache \ {Head(ll).key}
           /\ nbytes' = Bytes(ll') /\ nbytes' \in Nat /\ ~Overflows(nbytes')
<1> DEFINE r == SubSeq(ll, 2, Len(ll))
           e == Head(ll)
<1>1. /\ ll \in Seq(Entry) /\ KeysDiffer(ll) /\ cache = KeysOf(ll)
      /\ nbytes = Bytes(ll) /\ ~Overflows(nbytes) /\ nbytes \in Nat
    BY DEF Inv, TypeOK, Coherent, BytesAccounted, KeysDiffer
<1>2. /\ ll # << >> /\ ll' = Tail(ll) /\ cache' = cache \ {e.key}
      /\ nbytes' = nbytes - Cost(e.key, e.value)
    BY DEF CleanUp
<1>3. 1 \in 1..Len(ll) /\ Len(ll) \in Nat /\ e = ll[1]
    BY <1>1, <1>2, EmptySeq, LenProperties
<1>4. e \in Entry
    BY <1>1, <1>3, ElementOfSeq
<1>5. Tail(ll) = r
    BY <1>1, <1>2, TailIsSubSeq
<1>6. RemoveAt(ll, 1) = r
  <2>1. RemoveAt(ll, 1) = SubSeq(ll, 1, 0) \o r
    BY DEF RemoveAt
  <2>2. SubSeq(ll, 1, 0) = << >>
    BY SubSeqEmpty
  <2>3. r \in Seq(Entry)
    BY <1>1, <1>2, <1>5, HeadTailProperties
  <2>4. QED BY <2>1, <2>2, <2>3, ConcatEmptySeq
<1> HIDE DEF e, r
<1>7. r \in Seq(Entry) /\ KeysDiffer(r) /\ KeysOf(r) = cache \ {e.key}
    BY <1>1, <1>3, <1>6, RemoveAtProperties, RemoveKeys
<1>8. Bytes(ll) = Bytes(r) + Cost(e.key, e.value)
    BY <1>1, <1>3, <1>4, <1>6, BytesRemoveAt, EntriesPriced DEF Bytes
<1>9. Bytes(r) \in Nat /\ Cost(e.key, e.value) \in Nat
  <2>1. Bytes(r) \in Nat
    BY <1>7, BytesType, EntriesPriced DEF Bytes
  <2>2. e.key \in Keys /\ e.value \in Values
    BY <1>4 DEF Entry
  <2>3. QED BY <2>1, <2>2, CostsNat
<1>10. nbytes' = Bytes(r) /\ ~Overflows(nbytes')
  <2> DEFINE b == Bytes(r)
             c == Cost(e.key, e.value)
  <2>1. nbytes' = (b + c) - c /\ nbytes = b + c /\ b \in Nat /\ c \in Nat /\ MaxBytes \in Nat
    BY <1>1, <1>2, <1>8, <1>9, CacheConstants
  <2> HIDE DEF b, c
  <2>2. nbytes' = b
    BY <2>1
  <2>3. ~Overflows(b)
    BY <1>1, <2>1 DEF Overflows
  <2>4. QED BY <2>2, <2>3 DEF b
<1>11. QED BY <1>2, <1>3, <1>4, <1>5, <1>7, <1>9, <1>10 DEF e, r

(* and a CleanUp.                                                          *)
LEMMA CleanUpKeepsInv ==
    ASSUME Inv, CleanUp
    PROVE  Inv'
<1>1. /\ ll' \in Seq(Entry) /\ KeysDiffer(ll')
      /\ cache' = KeysOf(ll') /\ cache' \subseteq cache
      /\ nbytes' = Bytes(ll') /\ nbytes' \in Nat /\ ~Overflows(nbytes')
    BY CleanUpEffect
<1>2. UNCHANGED <<policy, now, latest>>
    BY DEF CleanUp
<1>3. TypeOK'
    BY <1>1, <1>2 DEF Inv, TypeOK
<1>4. Coherent'
    BY <1>1 DEF Coherent, KeysDiffer
<1>5. BytesAccounted'
    BY <1>1 DEF BytesAccounted, Bytes
<1>6. QED BY <1>3, <1>4, <1>5 DEF Inv

(* The strengthening is mutual: a removal finds the element of a key, and  *)
(* subtracts no more than was counted, because map and list agree; they go *)
(* on agreeing because the count tells the loop where to stop.             *)
LEMMA InvNext == Inv /\ [Next]_vars => Inv'
<1> SUFFICES ASSUME Inv, [Next]_vars PROVE Inv'
    OBVIOUS
<1>1. ASSUME NEW k \in Keys, LruGet(k) PROVE Inv'
    BY <1>1, GetKeepsInv
<1>2. ASSUME NEW k \in Keys, NEW v \in Values, Put(k, v) PROVE Inv'
    BY <1>2, PutKeepsInv
<1>3. CASE CleanUp
    BY <1>3, CleanUpKeepsInv
<1>4. CASE Tick
  <2>1. now' \in 0..MaxTime /\ UNCHANGED <<policy, ll, cache, nbytes, latest>>
    BY <1>4, CacheConstants DEF Tick, Inv, TypeOK
  <2>2. QED BY <2>1 DEF Inv, TypeOK, Coherent, BytesAccounted, Bytes
<1>5. CASE UNCHANGED vars
    BY <1>5 DEF vars, Inv, TypeOK, Coherent, BytesAccounted, Bytes
<1>6. QED BY <1>1, <1>2, <1>3, <1>4, <1>5 DEF Next

(* Type correctness.                                                       *)
THEOREM ListTypeCorrect == Spec => []TypeOK
<1>1. Inv => TypeOK
    BY DEF Inv
<1>2. QED BY <1>1, InvInit, InvNext, PTL DEF Spec

(* In lru and fifo, through any Gets, Puts with their evictions, and       *)
(* CleanUps: the map holds exactly the keys of the list, each key once.    *)
THEOREM ListAlwaysCoherent == Spec => []Coherent
<1>1. Inv => Coherent
    BY DEF Inv
<1>2. QED BY <1>1, InvInit, InvNext, PTL DEF Spec

(* The three places that count bytes agree: nbytes is what the entries in  *)
(* the list cost, and never over the budget, between operations.           *)
THEOREM ListAlwaysAccounted == Spec => []BytesAccounted
<1>1. Inv => BytesAccounted
    BY DEF Inv
<1>2. QED BY <1>1, InvInit, InvNext, PTL DEF Spec

-----------------------------------------------------------------------------
(* The loop on a list l with a count n: some number of removals is enough. *)
LoopEnds(l, n) == \E i \in 0..Len(l) : ~Overflows(n - Bytes(SubSeq(l, 1, i)))

PutLoopEnds ==
    \A k \in Keys, v \in Values :
        /\ k \notin cache => LoopEnds(Append(ll, Touched(k, v)), nbytes + Cost(k, v))
        /\ k \in cache =>
              LET i == ElementOf(k)
                  n == nbytes + ValueLen[v] - ValueLen[ll[i].value]
              IN /\ policy = "lru" => LoopEnds(Append(RemoveAt(ll, i), Touched(k, v)), n)
                 /\ policy = "fifo" => LoopEnds([ll EXCEPT ![i] = Touched(k, v)], n)

(* Removing everything is enough, if what is there was counted.            *)
LEMMA AccountedLoopEnds ==
    ASSUME NEW l \in Seq(Entry), NEW n, n = Bytes(l)
    PROVE  LoopEnds(l, n)
<1>1. Len(l) \in Nat /\ Len(l) \in 0..Len(l) /\ SubSeq(l, 1, Len(l)) = l
    BY LenProperties, SubSeqFull
<1>2. Bytes(l) \in Nat /\ MaxBytes \in Nat
    BY BytesType, EntriesPriced, CacheConstants DEF Bytes
<1>3. ~Overflows(n - Bytes(l))
  <2>1. n - Bytes(l) = 0
    BY <1>2
  <2>2. QED BY <1>2, <2>1 DEF Overflows
<1>4. QED BY <1>1, <1>3 DEF LoopEnds

(* The loop of Put, which tests the count and not the list, ends: it never *)
(* goes on with an empty list, holding the lock.                           *)
THEOREM PutAlwaysEnds == Spec => []PutLoopEnds
<1>1. Inv => PutLoopEnds
  <2> SUFFICES ASSUME Inv, NEW k \in Keys, NEW v \in Values
               PROVE  /\ k \notin cache =>
                            LoopEnds(Append(ll, Touched(k, v)), nbytes + Cost(k, v))
                      /\ k \in cache =>
                            LET i == ElementOf(k)
                                n == nbytes + ValueLen[v] - ValueLen[ll[i].value]
                            IN /\ policy = "lru" =>
                                      LoopEnds(Append(RemoveAt(ll, i), Touched(k, v)), n)
                               /\ policy = "fifo" =>
                                      LoopEnds([ll EXCEPT ![i] = Touched(k, v)], n)
    BY DEF PutLoopEnds
  <2>1. CASE k \notin cache
    BY <2>1, AddedAtBack, AccountedLoopEnds DEF Placed
  <2>2. CASE k \in cache
    <3>1. CASE policy = "lru"
        BY <2>2, <3>1, MovedToBack, AccountedLoopEnds DEF Placed
    <3>2. CASE policy = "fifo"
        BY <2>2, <3>2, UpdatedInPlace, AccountedLoopEnds DEF Placed
    <3>3. QED BY <2>2, <3>1, <3>2
  <2>3. QED BY <2>1, <2>2
<1>2. QED BY <1>1, InvInit, InvNext, PTL DEF Spec

(* If the new entry, at the back, were evicted, all before it were, and it *)
(* alone overflows.                                                        *)
LEMMA InvPutStays == Inv => PutStays
<1> SUFFICES ASSUME Inv, NEW k \in Keys, NEW v \in Values,
                    Put(k, v), ~Overflows(Cost(k, v)), policy = "lru" \/ k \notin cache
             PROVE  k \in cache'
    BY DEF PutStays
<1>1. PICK l : Placed(k, v, l) /\ EvictFrom(l, KeysOf(l), Bytes(l))
    BY PutPlaces
<1>2. l \in Seq(Entry) /\ KeysDiffer(l) /\ l[Len(l)] = Touched(k, v) /\ l # << >>
    BY <1>1 DEF Placed
<1> DEFINE n == Len(l)
           e == Touched(k, v)
<1>3. n \in Nat /\ n # 0 /\ e \in Entry /\ e.key = k /\ e.value = v
  <2>1. n \in Nat /\ n # 0
    BY <1>2, EmptySeq, LenProperties
  <2>2. QED BY <2>1 DEF Touched, Entry, Inv, TypeOK
<1>4. PICK m \in 0..n :
          /\ ll' = SubSeq(l, m + 1, n)
          /\ cache' = KeysOf(ll')
          /\ \A j \in 0..n : j < m => Overflows(Bytes(SubSeq(l, j + 1, n)))
    BY <1>1, <1>2, EvictFromEffect
<1> HIDE DEF n, e
<1>5. CASE m = n
  <2>1. n - 1 \in 0..n /\ n - 1 < m /\ (n - 1) + 1 = n
    BY <1>3, <1>5
  <2>2. Overflows(Bytes(SubSeq(l, n, n)))
    BY <1>4, <2>1
  <2>3. SubSeq(l, n, n) = <<e>>
    <3>1. /\ SubSeq(l, n, n) \in Seq(Entry) /\ Len(SubSeq(l, n, n)) = 1
          /\ SubSeq(l, n, n)[1] = e
      <4>1. /\ SubSeq(l, (n - 1) + 1, n) \in Seq(Entry)
            /\ Len(SubSeq(l, (n - 1) + 1, n)) = n - (n - 1)
            /\ \A j \in 1..(n - (n - 1)) : SubSeq(l, (n - 1) + 1, n)[j] = l[(n - 1) + j]
        BY <1>2, <2>1, Parts DEF n
      <4>2. n - (n - 1) = 1 /\ 1 \in 1..1
        BY <1>3
      <4>3. QED BY <1>2, <2>1, <4>1, <4>2 DEF n, e
    <3>2. <<e>> \in Seq(Entry) /\ Len(<<e>>) = 1 /\ <<e>>[1] = e
        BY <1>3
    <3>3. \A j \in 1..1 : j = 1
        OBVIOUS
    <3>4. QED BY <3>1, <3>2, <3>3, SeqEqual
  <2>4. Bytes(<<e>>) = Cost(k, v)
    BY <1>3, BytesSingle, EntriesPriced DEF Bytes
  <2>5. QED BY <2>2, <2>3, <2>4
<1>6. CASE m # n
  <2>1. n - m \in 1..(n - m) /\ m + (n - m) = n
    BY <1>3, <1>6
  <2>2. /\ SubSeq(l, m + 1, n) \in Seq(Entry)
        /\ Len(SubSeq(l, m + 1, n)) = n - m
        /\ \A j \in 1..(n - m) : SubSeq(l, m + 1, n)[j] = l[m + j]
    BY <1>2, <1>4, Parts DEF n
  <2>3. ll'[n - m] = e /\ n - m \in DOMAIN ll'
    BY <1>2, <1>4, <2>1, <2>2, LenProperties DEF n, e
  <2>4. QED BY <1>3, <1>4, <2>3 DEF KeysOf
<1>7. QED BY <1>5, <1>6

(* A Put of an entry that fits the budget by itself is not undone by its   *)
(* own evictions, of however many other entries.                           *)
THEOREM PutAlwaysStays == Spec => [][PutStays]_vars
<1>1. Inv /\ [Next]_vars => [PutStays]_vars
    BY InvPutStays
<1>2. QED BY <1>1, InvInit, InvNext, PTL DEF Spec

(* CleanUp removes the front, which has expired.                           *)
LEMMA InvCleanUpSparesFresh == Inv => CleanUpSparesFresh
<1> SUFFICES ASSUME Inv, CleanUp, NEW i \in DOMAIN ll
             PROVE  Expired(ll[i], now) \/ ll[i].key \in cache'
    BY DEF CleanUpSparesFresh
<1>1. /\ ll \in Seq(Entry) /\ cache = KeysOf(ll)
      /\ \A x, y \in DOMAIN ll : ll[x].key = ll[y].key => x = y
    BY DEF Inv, TypeOK, Coherent
<1>2. /\ 1 \in DOMAIN ll /\ Head(ll) = ll[1] /\ cache' = cache \ {Head(ll).key}
  <2>1. DOMAIN ll = 1..Len(ll)
    BY <1>1, LenProperties
  <2>2. QED BY <2>1, CleanUpEffect
<1>3. CASE i = 1
    BY <1>2, <1>3 DEF CleanUp
<1>4. CASE i # 1
  <2>1. ll[i].key # ll[1].key /\ ll[i].key \in cache
    BY <1>1, <1>2, <1>4 DEF KeysOf
  <2>2. QED BY <1>2, <2>1
<1>5. QED BY <1>3, <1>4

(* CleanUp, which changes the list it walks, removes no entry that has not *)
(* expired.                                                                *)
THEOREM CleanUpAlwaysSparesFresh == Spec => [][CleanUpSparesFresh]_vars
<1>1. Inv /\ [Next]_vars => [CleanUpSparesFresh]_vars
    BY InvCleanUpSparesFresh
<1>2. QED BY <1>1, InvInit, InvNext, PTL DEF Spec

-----------------------------------------------------------------------------
(* The keys of l, in order.                                                *)
KeyRow(l) == [i \in DOMAIN l |-> l[i].key]

(* The keys of ll after the first n.                                       *)
Stay(n) == [i \in 1..(Len(ll) - n) |-> ll[n + i].key]

(* The row of keys of a list without a prefix.                             *)
LEMMA KeyRowOfRest ==
    ASSUME NEW l \in Seq(Entry), NEW m \in 0..Len(l)
    PROVE  KeyRow(SubSeq(l, m + 1, Len(l))) = [i \in 1..(Len(l) - m) |-> l[m + i].key]
<1> DEFINE r == SubSeq(l, m + 1, Len(l))
<1>1. DOMAIN r = 1..(Len(l) - m) /\ \A j \in 1..(Len(l) - m) : r[j] = l[m + j]
    BY Parts, LenProperties
<1> HIDE DEF r
<1>2. KeyRow(r) = [i \in 1..(Len(l) - m) |-> l[m + i].key]
    BY <1>1 DEF KeyRow
<1>3. QED BY <1>2 DEF r

(* The row of those that stay, as a sequence.                              *)
LEMMA StayIsRow ==
    ASSUME Inv, NEW n \in 0..Len(ll)
    PROVE  /\ Stay(n) \in Seq(Keys) /\ Len(Stay(n)) = Len(ll) - n
           /\ \A i \in 1..(Len(ll) - n) : Stay(n)[i] = ll[n + i].key
<1>1. ll \in Seq(Entry) /\ Len(ll) \in Nat /\ Len(ll) - n \in Nat
    BY LenProperties DEF Inv, TypeOK
<1>2. ASSUME NEW i \in 1..(Len(ll) - n) PROVE ll[n + i].key \in Keys
  <2>1. n + i \in 1..Len(ll)
    BY <1>1
  <2>2. ll[n + i] \in Entry
    BY <1>1, <2>1, ElementOfSeq
  <2>3. QED BY <2>2 DEF Entry
<1>3. QED BY <1>1, <1>2 DEF Stay

(* A fifo's Put of a key that is there leaves the others where they were,  *)
(* but for those evicted from the front.                                   *)
LEMMA UpdateKeepsOrder ==
    ASSUME Inv, policy = "fifo", NEW k \in cache, NEW v \in Values, NEW m \in 0..Len(ll),
           NEW l, l = [ll EXCEPT ![ElementOf(k)] = Touched(k, v)],
           l \in Seq(Entry), ll' = SubSeq(l, m + 1, Len(l))
    PROVE  KeyRow(ll') = Stay(m)
<1>1. /\ ll \in Seq(Entry) /\ Len(ll) \in Nat
      /\ ElementOf(k) \in 1..Len(ll) /\ ll[ElementOf(k)].key = k
    BY ElementFound, LenProperties DEF Inv, TypeOK
<1>2. Touched(k, v) \in Entry /\ Touched(k, v).key = k
    BY DEF Touched, Entry, Inv, TypeOK
<1>3. Len(l) = Len(ll) /\ \A j \in 1..Len(ll) : l[j].key = ll[j].key
    BY <1>1, <1>2, ExceptSeq
<1>4. KeyRow(ll') = [i \in 1..(Len(ll) - m) |-> l[m + i].key]
  <2>1. m \in 0..Len(l)
    BY <1>3
  <2>2. KeyRow(SubSeq(l, m + 1, Len(l))) = [i \in 1..(Len(l) - m) |-> l[m + i].key]
    BY <2>1, KeyRowOfRest
  <2>3. QED BY <1>3, <2>2, Zenon
<1>5. \A i \in 1..(Len(ll) - m) : m + i \in 1..Len(ll)
    BY <1>1
<1>6. QED BY <1>3, <1>4, <1>5 DEF Stay

(* A new key joins at the back of those that stay, unless all are evicted, *)
(* it too.                                                                 *)
LEMMA NewKeyJoinsAtBack ==
    ASSUME Inv, NEW k \in Keys \ cache, NEW v \in Values,
           NEW l, l = Append(ll, Touched(k, v)), NEW m \in 0..Len(l),
           ll' = SubSeq(l, m + 1, Len(l))
    PROVE  \E n \in 0..Len(ll) : KeyRow(ll') = Stay(n) \/ KeyRow(ll') = Append(Stay(n), k)
<1> DEFINE e == Touched(k, v)
           c == Len(ll)
<1>1. ll \in Seq(Entry) /\ c \in Nat
    BY LenProperties DEF Inv, TypeOK
<1>2. e \in Entry /\ e.key = k
    BY DEF Touched, Entry, Inv, TypeOK
<1> HIDE DEF e
<1>3. /\ l \in Seq(Entry) /\ Len(l) = c + 1
      /\ l[c + 1] = e /\ \A j \in 1..c : l[j] = ll[j]
    BY <1>1, <1>2, AppendProperties DEF e
<1>4. KeyRow(ll') = [i \in 1..((c + 1) - m) |-> l[m + i].key]
    BY <1>3, KeyRowOfRest
<1> HIDE DEF c
<1>5. CASE m = c + 1
  <2>1. c \in 0..c /\ (c + 1) - m = 0 /\ c - c = 0 /\ 1..0 = {}
    BY <1>1, <1>5
  <2>2. KeyRow(ll') = Stay(c)
    <3>1. KeyRow(ll') = [i \in {} |-> l[m + i].key]
        BY <1>4, <2>1, Zenon
    <3>2. Stay(c) = [i \in {} |-> ll[c + i].key]
        BY <2>1, Zenon DEF Stay, c
    <3>3. QED BY <3>1, <3>2
  <2>3. QED BY <2>1, <2>2 DEF c
<1>6. CASE m # c + 1
  <2>1. m \in 0..c /\ (c + 1) - m = (c - m) + 1 /\ m + ((c - m) + 1) = c + 1 /\ c - m \in Nat
    BY <1>1, <1>3, <1>6
  <2>2. /\ Stay(m) \in Seq(Keys) /\ Len(Stay(m)) = c - m
        /\ \A i \in 1..(c - m) : Stay(m)[i] = ll[m + i].key
    BY <2>1, StayIsRow DEF c
  <2> DEFINE t == Append(Stay(m), k)
             u == KeyRow(ll')
  <2>3. /\ t \in Seq(Keys) /\ Len(t) = (c - m) + 1
        /\ \A i \in 1..(c - m) : t[i] = Stay(m)[i]
        /\ t[(c - m) + 1] = k
    BY <2>2, AppendProperties
  <2>4. DOMAIN t = 1..((c - m) + 1) /\ t = [i \in 1..((c - m) + 1) |-> t[i]]
    BY <2>3, LenProperties
  <2> HIDE DEF t, u
  <2>5. ASSUME NEW i \in 1..((c - m) + 1) PROVE l[m + i].key = t[i]
    <3>1. CASE i = (c - m) + 1
        BY <1>2, <1>3, <2>1, <2>3, <3>1
    <3>2. CASE i # (c - m) + 1
        <4>1. i \in 1..(c - m) /\ m + i \in 1..c
            BY <1>1, <2>1, <3>2
        <4>2. QED BY <1>3, <2>2, <2>3, <4>1
    <3>3. QED BY <3>1, <3>2
  <2>6. u = [i \in 1..((c - m) + 1) |-> l[m + i].key]
    BY <1>4, <2>1 DEF u
  <2>7. u = t
    BY <2>4, <2>5, <2>6
  <2>8. QED BY <2>1, <2>7 DEF t, u, c
<1>7. QED BY <1>5, <1>6

(* Each operation of the fifo keeps the order of arrival.                  *)
LEMMA InvKeepsArrivalOrder == Inv /\ Next => KeepsArrivalOrder
<1> SUFFICES ASSUME Inv, Next, policy = "fifo"
             PROVE  \E n \in 0..Len(ll) :
                        \/ KeyRow(ll') = Stay(n)
                        \/ \E k \in Keys \ cache : KeyRow(ll') = Append(Stay(n), k)
    BY DEF KeepsArrivalOrder, KeyRow, Stay
<1>0. ll \in Seq(Entry) /\ Len(ll) \in Nat /\ 0 \in 0..Len(ll)
    BY LenProperties DEF Inv, TypeOK
<1>1. ASSUME NEW k \in Keys, NEW v \in Values, PutNew(k, v)
      PROVE  \E n \in 0..Len(ll) :
                 KeyRow(ll') = Stay(n) \/ \E j \in Keys \ cache : KeyRow(ll') = Append(Stay(n), j)
  <2> DEFINE l == Append(ll, Touched(k, v))
  <2>1. k \in Keys \ cache /\ EvictFrom(l, cache \cup {k}, nbytes + Cost(k, v))
    BY <1>1 DEF PutNew
  <2>2. /\ l \in Seq(Entry) /\ KeysDiffer(l) /\ KeysOf(l) = cache \cup {k}
        /\ Bytes(l) = nbytes + Cost(k, v)
    BY <2>1, AddedAtBack DEF Placed
  <2> HIDE DEF l
  <2>3. PICK m \in 0..Len(l) : ll' = SubSeq(l, m + 1, Len(l))
    BY <2>1, <2>2, EvictFromEffect
  <2>4. \E n \in 0..Len(ll) : KeyRow(ll') = Stay(n) \/ KeyRow(ll') = Append(Stay(n), k)
    BY <2>1, <2>3, NewKeyJoinsAtBack DEF l
  <2>5. QED BY <2>1, <2>4
<1>2. ASSUME NEW k \in Keys, NEW v \in Values, FifoPutExisting(k, v)
      PROVE  \E n \in 0..Len(ll) : KeyRow(ll') = Stay(n)
  <2> DEFINE l == [ll EXCEPT ![ElementOf(k)] = Touched(k, v)]
             d == nbytes + ValueLen[v] - ValueLen[ll[ElementOf(k)].value]
  <2>1. k \in cache /\ EvictFrom(l, cache, d)
    BY <1>2 DEF FifoPutExisting
  <2>2. /\ l \in Seq(Entry) /\ KeysDiffer(l) /\ KeysOf(l) = cache /\ Bytes(l) = d
    <3>1. Placed(k, v, l) /\ Bytes(l) = d
        BY <2>1, UpdatedInPlace
    <3>2. QED BY <2>1, <3>1 DEF Placed
  <2>3. Len(l) = Len(ll)
    <3>1. ElementOf(k) \in 1..Len(ll) /\ Touched(k, v) \in Entry
        BY <2>1, ElementFound DEF Touched, Entry, Inv, TypeOK
    <3>2. QED BY <1>0, <3>1, ExceptSeq
  <2> HIDE DEF l, d
  <2>4. PICK m \in 0..Len(l) : ll' = SubSeq(l, m + 1, Len(l))
    BY <2>1, <2>2, EvictFromEffect
  <2>5. KeyRow(ll') = Stay(m)
    BY <2>1, <2>2, <2>3, <2>4, UpdateKeepsOrder DEF l
  <2>6. QED BY <2>3, <2>4, <2>5
<1>3. ASSUME CleanUp
      PROVE  \E n \in 0..Len(ll) : KeyRow(ll') = Stay(n)
  <2>1. 1 \in 0..Len(ll) /\ 1 + 1 = 2 /\ ll' = SubSeq(ll, 2, Len(ll))
    BY <1>3, <1>0, CleanUpEffect
  <2>2. KeyRow(ll') = Stay(1)
    BY <1>0, <2>1, KeyRowOfRest DEF Stay
  <2>3. QED BY <2>1, <2>2
<1>4. ASSUME Tick
      PROVE  \E n \in 0..Len(ll) : KeyRow(ll') = Stay(n)
  <2>1. ll' = ll
    BY <1>4 DEF Tick
  <2>2. DOMAIN ll = 1..Len(ll) /\ Len(ll) - 0 = Len(ll) /\ \A i \in 1..Len(ll) : 0 + i = i
    BY <1>0, LenProperties
  <2>3. KeyRow(ll') = Stay(0)
    BY <2>1, <2>2 DEF KeyRow, Stay
  <2>4. QED BY <1>0, <2>3
<1>5. QED
    BY <1>1, <1>2, <1>3, <1>4 DEF Next, Put, LruGet, LruPutExisting

(* First in, first out: entries leave the fifo from the front only, those  *)
(* that stay keep their order, a new key joins at the back, and an update  *)
(* keeps its place.                                                        *)
THEOREM AlwaysKeepsArrivalOrder == Spec => [][KeepsArrivalOrder]_vars
<1>1. Inv /\ [Next]_vars => [KeepsArrivalOrder]_vars
    BY InvKeepsArrivalOrder
<1>2. QED BY <1>1, InvInit, InvNext, PTL DEF Spec

-----------------------------------------------------------------------------
(* What CacheStrategy sums over the keys is what BytesOf counts along the  *)
(* list.                                                                   *)
LEMMA UsedIsBytes ==
    ASSUME NEW l \in Seq(Entry), KeysDiffer(l)
    PROVE  Strategy!Used(ContentsOf(l)) = Bytes(l)
<1> DEFINE a == ContentsOf(l)
           S == {k \in Keys : a[k] # None}
<1>1. Strategy!Used(a) = (CHOOSE f : f = ValueSum(f, a, S, ListOverhead))[S]
    BY DEF Strategy!Used, Strategy!MapThenSumSet, Strategy!MapThenFoldSet, Cost, ValueSum
<1>2. (CHOOSE f : f = ValueSum(f, a, S, ListOverhead))[S] = BytesOf(l, ListOverhead)
    BY EntriesPriced, ContentsSum
<1>3. QED BY <1>1, <1>2 DEF Bytes

(* A list fits the abstract budget exactly if its count does not overflow. *)
LEMMA FitsAsCounted ==
    ASSUME NEW l \in Seq(Entry), KeysDiffer(l)
    PROVE  Strategy!Fits(ContentsOf(l)) <=> ~Overflows(Bytes(l))
<1>1. Strategy!Used(ContentsOf(l)) = Bytes(l)
    BY UsedIsBytes
<1>2. Bytes(l) \in Nat /\ MaxBytes \in Nat
    BY BytesType, EntriesPriced, CacheConstants DEF Bytes
<1>3. QED BY <1>1, <1>2 DEF Strategy!Fits, Overflows

(* Removing a prefix removes its keys.                                     *)
LEMMA ContentsOfRest ==
    ASSUME NEW l \in Seq(Entry), KeysDiffer(l), NEW m \in 0..Len(l)
    PROVE  /\ SubSeq(l, m + 1, Len(l)) \in Seq(Entry) /\ KeysDiffer(SubSeq(l, m + 1, Len(l)))
           /\ ContentsOf(SubSeq(l, m + 1, Len(l)))
                  = Strategy!Without(ContentsOf(l), KeysOf(SubSeq(l, 1, m)))
<1> DEFINE r == SubSeq(l, m + 1, Len(l))
           gone == KeysOf(SubSeq(l, 1, m))
           c == Strategy!Without(ContentsOf(l), gone)
<1>1. /\ Len(l) \in Nat /\ DOMAIN l = 1..Len(l) /\ r \in Seq(Entry) /\ DOMAIN r = 1..Len(r)
      /\ Len(r) = Len(l) - m /\ \A j \in 1..(Len(l) - m) : r[j] = l[m + j]
    BY Parts, LenProperties
<1>2. KeysDiffer(r) /\ KeysOf(r) = KeysOf(l) \ gone
    BY SplitKeys
<1>3. c = [k \in Keys |-> IF k \in gone THEN None ELSE ContentsOf(l)[k]]
    BY DEF Strategy!Without
<1> HIDE DEF r, c, gone
<1>4. ASSUME NEW j \in 1..Len(r) PROVE c[r[j].key] = r[j].value
  <2>1. m + j \in 1..Len(l) /\ r[j] = l[m + j]
    BY <1>1
  <2>2. r[j].key \in Keys /\ ContentsOf(l)[r[j].key] = r[j].value
    BY <2>1, ContentsAt, EntriesPriced
  <2>3. r[j].key \notin gone
    BY <1>1, <1>2 DEF KeysOf
  <2>4. QED BY <1>3, <2>2, <2>3
<1>5. ASSUME NEW k \in Keys, k \notin KeysOf(r) PROVE c[k] = None
    BY <1>2, <1>3, <1>5, ContentsAt, EntriesPriced
<1>6. c = [k \in Keys |-> c[k]]
    BY <1>3
<1>7. ContentsOf(r) = c
    BY <1>1, <1>2, <1>4, <1>5, <1>6, SameContents, EntriesPriced
<1>8. QED BY <1>1, <1>2, <1>7 DEF r, c, gone

(* The last key of a prefix.                                               *)
LEMMA LastOfPrefix ==
    ASSUME NEW l \in Seq(Entry), KeysDiffer(l), NEW m \in 1..Len(l)
    PROVE  /\ l[m].key \in KeysOf(SubSeq(l, 1, m))
           /\ KeysOf(SubSeq(l, 1, m)) \ {l[m].key} = KeysOf(SubSeq(l, 1, m - 1))
<1>1. Len(l) \in Nat /\ m \in 0..Len(l) /\ m - 1 \in 0..Len(l) /\ DOMAIN l = 1..Len(l)
    BY LenProperties
<1>2. ASSUME NEW i \in 0..Len(l) PROVE KeysOf(SubSeq(l, 1, i)) = {l[j].key : j \in 1..i}
  <2>1. DOMAIN SubSeq(l, 1, i) = 1..i /\ \A j \in 1..i : SubSeq(l, 1, i)[j] = l[j]
    BY Parts, LenProperties
  <2>2. QED BY <2>1 DEF KeysOf
<1>3. 1..m = 1..(m - 1) \cup {m} /\ m \notin 1..(m - 1) /\ 1..m \subseteq 1..Len(l)
    BY <1>1
<1>4. \A j \in 1..(m - 1) : l[j].key # l[m].key
    BY <1>1, <1>3 DEF KeysDiffer
<1>5. QED BY <1>1, <1>2, <1>3, <1>4

(* The empty list has the abstract initial contents.                       *)
LEMMA InitMaps == Init => Strategy!Init
<1> SUFFICES ASSUME Init PROVE Strategy!Init
    OBVIOUS
<1>1. ll = << >> /\ latest = [k \in Keys |-> None] /\ DOMAIN << >> = {}
    BY DEF Init, Empty
<1>2. ContentsOf(ll) = [k \in Keys |-> None]
    BY <1>1 DEF ContentsOf, KeysOf
<1>3. QED BY <1>1, <1>2 DEF Strategy!Init

(* A hit of lru changes the order, and nothing of the contents.            *)
LEMMA GetStutters ==
    ASSUME Inv, NEW k \in Keys, LruGet(k)
    PROVE  UNCHANGED Strategy!vars
<1> DEFINE i == ElementOf(k)
           e == Touched(k, ll[i].value)
           r == RemoveAt(ll, i)
           l == <<e>> \o r
<1>1. k \in cache /\ ll' = l /\ cache' = cache /\ latest' = latest
    BY DEF LruGet
<1>2. /\ ll \in Seq(Entry) /\ KeysDiffer(ll) /\ cache = KeysOf(ll)
      /\ l \in Seq(Entry) /\ KeysDiffer(l) /\ KeysOf(l) = cache
  <2>1. Inv'
    BY GetKeepsInv
  <2>2. ll' \in Seq(Entry) /\ KeysDiffer(ll') /\ cache' = KeysOf(ll')
    BY <2>1 DEF Inv, TypeOK, Coherent, KeysDiffer
  <2>3. QED BY <1>1, <2>2 DEF Inv, TypeOK, Coherent, KeysDiffer
<1>3. i \in 1..Len(ll) /\ ll[i] \in Entry /\ ll[i].key = k /\ ll[i].value \in Values
    BY <1>1, ElementFound
<1>4. e \in Entry /\ e.key = k /\ e.value = ll[i].value
    BY <1>3 DEF Touched, Entry, Inv, TypeOK
<1> HIDE DEF e, i
<1>5. /\ r \in Seq(Entry) /\ Len(r) \in Nat
      /\ \A j \in 1..Len(r) : r[j].key # k /\ \E h \in 1..Len(ll) : r[j] = ll[h]
  <2>1. r \in Seq(Entry)
    BY <1>2, <1>3, RemoveAtProperties
  <2>2. Len(r) \in Nat
    BY <2>1, LenProperties
  <2>3. \A j \in 1..Len(r) : r[j].key # k /\ \E h \in 1..Len(ll) : r[j] = ll[h]
    BY <1>2, <1>3, RemovedAreThere
  <2>4. QED BY <2>1, <2>2, <2>3
<1> HIDE DEF r
<1>6. ASSUME NEW h \in 1..Len(l)
      PROVE  \/ l[h].key = k /\ l[h].value = ll[i].value
             \/ l[h].key # k /\ \E j \in 1..Len(ll) : l[h] = ll[j]
  <2>1. /\ Len(l) = 1 + Len(r) /\ l[1] = e
        /\ \A j \in 1..Len(r) : l[1 + j] = r[j]
    <3>1. <<e>> \in Seq(Entry) /\ Len(<<e>>) = 1 /\ <<e>>[1] = e
        BY <1>4
    <3>2. QED BY <1>5, <3>1, ConcatProperties
  <2>2. h = 1 \/ (h - 1 \in 1..Len(r) /\ 1 + (h - 1) = h)
    BY <1>5, <2>1
  <2>3. QED BY <1>4, <1>5, <2>1, <2>2
<1> HIDE DEF l
<1>7. ContentsOf(l) = [ContentsOf(ll) EXCEPT ![k] = ll[i].value]
  <2>1. KeysOf(l) = KeysOf(ll) \cup {k}
    BY <1>1, <1>2
  <2> DEFINE v == ll[i].value
  <2>2. v \in Values
    BY <1>3
  <2>3. \A h \in 1..Len(l) : \/ l[h].key = k /\ l[h].value = v
                             \/ l[h].key # k /\ \E j \in 1..Len(ll) : l[h] = ll[j]
    BY <1>6
  <2> HIDE DEF v
  <2>4. ContentsOf(l) = [ContentsOf(ll) EXCEPT ![k] = v]
    BY <1>2, <2>1, <2>2, <2>3, ContentsWith, EntriesPriced
  <2>5. QED BY <2>4 DEF v
<1>8. ContentsOf(ll)[k] = ll[i].value /\ ContentsOf(ll) = [j \in Keys |-> ContentsOf(ll)[j]]
  <2>1. ContentsOf(ll)[k] = ll[i].value
    BY <1>2, <1>3, ContentsAt, EntriesPriced
  <2>2. QED BY <2>1 DEF ContentsOf
<1>9. ContentsOf(l) = ContentsOf(ll)
    BY <1>7, <1>8
<1>10. QED BY <1>1, <1>9 DEF Strategy!vars, ContentsOf

(* The entries that the loop of Put removes are the evicted ones; without  *)
(* the last of them gone the rest would not fit.                           *)
LEMMA PutMaps ==
    ASSUME Inv, NEW k \in Keys, NEW v \in Values, Put(k, v)
    PROVE  Strategy!Put(k, v)
<1>1. PICK l : Placed(k, v, l) /\ EvictFrom(l, KeysOf(l), Bytes(l))
    BY PutPlaces
<1>2. /\ l \in Seq(Entry) /\ KeysDiffer(l) /\ Len(l) \in Nat
      /\ ContentsOf(l) = [ContentsOf(ll) EXCEPT ![k] = v]
    BY <1>1, LenProperties DEF Placed
<1>3. PICK m \in 0..Len(l) :
          /\ ll' = SubSeq(l, m + 1, Len(l))
          /\ ll' \in Seq(Entry) /\ KeysDiffer(ll')
          /\ nbytes' = Bytes(ll') /\ ~Overflows(nbytes')
          /\ \A j \in 0..Len(l) : j < m => Overflows(Bytes(SubSeq(l, j + 1, Len(l))))
    BY <1>1, <1>2, EvictFromEffect
<1> DEFINE evicted == KeysOf(SubSeq(l, 1, m))
           filled == [ContentsOf(ll) EXCEPT ![k] = v]
<1>4. evicted \in SUBSET {j \in Keys : filled[j] # None}
  <2>1. KeysOf(l) = {j \in Keys : ContentsOf(l)[j] # None}
    BY <1>2, ContentsAt, EntriesPriced
  <2>2. evicted \subseteq KeysOf(l)
    BY <1>2, Parts, LenProperties DEF KeysOf
  <2>3. QED BY <1>2, <2>1, <2>2
<1>5. ContentsOf(ll') = Strategy!Without(filled, evicted)
    BY <1>2, <1>3, ContentsOfRest
<1>6. Strategy!Fits(ContentsOf(ll'))
    BY <1>3, FitsAsCounted
<1>7. ASSUME evicted # {}
      PROVE  \E last \in evicted : ~Strategy!Fits(Strategy!Without(filled, evicted \ {last}))
  <2>1. m # 0
    <3>1. m = 0 => SubSeq(l, 1, m) = << >> /\ DOMAIN << >> = {}
        BY SubSeqEmpty
    <3>2. QED BY <1>7, <3>1 DEF KeysOf
  <2> DEFINE n == m - 1
             r == SubSeq(l, n + 1, Len(l))
             last == l[m].key
  <2>2. n \in 0..Len(l) /\ n < m /\ n + 1 = m /\ m \in 1..Len(l)
    BY <1>2, <2>1
  <2>3. Overflows(Bytes(r))
    BY <1>3, <2>2
  <2>4. last \in evicted /\ evicted \ {last} = KeysOf(SubSeq(l, 1, n))
    BY <1>2, <2>2, LastOfPrefix
  <2>5. /\ r \in Seq(Entry) /\ KeysDiffer(r)
        /\ ContentsOf(r) = Strategy!Without(filled, evicted \ {last})
    BY <1>2, <2>2, <2>4, ContentsOfRest
  <2>6. ~Strategy!Fits(ContentsOf(r))
    BY <2>3, <2>5, FitsAsCounted
  <2>7. QED BY <2>4, <2>5, <2>6
<1>8. latest' = [latest EXCEPT ![k] = v]
    BY DEF Put
<1>9. ContentsOf(ll)' = ContentsOf(ll')
    BY DEF ContentsOf
<1> HIDE DEF evicted
<1>10. QED BY <1>4, <1>5, <1>6, <1>7, <1>8, <1>9 DEF Strategy!Put

(* CleanUp removes one key.                                                *)
LEMMA CleanUpMaps ==
    ASSUME Inv, CleanUp
    PROVE  Strategy!CleanUp
<1>1. ll \in Seq(Entry) /\ KeysDiffer(ll)
    BY DEF Inv, TypeOK, Coherent, KeysDiffer
<1>2. 1 \in 0..Len(ll) /\ 1 + 1 = 2 /\ ll' = SubSeq(ll, 2, Len(ll))
    BY CleanUpEffect
<1>3. ContentsOf(ll') = Strategy!Without(ContentsOf(ll), KeysOf(SubSeq(ll, 1, 1)))
    BY <1>1, <1>2, ContentsOfRest
<1>4. KeysOf(SubSeq(ll, 1, 1)) \in SUBSET Keys
  <2>1. DOMAIN ll = 1..Len(ll) /\ \A i \in 1..Len(ll) : ll[i].key \in Keys
    BY <1>1, ContentsAt, EntriesPriced, LenProperties
  <2>2. DOMAIN SubSeq(ll, 1, 1) = 1..1 /\ \A i \in 1..1 : SubSeq(ll, 1, 1)[i] = ll[i]
    BY <1>1, <1>2, Parts, LenProperties
  <2>3. 1..1 \subseteq 1..Len(ll)
    BY <1>2
  <2>4. QED BY <2>1, <2>2, <2>3 DEF KeysOf
<1>5. ContentsOf(ll)' = ContentsOf(ll') /\ latest' = latest
    BY DEF ContentsOf, CleanUp
<1>6. QED BY <1>3, <1>4, <1>5 DEF Strategy!CleanUp

(* Every step maps to a step of the abstract specification or a stutter.   *)
LEMMA NextMaps == Inv /\ [Next]_vars => [Strategy!Next]_(Strategy!vars)
<1> SUFFICES ASSUME Inv, [Next]_vars PROVE [Strategy!Next]_(Strategy!vars)
    OBVIOUS
<1>1. ASSUME NEW k \in Keys, LruGet(k) PROVE UNCHANGED Strategy!vars
    BY <1>1, GetStutters
<1>2. ASSUME NEW k \in Keys, NEW v \in Values, Put(k, v) PROVE Strategy!Next
    BY <1>2, PutMaps DEF Strategy!Next
<1>3. CASE CleanUp
    BY <1>3, CleanUpMaps DEF Strategy!Next
<1>4. CASE Tick
    BY <1>4 DEF Tick, Strategy!vars, ContentsOf
<1>5. CASE UNCHANGED vars
    BY <1>5 DEF vars, Strategy!vars, ContentsOf
<1>6. QED BY <1>1, <1>2, <1>3, <1>4, <1>5 DEF Next

(* The list strategies implement the cache strategy: what is kept for a    *)
(* key is what was put last, a Put evicts only what does not fit with the  *)
(* new value, and no more than is needed, and a Get changes nothing of it. *)
THEOREM ListImplementsStrategy == Spec => KeepsStrategy
BY InvInit, InvNext, InitMaps, NextMaps, PTL DEF Spec, KeepsStrategy, Strategy!Spec
=============================================================================
