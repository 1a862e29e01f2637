------------------------ MODULE ConsistentHashProofs ------------------------
(***************************************************************************)
(* Proofs about ConsistentHash, for any nodes, any number of replicas, any *)
(* hash functions and any bound on the ring.                               *)
(***************************************************************************)
EXTENDS ConsistentHash, TLAPS, SequenceTheorems, FiniteSetTheorems,
        WellFoundedInduction

(* A non-empty set of numbers has a least one.                             *)
LEMMA LeastExists ==
    ASSUME NEW S \in SUBSET Nat, S # {}
    PROVE  \E i \in S : \A j \in S : i <= j
<1>1. IsWellFoundedOn(OpToRel(<, Nat), Nat)
    BY NatLessThanWellFounded
<1>2. PICK i \in S : \A j \in S : <<j, i>> \notin OpToRel(<, Nat)
    BY <1>1, WFMin, Zenon
<1>3. \A j \in S : ~(j < i)
    BY <1>2, Zenon DEF OpToRel
<1>4. QED BY <1>3

(* Induction up to n.                                                      *)
LEMMA IntervalInduction ==
    ASSUME NEW n \in Nat, NEW T, 0 \in T,
           \A i \in 0..n : i + 1 \in 0..n /\ i \in T => i + 1 \in T
    PROVE  0..n \subseteq T
<1> SUFFICES ASSUME ~(0..n \subseteq T) PROVE FALSE
    OBVIOUS
<1> DEFINE S == (0..n) \ T
<1>0. S \in SUBSET Nat /\ S # {}
    OBVIOUS
<1>1. PICK i \in S : \A j \in S : i <= j
    BY <1>0, LeastExists, Zenon
<1>2. i # 0 /\ i - 1 \in 0..n /\ i = (i - 1) + 1
    OBVIOUS
<1>3. i - 1 \in T
    BY <1>1, <1>2
<1>4. QED BY <1>2, <1>3

-----------------------------------------------------------------------------
(* sort.Ints.                                                              *)
Below(s, v) == {j \in DOMAIN s : s[j] < v}
UpTo(s, v) == {j \in DOMAIN s : s[j] <= v}

Ascending(s) == \A i, j \in DOMAIN s : i < j => s[i] <= s[j]
Distinct(s) == \A i, j \in DOMAIN s : s[i] = s[j] => i = j

LEMMA HashesAreNumbers == MaxHash \in Nat /\ Replicas \in Nat \ {0} /\ Hashes \subseteq Nat
BY RingConstants DEF Hashes

LEMMA IntervalCardinality ==
    ASSUME NEW n \in Nat
    PROVE  IsFiniteSet(1..n) /\ Cardinality(1..n) = n
<1>1. n \in Int /\ 1 \in Int /\ n - 1 + 1 = n /\ (1 > n => n = 0)
    OBVIOUS
<1>2. IsFiniteSet(1..n) /\ Cardinality(1..n) = IF 1 > n THEN 0 ELSE n - 1 + 1
    BY <1>1, FS_Interval
<1>3. QED BY <1>1, <1>2

(* Ranks are numbers, and grow with the value.                             *)
LEMMA Ranks ==
    ASSUME NEW s \in Seq(Hashes), NEW v \in Nat
    PROVE  /\ IsFiniteSet(Below(s, v)) /\ Cardinality(Below(s, v)) \in Nat
           /\ IsFiniteSet(UpTo(s, v)) /\ Cardinality(UpTo(s, v)) \in Nat
           /\ Cardinality(UpTo(s, v)) <= Len(s)
           /\ \A w \in Nat : w < v => Cardinality(UpTo(s, w)) <= Cardinality(Below(s, v))
<1>1. Len(s) \in Nat /\ DOMAIN s = 1..Len(s) /\ \A j \in 1..Len(s) : s[j] \in Nat
    BY LenProperties, ElementOfSeq, HashesAreNumbers
<1>2. IsFiniteSet(1..Len(s)) /\ Cardinality(1..Len(s)) = Len(s)
    BY <1>1, IntervalCardinality
<1>3. Below(s, v) \in SUBSET (1..Len(s)) /\ UpTo(s, v) \in SUBSET (1..Len(s))
    BY <1>1 DEF Below, UpTo
<1>4. /\ IsFiniteSet(Below(s, v)) /\ Cardinality(Below(s, v)) \in Nat
      /\ IsFiniteSet(UpTo(s, v)) /\ Cardinality(UpTo(s, v)) \in Nat
      /\ Cardinality(UpTo(s, v)) <= Len(s)
    BY <1>2, <1>3, FS_Subset, FS_CardinalityType
<1>5. ASSUME NEW w \in Nat, w < v
      PROVE  Cardinality(UpTo(s, w)) <= Cardinality(Below(s, v))
  <2>1. UpTo(s, w) \in SUBSET Below(s, v)
    BY <1>1, <1>5 DEF Below, UpTo
  <2>2. QED BY <1>4, <2>1, FS_Subset
<1>6. QED BY <1>1, <1>4, <1>5

(* Some value has the rank that a place asks for.                          *)
LEMMA PlaceIsTaken ==
    ASSUME NEW s \in Seq(Hashes), NEW i \in 1..Len(s)
    PROVE  \E v \in ToSet(s) : Cardinality(Below(s, v)) < i /\ i <= Cardinality(UpTo(s, v))
<1> DEFINE V == {v \in Nat : i <= Cardinality(UpTo(s, v))}
<1>1. /\ Len(s) \in Nat /\ DOMAIN s = 1..Len(s)
      /\ \A j \in 1..Len(s) : s[j] \in Nat /\ s[j] <= MaxHash
  <2>1. \A j \in 1..Len(s) : s[j] \in 0..MaxHash
    BY ElementOfSeq DEF Hashes
  <2>2. QED BY <2>1, LenProperties, HashesAreNumbers
<1>2. MaxHash \in V
  <2>1. UpTo(s, MaxHash) = 1..Len(s)
    BY <1>1 DEF UpTo
  <2>2. Cardinality(1..Len(s)) = Len(s)
    BY <1>1, IntervalCardinality
  <2>3. QED BY <1>1, <2>1, <2>2, HashesAreNumbers
<1>3. PICK v \in V : \A w \in V : v <= w
  <2>1. V \in SUBSET Nat /\ V # {}
    BY <1>2
  <2> HIDE DEF V
  <2>2. QED BY <2>1, LeastExists, Zenon
<1>4. Cardinality(Below(s, v)) < i
  <2>1. CASE v = 0
    <3>1. Below(s, v) = {}
        BY <1>1, <2>1 DEF Below
    <3>2. QED BY <3>1, FS_EmptySet
  <2>2. CASE v # 0
    <3>1. v - 1 \in Nat /\ v - 1 \notin V
        BY <1>3, <2>2
    <3>2. Below(s, v) = UpTo(s, v - 1)
        BY <1>1, <3>1 DEF Below, UpTo
    <3>3. Cardinality(UpTo(s, v - 1)) \in Nat
        BY <3>1, Ranks
    <3>4. QED BY <3>1, <3>2, <3>3
  <2>3. QED BY <2>1, <2>2
<1>5. i <= Cardinality(UpTo(s, v))
    BY <1>3
<1>6. v \in ToSet(s)
  <2>1. Below(s, v) # UpTo(s, v)
    <3>1. Cardinality(Below(s, v)) \in Nat /\ Cardinality(UpTo(s, v)) \in Nat
        BY <1>1, Ranks
    <3>2. QED BY <1>4, <1>5, <3>1
  <2>2. QED BY <1>1, <2>1 DEF Below, UpTo, ToSet
<1>7. QED BY <1>4, <1>5, <1>6

LEMMA SortedProperties ==
    ASSUME NEW s \in Seq(Hashes)
    PROVE  /\ Sorted(s) \in Seq(Hashes) /\ Len(Sorted(s)) = Len(s)
           /\ Ascending(Sorted(s)) /\ ToSet(Sorted(s)) = ToSet(s)
           /\ Distinct(s) => Distinct(Sorted(s))
<1> DEFINE t == Sorted(s)
           n == Len(s)
<1>1. n \in Nat /\ DOMAIN s = 1..n /\ \A j \in 1..n : s[j] \in Hashes /\ s[j] \in Nat
    BY LenProperties, ElementOfSeq, HashesAreNumbers
<1>2. ASSUME NEW i \in 1..n
      PROVE  /\ t[i] \in ToSet(s) /\ t[i] \in Hashes /\ t[i] \in Nat
             /\ Cardinality(Below(s, t[i])) < i /\ i <= Cardinality(UpTo(s, t[i]))
  <2>1. t[i] = CHOOSE v \in ToSet(s) : /\ Cardinality(Below(s, v)) < i
                                      /\ i <= Cardinality(UpTo(s, v))
    BY <1>1 DEF Sorted, Below, UpTo
  <2>2. /\ t[i] \in ToSet(s)
        /\ Cardinality(Below(s, t[i])) < i /\ i <= Cardinality(UpTo(s, t[i]))
    BY <2>1, PlaceIsTaken
  <2>3. QED BY <1>1, <2>2 DEF ToSet
<1>3. DOMAIN t = 1..n
    BY <1>1 DEF Sorted
<1> HIDE DEF t, n
<1>4. t \in Seq(Hashes) /\ Len(t) = n
  <2>1. t \in [1..n -> Hashes]
    <3> DEFINE g(i) == CHOOSE v \in ToSet(s) :
                   /\ Cardinality({j \in DOMAIN s : s[j] < v}) < i
                   /\ i <= Cardinality({j \in DOMAIN s : s[j] <= v})
    <3>1. t = [i \in 1..n |-> g(i)]
        BY <1>1 DEF t, Sorted, n
    <3> HIDE DEF g
    <3>2. t = [i \in 1..n |-> t[i]]
        BY <3>1
    <3>3. QED BY <1>2, <3>2
  <2>2. QED BY <1>1, <2>1, SeqDef, LenProperties
<1>5. \A v \in Nat : Cardinality(Below(s, v)) \in Nat /\ Cardinality(UpTo(s, v)) \in Nat
    BY Ranks
<1>6. ASSUME NEW i \in 1..n, NEW j \in 1..n, i < j PROVE t[i] <= t[j]
  <2>1. CASE t[j] < t[i]
    <3>1. Cardinality(UpTo(s, t[j])) <= Cardinality(Below(s, t[i]))
        BY <1>2, <2>1, Ranks
    <3> DEFINE b == Cardinality(Below(s, t[i]))
               u == Cardinality(UpTo(s, t[j]))
    <3>2. u <= b /\ b < i /\ j <= u /\ b \in Nat /\ u \in Nat
        BY <1>2, <1>5, <3>1
    <3> HIDE DEF b, u
    <3>3. QED BY <1>1, <1>6, <3>2
  <2>2. QED BY <1>2, <2>1
<1>7. ToSet(t) \subseteq ToSet(s)
    BY <1>2, <1>3 DEF ToSet
<1>8. ASSUME NEW h \in 1..n PROVE s[h] \in ToSet(t)
  <2> DEFINE v == s[h]
             i == Cardinality(UpTo(s, v))
             b == Cardinality(Below(s, v))
  <2>1. v \in Nat
    BY <1>1
  <2>2. b < i
    <3>1. Below(s, v) \in SUBSET UpTo(s, v) /\ Below(s, v) # UpTo(s, v)
        BY <1>1, <2>1 DEF Below, UpTo
    <3>2. IsFiniteSet(UpTo(s, v)) /\ i \in Nat /\ b \in Nat
        BY <1>5, <2>1, Ranks
    <3>3. b <= i /\ b # i
        BY <3>1, <3>2, FS_Subset
    <3>4. QED BY <3>2, <3>3
  <2>3. i \in 1..n
    <3>1. i \in Nat /\ i <= n /\ b \in Nat
        BY <2>1, Ranks DEF n
    <3> HIDE DEF i, b
    <3>2. QED BY <1>1, <2>2, <3>1
  <2> HIDE DEF v
  <2>4. ~(t[i] < v)
    <3> DEFINE c == Cardinality(UpTo(s, t[i]))
    <3>1. t[i] \in Nat /\ (t[i] < v => c <= b)
        BY <1>2, <2>1, <2>3, Ranks
    <3>2. i <= c /\ b < i /\ b \in Nat /\ c \in Nat /\ i \in Nat
        BY <1>2, <1>5, <2>1, <2>2, <2>3
    <3> HIDE DEF b, c, i
    <3>3. QED BY <3>1, <3>2
  <2>5. ~(v < t[i])
    <3> DEFINE c == Cardinality(Below(s, t[i]))
    <3>1. t[i] \in Nat /\ (v < t[i] => i <= c)
        BY <1>2, <2>1, <2>3, Ranks
    <3>2. c < i /\ c \in Nat /\ i \in Nat
        BY <1>2, <1>5, <2>1, <2>3
    <3> HIDE DEF c, i
    <3>3. QED BY <3>1, <3>2
  <2> HIDE DEF i
  <2>6. t[i] = v
    BY <1>2, <2>1, <2>3, <2>4, <2>5
  <2>7. t[i] \in ToSet(t)
    BY <1>3, <2>3 DEF ToSet
  <2>8. QED BY <2>6, <2>7 DEF v
<1>9. ASSUME Distinct(s), NEW i \in 1..n, NEW j \in 1..n, t[i] = t[j], i < j PROVE FALSE
  <2> DEFINE v == t[i]
             b == Cardinality(Below(s, v))
             u == Cardinality(UpTo(s, v))
  <2>1. v \in Nat /\ v \in ToSet(s) /\ b < i /\ j <= u
    BY <1>2, <1>9
  <2>2. PICK h \in 1..n : s[h] = v
    BY <1>1, <2>1 DEF ToSet
  <2>3. UpTo(s, v) = Below(s, v) \cup {h}
    <3>1. \A g \in 1..n : s[g] = v => g = h
        BY <1>1, <1>9, <2>2 DEF Distinct
    <3>2. \A g \in 1..n : s[g] \in Nat /\ (s[g] <= v <=> s[g] < v \/ s[g] = v)
        BY <1>1, <2>1
    <3> HIDE DEF v
    <3>3. \A g \in 1..n : s[g] <= v <=> s[g] < v \/ g = h
        BY <2>2, <3>1, <3>2
    <3>4. QED BY <1>1, <3>3 DEF Below, UpTo
  <2>4. u <= b + 1 /\ b \in Nat /\ u \in Nat
    <3>1. IsFiniteSet(Below(s, v)) /\ b \in Nat
        BY <2>1, Ranks
    <3>2. u = IF h \in Below(s, v) THEN b ELSE b + 1
        BY <2>3, <3>1, FS_AddElement
    <3>3. b <= b + 1 /\ b + 1 \in Nat
        BY <3>1
    <3> HIDE DEF b, u
    <3>4. QED BY <3>1, <3>2, <3>3
  <2> HIDE DEF b, u
  <2>5. QED BY <1>9, <2>1, <2>4
<1>10. Ascending(t) /\ ToSet(t) = ToSet(s)
  <2>1. ToSet(s) \subseteq ToSet(t)
    BY <1>1, <1>8 DEF ToSet
  <2>2. QED BY <1>3, <1>6, <1>7, <2>1 DEF Ascending
<1>11. Distinct(s) => Distinct(t)
  <2>1. ASSUME Distinct(s), NEW i \in 1..n, NEW j \in 1..n, t[i] = t[j] PROVE i = j
    <3>1. ~(i < j) /\ ~(j < i)
        BY <1>9, <2>1
    <3>2. QED BY <1>1, <3>1
  <2>2. QED BY <1>3, <2>1 DEF Distinct
<1>12. QED BY <1>4, <1>10, <1>11 DEF t, n

-----------------------------------------------------------------------------
(* The hashes that join the ring.                                          *)
LEMMA FunctionIsSeq ==
    ASSUME NEW S, NEW n \in Nat, NEW f \in [1..n -> S]
    PROVE  f \in Seq(S) /\ Len(f) = n /\ DOMAIN f = 1..n
<1>1. f \in Seq(S) /\ DOMAIN f = 1..n
    BY SeqDef
<1>2. QED BY <1>1, LenProperties

LEMMA FlattenOne ==
    ASSUME NEW f, f \in [1..1 -> Seq(Hashes)]
    PROVE  FlattenSeq(f) = f[1]
<1> DEFINE F(g) == [i \in 1..Len(f) |-> IF i = 1 THEN f[i] ELSE g[i - 1] \o f[i]]
<1>1. f \in Seq(Seq(Hashes)) /\ Len(f) = 1
  <2>1. 1 \in Nat
    OBVIOUS
  <2>2. QED BY <2>1, FunctionIsSeq
<1>2. FlattenSeq(f) = (CHOOSE g : g = F(g))[1]
    BY <1>1 DEF FlattenSeq
<1>3. \A g : F(g) = [i \in 1..1 |-> f[1]]
    BY <1>1
<1> HIDE DEF F
<1>4. QED BY <1>2, <1>3

LEMMA FlattenTwo ==
    ASSUME NEW f, f \in [1..2 -> Seq(Hashes)]
    PROVE  FlattenSeq(f) = f[1] \o f[2]
<1> DEFINE F(g) == [i \in 1..Len(f) |-> IF i = 1 THEN f[i] ELSE g[i - 1] \o f[i]]
           w == [i \in 1..2 |-> IF i = 1 THEN f[1] ELSE f[1] \o f[2]]
<1>1. f \in Seq(Seq(Hashes)) /\ Len(f) = 2
  <2>1. 2 \in Nat
    OBVIOUS
  <2>2. QED BY <2>1, FunctionIsSeq
<1>2. FlattenSeq(f) = (CHOOSE g : g = F(g))[2]
    BY <1>1 DEF FlattenSeq
<1>3. w = F(w)
  <2>1. \A i \in 1..2 : i = 1 \/ (i # 1 /\ i = 2 /\ i - 1 = 1 /\ i - 1 \in 1..2)
    OBVIOUS
  <2>2. \A i \in 1..2 : (IF i = 1 THEN f[1] ELSE f[1] \o f[2])
                           = IF i = 1 THEN f[i] ELSE w[i - 1] \o f[i]
    BY <2>1
  <2>3. QED BY <1>1, <2>2
<1>4. ASSUME NEW g, g = F(g) PROVE g[2] = f[1] \o f[2]
  <2>1. 1 \in 1..Len(f) /\ 2 \in 1..Len(f) /\ 2 - 1 = 1
    BY <1>1
  <2>2. \A i \in 1..Len(f) : g[i] = IF i = 1 THEN f[i] ELSE g[i - 1] \o f[i]
    BY <1>4
  <2>3. g[1] = f[1]
    BY <2>1, <2>2
  <2>4. g[2] = IF 2 = 1 THEN f[2] ELSE g[2 - 1] \o f[2]
    BY <2>1, <2>2, Zenon
  <2>5. 2 # 1
    OBVIOUS
  <2>6. QED BY <2>1, <2>3, <2>4, <2>5, Zenon
<1> HIDE DEF F, w
<1>5. QED BY <1>2, <1>3, <1>4

LEMMA ConcatRings ==
    ASSUME NEW a \in Seq(Hashes), NEW b \in Seq(Hashes)
    PROVE  /\ a \o b \in Seq(Hashes) /\ Len(a \o b) = Len(a) + Len(b)
           /\ ToSet(a \o b) = ToSet(a) \cup ToSet(b)
           /\ Distinct(a) /\ Distinct(b) /\ ToSet(a) \cap ToSet(b) = {} => Distinct(a \o b)
<1> DEFINE c == a \o b
           m == Len(a)
           n == Len(b)
<1>1. /\ m \in Nat /\ n \in Nat /\ DOMAIN a = 1..m /\ DOMAIN b = 1..n
      /\ c \in Seq(Hashes) /\ Len(c) = m + n /\ DOMAIN c = 1..(m + n)
      /\ \A i \in 1..(m + n) : c[i] = IF i <= m THEN a[i] ELSE b[i - m]
    BY ConcatProperties, LenProperties
<1> HIDE DEF c, m, n
<1>2. \A i \in 1..(m + n) : i \in 1..m \/ (~(i <= m) /\ i - m \in 1..n)
    BY <1>1
<1>3. /\ \A i \in 1..m : i \in 1..(m + n) /\ c[i] = a[i]
      /\ \A i \in 1..n : m + i \in 1..(m + n) /\ c[m + i] = b[i]
  <2>1. \A i \in 1..m : i \in 1..(m + n) /\ i <= m
    BY <1>1
  <2>2. \A i \in 1..n : m + i \in 1..(m + n) /\ ~(m + i <= m) /\ (m + i) - m = i
    BY <1>1
  <2>3. QED BY <1>1, <2>1, <2>2
<1>4. \A i \in 1..(m + n) : (i \in 1..m /\ c[i] = a[i]) \/ (i - m \in 1..n /\ c[i] = b[i - m])
  <2>2. ASSUME NEW i \in 1..(m + n), ~(i <= m) PROVE c[i] = b[i - m]
    BY <1>1, <2>2
  <2>3. ASSUME NEW i \in 1..(m + n)
        PROVE  (i \in 1..m /\ c[i] = a[i]) \/ (i - m \in 1..n /\ c[i] = b[i - m])
    <3>1. CASE i \in 1..m
      <4>1. c[i] = a[i]
        BY <1>3, <3>1
      <4>2. QED BY <3>1, <4>1
    <3>2. CASE ~(i <= m) /\ i - m \in 1..n
        BY <2>2, <3>2
    <3>3. QED BY <1>2, <3>1, <3>2
  <2>4. QED BY <2>3
<1>5. ToSet(c) = ToSet(a) \cup ToSet(b)
  <2>1. ASSUME NEW i \in 1..(m + n) PROVE c[i] \in ToSet(a) \cup ToSet(b)
    <3>1. i \in 1..m => a[i] \in ToSet(a)
        BY <1>1 DEF ToSet
    <3>2. i - m \in 1..n => b[i - m] \in ToSet(b)
        BY <1>1 DEF ToSet
    <3>3. QED BY <1>4, <3>1, <3>2
  <2>2. ASSUME NEW i \in 1..m PROVE a[i] \in ToSet(c)
    BY <1>1, <1>3 DEF ToSet
  <2>3. ASSUME NEW i \in 1..n PROVE b[i] \in ToSet(c)
    BY <1>1, <1>3 DEF ToSet
  <2>4. QED BY <1>1, <2>1, <2>2, <2>3 DEF ToSet
<1>6. ASSUME Distinct(a), Distinct(b), ToSet(a) \cap ToSet(b) = {} PROVE Distinct(c)
  <2> SUFFICES ASSUME NEW i \in 1..(m + n), NEW j \in 1..(m + n), c[i] = c[j] PROVE i = j
    BY <1>1 DEF Distinct
  <2>1. CASE i \in 1..m /\ c[i] = a[i] /\ j \in 1..m /\ c[j] = a[j]
    BY <1>1, <1>6, <2>1 DEF Distinct
  <2>2. CASE i - m \in 1..n /\ c[i] = b[i - m] /\ j - m \in 1..n /\ c[j] = b[j - m]
    <3>1. i - m = j - m
        BY <1>1, <1>6, <2>2 DEF Distinct
    <3>2. QED BY <1>1, <3>1
  <2>3. CASE i \in 1..m /\ c[i] = a[i] /\ j - m \in 1..n /\ c[j] = b[j - m]
    BY <1>1, <1>6, <2>3 DEF ToSet
  <2>4. CASE i - m \in 1..n /\ c[i] = b[i - m] /\ j \in 1..m /\ c[j] = a[j]
    BY <1>1, <1>6, <2>4 DEF ToSet
  <2>5. QED BY <1>4, <2>1, <2>2, <2>3, <2>4
<1>7. QED BY <1>1, <1>5, <1>6 DEF c, m, n

(* The hashes of the virtual nodes of the nodes in S.                      *)
HashesFor(S) == {hash[p] : p \in S \X (0..Replicas - 1)}

LEMMA InHashesFor ==
    ASSUME NEW S, NEW x
    PROVE  x \in HashesFor(S) <=> \E n \in S, i \in 0..Replicas - 1 : x = hash[<<n, i>>]
<1> DEFINE I == 0..Replicas - 1
<1> HIDE DEF I
<1>1. ASSUME NEW p \in S \X I, x = hash[p] PROVE \E n \in S, i \in I : x = hash[<<n, i>>]
  <2>1. p[1] \in S /\ p[2] \in I /\ p = <<p[1], p[2]>>
    OBVIOUS
  <2>2. x = hash[<<p[1], p[2]>>]
    BY <1>1, <2>1
  <2>3. QED BY <2>1, <2>2
<1>2. ASSUME NEW n \in S, NEW i \in I, x = hash[<<n, i>>] PROVE \E p \in S \X I : x = hash[p]
  <2>1. <<n, i>> \in S \X I
    OBVIOUS
  <2>2. QED BY <1>2, <2>1
<1>3. x \in HashesFor(S) <=> \E p \in S \X I : x = hash[p]
    BY DEF HashesFor, I
<1>4. QED BY <1>1, <1>2, <1>3 DEF I

LEMMA HashesOfNode ==
    ASSUME hash \in [Virtual -> Hashes], NEW n \in Nodes
    PROVE  /\ HashesOf(n) \in Seq(Hashes)
           /\ ToSet(HashesOf(n)) = HashesFor({n})
           /\ IsInjective(hash) => Distinct(HashesOf(n))
<1> DEFINE s == HashesOf(n)
<1>1. Replicas \in Nat \ {0} /\ \A i \in 1..Replicas : i - 1 \in 0..Replicas - 1
    BY HashesAreNumbers
<1>2. \A i \in 0..Replicas - 1 : i + 1 \in 1..Replicas /\ (i + 1) - 1 = i
    BY <1>1
<1>3. \A i \in 0..Replicas - 1 : <<n, i>> \in Virtual /\ hash[<<n, i>>] \in Hashes
    BY DEF Virtual
<1>4. s = [i \in 1..Replicas |-> hash[<<n, i - 1>>]]
    BY DEF HashesOf
<1> HIDE DEF s
<1>5. s \in [1..Replicas -> Hashes] /\ s \in Seq(Hashes)
  <2>1. s \in [1..Replicas -> Hashes]
    BY <1>1, <1>3, <1>4
  <2>2. QED BY <1>1, <2>1, SeqDef
<1>6. ToSet(s) = HashesFor({n})
  <2>1. HashesFor({n}) = {hash[<<n, i>>] : i \in 0..Replicas - 1}
    BY InHashesFor
  <2>2. \A i \in 1..Replicas : s[i] = hash[<<n, i - 1>>]
    BY <1>4
  <2>3. \A i \in 0..Replicas - 1 : s[i + 1] = hash[<<n, i>>]
    BY <1>2, <2>2
  <2>4. DOMAIN s = 1..Replicas
    BY <1>4
  <2>5. ToSet(s) = {s[i] : i \in 1..Replicas}
    BY <2>4 DEF ToSet
  <2>6. ASSUME NEW i \in 1..Replicas PROVE s[i] \in HashesFor({n})
    BY <1>1, <2>1, <2>2
  <2>7. ASSUME NEW i \in 0..Replicas - 1 PROVE hash[<<n, i>>] \in ToSet(s)
    BY <1>2, <2>3, <2>5
  <2>8. QED BY <2>1, <2>5, <2>6, <2>7
<1>7. ASSUME IsInjective(hash) PROVE Distinct(s)
  <2> SUFFICES ASSUME NEW i \in 1..Replicas, NEW j \in 1..Replicas, s[i] = s[j] PROVE i = j
    BY <1>4 DEF Distinct
  <2>1. /\ hash[<<n, i - 1>>] = hash[<<n, j - 1>>]
        /\ <<n, i - 1>> \in DOMAIN hash /\ <<n, j - 1>> \in DOMAIN hash
    BY <1>1, <1>3, <1>4
  <2>2. <<n, i - 1>> = <<n, j - 1>>
    BY <1>7, <2>1 DEF IsInjective
  <2>3. i - 1 = j - 1
    BY <2>2
  <2>4. QED BY <2>3
<1>8. QED BY <1>5, <1>6, <1>7 DEF s

LEMMA HashesForUnion ==
    ASSUME NEW S, NEW T
    PROVE  HashesFor(S \cup T) = HashesFor(S) \cup HashesFor(T)
BY DEF HashesFor

(* Nodes that differ have no hash in common, if the hash function has no   *)
(* collisions.                                                             *)
LEMMA HashesApart ==
    ASSUME hash \in [Virtual -> Hashes], IsInjective(hash),
           NEW S \in SUBSET Nodes, NEW T \in SUBSET Nodes, S \cap T = {}
    PROVE  HashesFor(S) \cap HashesFor(T) = {}
<1> SUFFICES ASSUME NEW x \in HashesFor(S), x \in HashesFor(T) PROVE FALSE
    OBVIOUS
<1>1a. PICK m \in S, i \in 0..Replicas - 1 : x = hash[<<m, i>>]
    BY InHashesFor
<1>1b. PICK n \in T, j \in 0..Replicas - 1 : x = hash[<<n, j>>]
    BY InHashesFor
<1>1. <<m, i>> \in DOMAIN hash /\ <<n, j>> \in DOMAIN hash
    BY DEF Virtual
<1>2. <<m, i>> = <<n, j>>
    BY <1>1a, <1>1b, <1>1 DEF IsInjective
<1>3. m = n
    BY <1>2
<1>4. QED BY <1>3

(* What a list of nodes adds to the ring.                                  *)
Joining(ns) == FlattenSeq([j \in DOMAIN ns |-> HashesOf(ns[j])])

LEMMA ListsOfNodes ==
    ASSUME NEW ns \in NodeLists
    PROVE  \/ \E n \in Nodes : ns = <<n>>
           \/ \E m, n \in Nodes : ns = <<m, n>>
BY DEF NodeLists

LEMMA JoiningHashes ==
    ASSUME hash \in [Virtual -> Hashes], NEW ns \in NodeLists
    PROVE  /\ Joining(ns) \in Seq(Hashes)
           /\ ToSet(Joining(ns)) = HashesFor(ToSet(ns))
           /\ ToSet(ns) \in SUBSET Nodes
           /\ IsInjective(hash) /\ IsInjective(ns) => Distinct(Joining(ns))
<1>1. CASE \E n \in Nodes : ns = <<n>>
  <2>1. PICK n \in Nodes : ns = <<n>>
    BY <1>1
  <2>2. DOMAIN ns = 1..1 /\ ns[1] = n /\ ToSet(ns) = {n}
    BY <2>1 DEF ToSet
  <2> DEFINE f == [j \in DOMAIN ns |-> HashesOf(ns[j])]
  <2>3. f \in [1..1 -> Seq(Hashes)] /\ f[1] = HashesOf(n)
    <3>1. f = [j \in 1..1 |-> HashesOf(ns[j])] /\ \A j \in 1..1 : j = 1
        BY <2>2
    <3>2. HashesOf(n) \in Seq(Hashes)
        BY HashesOfNode
    <3>3. QED BY <2>2, <3>1, <3>2
  <2>4. Joining(ns) = HashesOf(n)
    BY <2>3, FlattenOne DEF Joining
  <2>5. QED BY <2>2, <2>4, HashesOfNode
<1>2. CASE \E m, n \in Nodes : ns = <<m, n>>
  <2>1. PICK m \in Nodes, n \in Nodes : ns = <<m, n>>
    BY <1>2
  <2>2. DOMAIN ns = 1..2 /\ ns[1] = m /\ ns[2] = n /\ ToSet(ns) = {m} \cup {n}
    BY <2>1 DEF ToSet
  <2> DEFINE f == [j \in DOMAIN ns |-> HashesOf(ns[j])]
  <2>3. f \in [1..2 -> Seq(Hashes)] /\ f[1] = HashesOf(m) /\ f[2] = HashesOf(n)
    <3>1. f = [j \in 1..2 |-> HashesOf(ns[j])] /\ \A j \in 1..2 : j = 1 \/ j = 2
        BY <2>2
    <3>2. HashesOf(m) \in Seq(Hashes) /\ HashesOf(n) \in Seq(Hashes)
        BY HashesOfNode
    <3>3. QED BY <2>2, <3>1, <3>2
  <2>4. Joining(ns) = HashesOf(m) \o HashesOf(n)
    BY <2>3, FlattenTwo DEF Joining
  <2>5. /\ HashesOf(m) \in Seq(Hashes) /\ ToSet(HashesOf(m)) = HashesFor({m})
        /\ HashesOf(n) \in Seq(Hashes) /\ ToSet(HashesOf(n)) = HashesFor({n})
    BY HashesOfNode
  <2>6. Joining(ns) \in Seq(Hashes) /\ ToSet(Joining(ns)) = HashesFor({m}) \cup HashesFor({n})
    BY <2>4, <2>5, ConcatRings
  <2>7. ASSUME IsInjective(hash), IsInjective(ns) PROVE Distinct(Joining(ns))
    <3>1. m # n
        BY <2>2, <2>7 DEF IsInjective
    <3>2. HashesFor({m}) \cap HashesFor({n}) = {}
        BY <2>7, <3>1, HashesApart
    <3>3. Distinct(HashesOf(m)) /\ Distinct(HashesOf(n))
        BY <2>7, HashesOfNode
    <3>4. ToSet(HashesOf(m)) \cap ToSet(HashesOf(n)) = {}
        BY <2>5, <3>2
    <3>5. Distinct(HashesOf(m) \o HashesOf(n))
        BY <2>5, <3>3, <3>4, ConcatRings
    <3>6. QED BY <2>4, <3>5
  <2>8. HashesFor(ToSet(ns)) = HashesFor({m}) \cup HashesFor({n})
    <3>1. HashesFor({m} \cup {n}) = HashesFor({m}) \cup HashesFor({n})
        BY HashesForUnion
    <3>2. QED BY <2>2, <3>1
  <2>9. ToSet(ns) \in SUBSET Nodes
    BY <2>2
  <2>10. QED BY <2>6, <2>7, <2>8, <2>9
<1>3. QED BY <1>1, <1>2, ListsOfNodes

(* The ring that AddNode leaves, and the nodes of its hashes.              *)
LEMMA AddNodeEffect ==
    ASSUME TypeOK, hash \in [Virtual -> Hashes], NEW ns \in NodeLists, AddNode(ns)
    PROVE  /\ keys' \in Seq(Hashes) /\ Ascending(keys')
           /\ ToSet(keys') = ToSet(keys) \cup HashesFor(ToSet(ns))
           /\ /\ IsInjective(hash) /\ IsInjective(ns)
              /\ Distinct(keys) /\ ToSet(keys) \cap HashesFor(ToSet(ns)) = {}
              => Distinct(keys')
           /\ hashMap' \in [Hashes -> Nodes \cup {Nobody}]
           /\ \A h \in Hashes : h \notin HashesFor(ToSet(ns)) => hashMap'[h] = hashMap[h]
           /\ \A h \in HashesFor(ToSet(ns)) :
                  hashMap'[h] \in ToSet(ns) /\ h \in HashesFor({hashMap'[h]})
<1> DEFINE s == keys \o Joining(ns)
           at(h) == {j \in DOMAIN ns : h \in ToSet(HashesOf(ns[j]))}
           last(h) == CHOOSE j \in at(h) : \A i \in at(h) : i <= j
<1>1. /\ keys \in Seq(Hashes) /\ keys' = Sorted(s) /\ hashMap \in [Hashes -> Nodes \cup {Nobody}]
      /\ hashMap' = [h \in Hashes |-> IF at(h) = {} THEN hashMap[h] ELSE ns[last(h)]]
    BY DEF TypeOK, AddNode, Joining
<1>2. /\ s \in Seq(Hashes)
      /\ ToSet(s) = ToSet(keys) \cup HashesFor(ToSet(ns))
      /\ /\ IsInjective(hash) /\ IsInjective(ns)
         /\ Distinct(keys) /\ ToSet(keys) \cap HashesFor(ToSet(ns)) = {}
         => Distinct(s)
    BY <1>1, JoiningHashes, ConcatRings
<1>3. /\ keys' \in Seq(Hashes) /\ Ascending(keys') /\ ToSet(keys') = ToSet(s)
      /\ Distinct(s) => Distinct(keys')
    BY <1>1, <1>2, SortedProperties
<1>4. ToSet(ns) \in SUBSET Nodes /\ \A j \in DOMAIN ns : ns[j] \in ToSet(ns)
    BY JoiningHashes DEF ToSet
<1>5. \A h : at(h) = {j \in DOMAIN ns : h \in HashesFor({ns[j]})}
    BY <1>4, HashesOfNode
<1>6. \A h : at(h) = {} <=> h \notin HashesFor(ToSet(ns))
  <2>1. \A h : h \in HashesFor(ToSet(ns)) <=> \E n \in ToSet(ns) : h \in HashesFor({n})
    BY DEF HashesFor
  <2>2. \A h : h \in HashesFor(ToSet(ns)) <=> \E j \in DOMAIN ns : h \in HashesFor({ns[j]})
    BY <2>1 DEF ToSet
  <2>3. QED BY <1>5, <2>2
<1>7. \A h : at(h) # {} => last(h) \in at(h)
  <2>1. ASSUME NEW h, at(h) # {} PROVE \E j \in at(h) : \A i \in at(h) : i <= j
    <3>1. at(h) \subseteq DOMAIN ns /\ DOMAIN ns \subseteq {1, 2}
      <4>1. DOMAIN ns = 1..1 \/ DOMAIN ns = 1..2
        BY ListsOfNodes
      <4>2. QED BY <4>1
    <3> HIDE DEF at
    <3>2. CASE 2 \in at(h)
        BY <3>1, <3>2
    <3>3. CASE 2 \notin at(h)
        BY <2>1, <3>1, <3>3
    <3>4. QED BY <3>2, <3>3
  <2> HIDE DEF at
  <2>2. QED BY <2>1
<1> HIDE DEF last
<1>8. ASSUME NEW h \in Hashes
      PROVE  /\ h \notin HashesFor(ToSet(ns)) => hashMap'[h] = hashMap[h]
             /\ h \in HashesFor(ToSet(ns)) =>
                    hashMap'[h] \in ToSet(ns) /\ h \in HashesFor({hashMap'[h]})
  <2>1. CASE at(h) = {}
    BY <1>1, <1>6, <2>1
  <2>2. CASE at(h) # {}
    <3>1. hashMap'[h] = ns[last(h)] /\ last(h) \in at(h)
        BY <1>1, <1>7, <2>2
    <3>2. last(h) \in DOMAIN ns /\ h \in HashesFor({ns[last(h)]})
        BY <1>5, <3>1
    <3>3. QED BY <1>4, <1>6, <2>2, <3>1, <3>2
  <2>3. QED BY <2>1, <2>2
<1>9. HashesFor(ToSet(ns)) \subseteq Hashes
  <2>1. \A n \in ToSet(ns), i \in 0..Replicas - 1 : <<n, i>> \in Virtual
    BY <1>4 DEF Virtual
  <2>2. \A n \in ToSet(ns), i \in 0..Replicas - 1 : hash[<<n, i>>] \in Hashes
    BY <2>1
  <2>3. ASSUME NEW h \in HashesFor(ToSet(ns)) PROVE h \in Hashes
    <3>1. PICK n \in ToSet(ns), i \in 0..Replicas - 1 : h = hash[<<n, i>>]
        BY InHashesFor
    <3>2. QED BY <2>2, <3>1
  <2>4. QED BY <2>3
<1>10. hashMap' \in [Hashes -> Nodes \cup {Nobody}]
  <2>1. \A h \in Hashes : hashMap'[h] \in Nodes \cup {Nobody}
    BY <1>1, <1>4, <1>8
  <2>2. QED BY <1>1, <2>1
<1>11. QED BY <1>2, <1>3, <1>8, <1>9, <1>10

-----------------------------------------------------------------------------
(* The hash on the ring R that a key of hash h goes to.                    *)
Follows(R, h, x) ==
    /\ x \in R
    /\ \/ x >= h /\ \A y \in R : y >= h => x <= y
       \/ \A y \in R : y < h /\ x <= y

LEMMA FollowerIsOne ==
    ASSUME NEW R \in SUBSET Nat, NEW h \in Nat, NEW x, NEW y, Follows(R, h, x), Follows(R, h, y)
    PROVE  x = y
<1>1. x \in R /\ y \in R /\ x \in Nat /\ y \in Nat
    BY DEF Follows
<1>2. x <= y /\ y <= x
    BY <1>1 DEF Follows
<1>3. QED BY <1>1, <1>2

(* The binary search finds it, on a sorted ring.                           *)
IndexIn(s, h) ==
    LET ahead == {i \in DOMAIN s : s[i] >= h}
    IN IF ahead = {} THEN 1 ELSE CHOOSE i \in ahead : \A j \in ahead : i <= j

LEMMA SearchFinds ==
    ASSUME NEW s \in Seq(Hashes), Ascending(s), s # << >>, NEW h \in Hashes
    PROVE  Follows(ToSet(s), h, s[IndexIn(s, h)])
<1> DEFINE ahead == {i \in DOMAIN s : s[i] >= h}
           i == IndexIn(s, h)
<1>1. /\ Len(s) \in Nat /\ DOMAIN s = 1..Len(s) /\ 1 \in DOMAIN s
      /\ \A j \in DOMAIN s : s[j] \in Nat /\ s[j] \in ToSet(s)
  <2>1. Len(s) \in Nat /\ DOMAIN s = 1..Len(s) /\ Len(s) # 0
    BY LenProperties, EmptySeq
  <2>2. \A j \in DOMAIN s : s[j] \in Nat
    BY <2>1, ElementOfSeq, HashesAreNumbers
  <2>3. QED BY <2>1, <2>2 DEF ToSet
<1>2. h \in Nat
    BY HashesAreNumbers
<1>3. CASE ahead = {}
  <2>1. i = 1
    BY <1>3 DEF IndexIn
  <2>2. \A j \in DOMAIN s : s[j] < h /\ s[1] <= s[j]
    <3>1. \A j \in DOMAIN s : j = 1 \/ 1 < j
        BY <1>1
    <3>2. QED BY <1>1, <1>2, <1>3, <3>1 DEF Ascending
  <2>3. \A y \in ToSet(s) : y < h /\ s[1] <= y
    BY <2>2 DEF ToSet
  <2>4. QED BY <1>1, <2>1, <2>3 DEF Follows
<1>4. CASE ahead # {}
  <2>1. PICK k \in ahead : \A j \in ahead : k <= j
    <3>1. ahead \in SUBSET Nat
        BY <1>1
    <3> HIDE DEF ahead
    <3>2. QED BY <1>4, <3>1, LeastExists, Zenon
  <2>2. i = CHOOSE m \in ahead : \A j \in ahead : m <= j
    BY <1>4 DEF IndexIn
  <2> HIDE DEF i, ahead
  <2>3. i \in ahead /\ \A j \in ahead : i <= j
    BY <2>1, <2>2
  <2>4. i \in DOMAIN s /\ s[i] >= h
    BY <2>3 DEF ahead
  <2>5. ASSUME NEW j \in DOMAIN s, s[j] >= h PROVE s[i] <= s[j]
    <3>1. j \in ahead
        BY <2>5 DEF ahead
    <3>2. i = j \/ i < j
        BY <1>1, <2>3, <2>4, <3>1
    <3>3. QED BY <1>1, <2>4, <3>2 DEF Ascending
  <2>6. \A y \in ToSet(s) : y >= h => s[i] <= y
    BY <2>5 DEF ToSet
  <2>7. QED BY <1>1, <2>4, <2>6 DEF Follows, i
<1>5. QED BY <1>3, <1>4

(* Hashes that join a ring take keys from the old ones, and no old one     *)
(* takes keys from another.                                                *)
LEMMA OnlyJoiningTake ==
    ASSUME NEW R \in SUBSET Nat, NEW N \in SUBSET Nat, NEW h \in Nat, NEW x,
           Follows(R \cup N, h, x), x \notin N
    PROVE  Follows(R, h, x)
BY DEF Follows

LEMMA EmptyRing ==
    ASSUME NEW s \in Seq(Hashes)
    PROVE  s = << >> <=> ToSet(s) = {}
<1>1. CASE s = << >>
  <2>1. DOMAIN s = {}
    BY <1>1
  <2>2. QED BY <1>1, <2>1 DEF ToSet
<1>2. CASE s # << >>
  <2>1. Len(s) \in Nat /\ DOMAIN s = 1..Len(s) /\ Len(s) # 0
    BY <1>2, LenProperties, EmptySeq
  <2>2. 1 \in DOMAIN s
    BY <2>1
  <2>3. QED BY <1>2, <2>2 DEF ToSet
<1>3. QED BY <1>1, <1>2

LEMMA SortedIsAscending ==
    ASSUME NEW s \in Seq(Hashes)
    PROVE  IsSorted(s, <=) <=> Ascending(s)
BY LenProperties DEF IsSorted, Ascending

LEMMA RingType ==
    ASSUME TypeOK
    PROVE  keys \in Seq(Hashes) /\ Ascending(keys)
BY SortedIsAscending DEF TypeOK

LEMMA AddMoves ==
    ASSUME TypeOK, hash \in [Virtual -> Hashes], NEW ns \in NodeLists, AddNode(ns), NEW h \in Hashes
    PROVE  GetTruthNode(h)' \in {GetTruthNode(h)} \cup ToSet(ns)
<1> DEFINE R == ToSet(keys)
           N == HashesFor(ToSet(ns))
           x == keys'[IndexIn(keys', h)]
           y == keys[IndexIn(keys, h)]
<1>1. /\ keys' \in Seq(Hashes) /\ Ascending(keys') /\ ToSet(keys') = R \cup N
      /\ \A g \in Hashes : g \notin N => hashMap'[g] = hashMap[g]
      /\ \A g \in N : hashMap'[g] \in ToSet(ns)
    BY AddNodeEffect
<1>2. keys \in Seq(Hashes) /\ Ascending(keys)
    BY RingType
<1>3. R \in SUBSET Hashes /\ R \cup N \in SUBSET Hashes
    BY <1>1, <1>2, LenProperties, ElementOfSeq DEF ToSet
<1>4. GetTruthNode(h) = IF keys = << >> THEN Panic ELSE hashMap[y]
    BY DEF GetTruthNode, Index, IndexIn
<1>5. GetTruthNode(h)' = IF keys' = << >> THEN Panic ELSE hashMap'[x]
    BY DEF GetTruthNode, Index, IndexIn
<1>6. ASSUME NEW s \in Seq(Hashes) PROVE s = << >> <=> ToSet(s) = {}
    BY EmptyRing
<1>7. CASE keys' = << >>
  <2>1. keys = << >>
    BY <1>1, <1>2, <1>6, <1>7
  <2>2. QED BY <1>4, <1>5, <1>7, <2>1
<1>8. CASE keys' # << >>
  <2>1. Follows(R \cup N, h, x)
    BY <1>1, <1>8, SearchFinds
  <2>2. GetTruthNode(h)' = hashMap'[x]
    BY <1>5, <1>8
  <2> HIDE DEF x, y, R, N
  <2>3. CASE x \in N
    BY <1>1, <2>2, <2>3
  <2>4. CASE x \notin N
    <3>1. Follows(R, h, x) /\ x \in R /\ h \in Nat /\ R \in SUBSET Nat
      <4>1. R \in SUBSET Nat /\ N \in SUBSET Nat /\ h \in Nat
        BY <1>3, HashesAreNumbers
      <4>2. Follows(R, h, x)
        BY <2>1, <2>4, <4>1, OnlyJoiningTake
      <4>3. QED BY <4>1, <4>2 DEF Follows
    <3>2. keys # << >>
        BY <1>2, <1>6, <3>1 DEF R
    <3>3. Follows(R, h, y)
        BY <1>2, <3>2, SearchFinds DEF R, y
    <3>4. x = y
        BY <3>1, <3>3, FollowerIsOne
    <3>5. x \in Hashes
        BY <1>3, <3>1
    <3>6. QED BY <1>1, <1>4, <2>2, <2>4, <3>2, <3>4, <3>5
  <2>5. QED BY <2>3, <2>4
<1>9. QED BY <1>7, <1>8

-----------------------------------------------------------------------------
(* A slice that is sorted up to its length.                                *)
Slices(n) ==
    {s \in [array : Seq(Hashes), len : Nat, ok : BOOLEAN] :
        /\ Len(s.array) = n
        /\ s.len <= n
        /\ \A i, j \in 1..s.len : i < j => s.array[i] <= s.array[j]}

(* A loop of n rounds, each of which keeps the state in S.                 *)
IsLoop(f, n, S, b, g) ==
    f \in [0..n -> S] /\ f[0] = b /\ \A i \in 1..n : f[i] = g[<<f[i - 1], i>>]

LEMMA LoopExists ==
    ASSUME NEW n \in Nat, NEW S, NEW b \in S, NEW g \in [S \X (1..n) -> S]
    PROVE  \E f : IsLoop(f, n, S, b, g)
<1> DEFINE Loops(m) == {f \in [0..m -> S] : f[0] = b /\ \A i \in 1..m : f[i] = g[<<f[i - 1], i>>]}
           T == {m \in 0..n : Loops(m) # {}}
<1>1. 0 \in T
  <2>1. [i \in 0..0 |-> b] \in Loops(0)
    OBVIOUS
  <2>2. 0 \in 0..n
    OBVIOUS
  <2> HIDE DEF Loops
  <2>3. QED BY <2>1, <2>2
<1>2. ASSUME NEW m \in 0..n, m + 1 \in 0..n, m \in T PROVE m + 1 \in T
  <2>1. PICK f : f \in Loops(m)
    BY <1>2
  <2> DEFINE f2 == [i \in 0..m + 1 |-> IF i = m + 1 THEN g[<<f[m], m + 1>>] ELSE f[i]]
  <2>2. /\ f \in [0..m -> S] /\ f[0] = b /\ \A i \in 1..m : f[i] = g[<<f[i - 1], i>>]
        /\ m \in Nat /\ m \in 0..m /\ m + 1 \in 1..n
    BY <1>2, <2>1
  <2>3. \A i \in 0..m + 1 : i = m + 1 \/ (i # m + 1 /\ i \in 0..m)
    BY <2>2
  <2>4. f[m] \in S /\ g[<<f[m], m + 1>>] \in S
    BY <2>2
  <2>5. f2 \in [0..m + 1 -> S]
    BY <2>2, <2>3, <2>4
  <2>6. f2[0] = b
    BY <2>2
  <2>7. ASSUME NEW i \in 1..m + 1 PROVE f2[i] = g[<<f2[i - 1], i>>]
    <3>1. i - 1 \in 0..m + 1 /\ i - 1 # m + 1 /\ f2[i - 1] = f[i - 1] /\ i \in 0..m + 1
        BY <2>2
    <3>2. CASE i = m + 1
      <4>1. i - 1 = m /\ f2[i] = g[<<f[m], m + 1>>]
        BY <2>2, <3>1, <3>2
      <4>2. QED BY <3>1, <3>2, <4>1
    <3>3. CASE i # m + 1
      <4>1. i \in 1..m /\ f2[i] = f[i]
        BY <2>2, <3>1, <3>3
      <4>2. QED BY <2>2, <3>1, <4>1
    <3>4. QED BY <3>2, <3>3
  <2>8. f2 \in Loops(m + 1)
    BY <2>5, <2>6, <2>7
  <2> HIDE DEF Loops
  <2>9. QED BY <1>2, <2>8
<1> HIDE DEF Loops
<1>3. 0..n \subseteq T
    BY <1>1, <1>2, IntervalInduction
<1>4. n \in T
    BY <1>3
<1>5. QED BY <1>4 DEF Loops, IsLoop

(* One round of the loop in RemovePeer.                                    *)
LEMMA ScanKeepsSorted ==
    ASSUME NEW n \in Nat, NEW s \in Slices(n), NEW i \in 1..n, NEW value
    PROVE  Scan(s, i, value) \in Slices(n)
<1>1. /\ s \in [array : Seq(Hashes), len : Nat, ok : BOOLEAN] /\ Len(s.array) = n
      /\ s.array \in Seq(Hashes) /\ DOMAIN s.array = 1..n /\ s.len \in Nat /\ s.len <= n
      /\ \A j, k \in 1..s.len : j < k => s.array[j] <= s.array[k]
      /\ \A j \in 1..n : s.array[j] \in Hashes /\ s.array[j] \in Nat
  <2>1. s \in [array : Seq(Hashes), len : Nat, ok : BOOLEAN] /\ Len(s.array) = n
    BY DEF Slices
  <2>2. DOMAIN s.array = 1..n /\ \A j \in 1..n : s.array[j] \in Hashes
    BY <2>1, LenProperties, ElementOfSeq
  <2>3. QED BY <2>1, <2>2, HashesAreNumbers DEF Slices
<1>2. CASE ~s.ok \/ s.array[i] # value
    BY <1>2 DEF Scan
<1>3. CASE s.ok /\ s.array[i] = value /\ i > s.len
  <2> DEFINE t == [s EXCEPT !.ok = FALSE]
  <2>1. Scan(s, i, value) = t
    BY <1>3 DEF Scan
  <2>2. t \in [array : Seq(Hashes), len : Nat, ok : BOOLEAN] /\ t.array = s.array /\ t.len = s.len
    BY <1>1
  <2> HIDE DEF t
  <2>3. QED BY <1>1, <2>1, <2>2 DEF Slices
<1>4. CASE s.ok /\ s.array[i] = value /\ ~(i > s.len)
  <2> DEFINE a == [j \in DOMAIN s.array |->
                      IF i <= j /\ j < s.len THEN s.array[j + 1] ELSE s.array[j]]
             t == [s EXCEPT !.len = @ - 1, !.array = a]
  <2>1. Scan(s, i, value) = t
    BY <1>4 DEF Scan
  <2>2. a = [j \in 1..n |-> IF i <= j /\ j < s.len THEN s.array[j + 1] ELSE s.array[j]]
    BY <1>1
  <2>3. ASSUME NEW j \in 1..n
        PROVE  /\ a[j] \in Hashes
               /\ i <= j /\ j < s.len => j + 1 \in 1..s.len /\ a[j] = s.array[j + 1]
               /\ ~(i <= j /\ j < s.len) => a[j] = s.array[j]
    <3>1. i <= j /\ j < s.len => j + 1 \in 1..n /\ j + 1 \in 1..s.len
        BY <1>1
    <3>2. QED BY <1>1, <2>2, <3>1
  <2>4. a \in [1..n -> Hashes]
    BY <2>2, <2>3
  <2> HIDE DEF a
  <2>5. a \in Seq(Hashes) /\ Len(a) = n
    BY <2>4, FunctionIsSeq
  <2>6. /\ t \in [array : Seq(Hashes), len : Nat, ok : BOOLEAN]
        /\ t.array = a /\ t.len = s.len - 1 /\ t.len <= n
    <3> DEFINE m == s.len - 1
    <3>1. s.len \in Nat /\ i <= s.len /\ s.len <= n
        BY <1>1, <1>4
    <3>2. m \in Nat /\ m <= n
        BY <3>1
    <3>3. t = [s EXCEPT !.len = m, !.array = a]
        OBVIOUS
    <3> HIDE DEF m, t
    <3>4. t \in [array : Seq(Hashes), len : Nat, ok : BOOLEAN] /\ t.array = a /\ t.len = m
        BY <1>1, <2>5, <3>2, <3>3
    <3>5. QED BY <3>2, <3>4 DEF m
  <2> HIDE DEF t
  <2>7. ASSUME NEW j \in 1..t.len, NEW k \in 1..t.len, j < k PROVE a[j] <= a[k]
    <3>1. /\ j \in 1..n /\ k \in 1..n /\ j \in 1..s.len /\ k \in 1..s.len
          /\ j < s.len /\ k < s.len /\ j + 1 \in 1..s.len /\ k + 1 \in 1..s.len
        BY <1>1, <2>6
    <3>2. CASE i <= j
      <4>1. i <= k /\ j + 1 < k + 1
        BY <2>7, <3>1, <3>2
      <4>2. QED BY <1>1, <2>3, <3>1, <3>2, <4>1
    <3>3. CASE ~(i <= j) /\ i <= k
      <4>1. j < k + 1
        BY <2>7, <3>1
      <4>2. a[j] = s.array[j] /\ a[k] = s.array[k + 1]
        BY <2>3, <3>1, <3>3
      <4>3. QED BY <1>1, <3>1, <4>1, <4>2
    <3>4. CASE ~(i <= j) /\ ~(i <= k)
      <4>1. a[j] = s.array[j] /\ a[k] = s.array[k]
        BY <2>3, <3>1, <3>4
      <4>2. QED BY <1>1, <2>7, <3>1, <4>1
    <3>5. QED BY <3>2, <3>3, <3>4
  <2>8. QED BY <2>1, <2>5, <2>6, <2>7 DEF Slices
<1>5. QED BY <1>2, <1>3, <1>4

(* The loop over the array, for a value to remove.                         *)
RingOf(s) == [s EXCEPT !.array = SubSeq(@, 1, s.len)]

LEMMA RemoveHashSteps ==
    ASSUME NEW n \in Nat, NEW s \in Slices(n), s.ok, NEW value
    PROVE  \E f \in [0..s.len -> Slices(s.len)] :
               /\ f[0] = RingOf(s)
               /\ \A i \in 1..s.len : f[i] = Scan(f[i - 1], i, value)
               /\ RemoveHash(s, value) = f[s.len]
<1> DEFINE m == s.len
           S == Slices(m)
           b == RingOf(s)
           F(f) == [i \in 0..m |-> IF i = 0 THEN b ELSE Scan(f[i - 1], i, value)]
           g == [x \in S \X (1..m) |-> Scan(x[1], x[2], value)]
<1>1. /\ s \in [array : Seq(Hashes), len : Nat, ok : BOOLEAN] /\ Len(s.array) = n
      /\ m \in Nat /\ m \in 0..n
      /\ \A j, k \in 1..m : j < k => s.array[j] <= s.array[k]
    BY DEF Slices
<1>2. b \in S
  <2> DEFINE a == SubSeq(s.array, 1, m)
  <2>1. a \in Seq(Hashes) /\ Len(a) = m /\ \A j \in 1..m : a[j] = s.array[j]
    BY <1>1, SubSeqProperties
  <2>2. b = [s EXCEPT !.array = a]
    BY DEF RingOf
  <2> HIDE DEF a, b
  <2>3. b \in [array : Seq(Hashes), len : Nat, ok : BOOLEAN] /\ b.array = a /\ b.len = m
    BY <1>1, <2>1, <2>2
  <2>4. QED BY <1>1, <2>1, <2>3 DEF Slices
<1>3. RemoveHash(s, value) = (CHOOSE f : f = F(f))[m]
    BY DEF RemoveHash, RingOf
<1> HIDE DEF m, b, S
<1>4. \A t \in S, i \in 1..m : Scan(t, i, value) \in S
    BY <1>1, ScanKeepsSorted DEF S
<1>5. g \in [S \X (1..m) -> S]
    BY <1>4
<1>6. \A t \in S, i \in 1..m : g[<<t, i>>] = Scan(t, i, value)
    OBVIOUS
<1> HIDE DEF g
<1>7. \E f : f = F(f)
  <2>1. PICK f : IsLoop(f, m, S, b, g)
    <3>1. m \in Nat
        BY <1>1
    <3>2. QED BY <1>2, <1>5, <3>1, LoopExists, Zenon
  <2>2. ASSUME NEW i \in 0..m PROVE f[i] = IF i = 0 THEN b ELSE Scan(f[i - 1], i, value)
    <3>1. i # 0 => i \in 1..m /\ i - 1 \in 0..m
        BY <1>1
    <3>2. QED BY <1>6, <2>1, <3>1 DEF IsLoop
  <2>3. f = F(f)
    BY <2>1, <2>2 DEF IsLoop
  <2>4. QED BY <2>3
<1>8. ASSUME NEW f, f = F(f)
      PROVE  /\ f \in [0..m -> S] /\ f[0] = b
             /\ \A i \in 1..m : f[i] = Scan(f[i - 1], i, value)
  <2> DEFINE T == {i \in 0..m : f[i] \in S}
  <2>1. /\ 0 \in 0..m /\ \A i \in 1..m : i \in 0..m /\ i # 0
    BY <1>1
  <2>2. \A i \in 0..m : f[i] = IF i = 0 THEN b ELSE Scan(f[i - 1], i, value)
    BY <1>8
  <2>3. f[0] = b /\ \A i \in 1..m : f[i] = Scan(f[i - 1], i, value)
    BY <2>1, <2>2
  <2>4. 0 \in T
    BY <1>2, <2>1, <2>3
  <2>5. ASSUME NEW i \in 0..m, i + 1 \in 0..m, i \in T PROVE i + 1 \in T
    <3>1. i + 1 \in 1..m /\ (i + 1) - 1 = i
        BY <1>1, <2>5
    <3>2. f[i + 1] = Scan(f[i], i + 1, value)
        BY <2>3, <3>1
    <3>3. QED BY <1>4, <2>5, <3>1, <3>2
  <2> HIDE DEF T
  <2>6. 0..m \subseteq T
    BY <1>1, <2>4, <2>5, IntervalInduction
  <2>7. \A i \in 0..m : f[i] \in S
    BY <2>6 DEF T
  <2>8. f = [i \in 0..m |-> f[i]]
    BY <1>8
  <2>9. QED BY <2>3, <2>7, <2>8
<1> HIDE DEF F
<1>9. QED BY <1>3, <1>7, <1>8 DEF m, b, S

LEMMA RemoveHashKeepsSorted ==
    ASSUME NEW n \in Nat, NEW s \in Slices(n), NEW value
    PROVE  \E m \in Nat : RemoveHash(s, value) \in Slices(m)
<1>1. CASE ~s.ok
    BY <1>1 DEF RemoveHash
<1>2. CASE s.ok
  <2>1. s.len \in Nat /\ s.len \in 0..s.len
    BY DEF Slices
  <2>2. RemoveHash(s, value) \in Slices(s.len)
    BY <1>2, <2>1, RemoveHashSteps
  <2>3. QED BY <2>1, <2>2
<1>3. QED BY <1>1, <1>2

-----------------------------------------------------------------------------
(* Without collisions a removal is what it is meant to be.                 *)
Held(s) == {s.array[i] : i \in 1..s.len}
HeldDistinct(s) == \A i, j \in 1..s.len : s.array[i] = s.array[j] => i = j

(* The slice after the removal at p.                                       *)
ShiftedAt(s, p) ==
    [s EXCEPT !.len = @ - 1,
              !.array = [j \in DOMAIN @ |-> IF p <= j /\ j < s.len THEN @[j + 1] ELSE @[j]]]

LEMMA ShiftedFields ==
    ASSUME NEW n \in Nat, NEW b \in Slices(n), b.len = n, NEW p \in 1..n
    PROVE  /\ ShiftedAt(b, p).ok = b.ok /\ ShiftedAt(b, p).len = n - 1
           /\ \A j \in 1..n : ShiftedAt(b, p).array[j]
                  = IF p <= j /\ j < n THEN b.array[j + 1] ELSE b.array[j]
<1> DEFINE a == [j \in DOMAIN b.array |->
                    IF p <= j /\ j < b.len THEN b.array[j + 1] ELSE b.array[j]]
           t == ShiftedAt(b, p)
<1>1. b \in [array : Seq(Hashes), len : Nat, ok : BOOLEAN] /\ DOMAIN b.array = 1..n
    BY LenProperties DEF Slices
<1>2. \A j \in 1..n : a[j] = IF p <= j /\ j < n THEN b.array[j + 1] ELSE b.array[j]
    BY <1>1
<1>3. t = [b EXCEPT !.len = b.len - 1, !.array = a]
    BY DEF ShiftedAt
<1> HIDE DEF a, t
<1>4. t.ok = b.ok /\ t.len = b.len - 1 /\ t.array = a
    BY <1>1, <1>3
<1>5. QED BY <1>2, <1>4 DEF t

LEMMA ShiftedHeld ==
    ASSUME NEW n \in Nat, NEW b \in Slices(n), b.len = n, HeldDistinct(b), NEW p \in 1..n
    PROVE  /\ Held(ShiftedAt(b, p)) = Held(b) \ {b.array[p]}
           /\ HeldDistinct(ShiftedAt(b, p))
<1> DEFINE t == ShiftedAt(b, p)
           R(j) == b.array[j]
           Old(j) == IF p <= j THEN j + 1 ELSE j
           New(j) == IF p < j THEN j - 1 ELSE j
<1>1. t.len = n - 1 /\ \A j \in 1..n : t.array[j] = IF p <= j /\ j < n THEN R(j + 1) ELSE R(j)
    BY ShiftedFields
<1>2. \A i, j \in 1..n : R(i) = R(j) => i = j
    BY DEF HeldDistinct
<1> HIDE DEF t, R
<1>3. ASSUME NEW j \in 1..t.len PROVE t.array[j] = R(Old(j)) /\ Old(j) \in 1..n /\ Old(j) # p
  <2>1. j \in 1..n /\ j < n
    BY <1>1
  <2>2. QED BY <1>1, <2>1
<1>4. ASSUME NEW j \in 1..n, j # p PROVE New(j) \in 1..t.len /\ Old(New(j)) = j
    BY <1>1, <1>4
<1>5. \A i, j \in 1..t.len : Old(i) = Old(j) => i = j
    BY <1>1
<1> HIDE DEF Old, New
<1>6. HeldDistinct(t)
    BY <1>2, <1>3, <1>5 DEF HeldDistinct
<1>7. Held(t) = {R(j) : j \in 1..n} \ {R(p)}
  <2>1. ASSUME NEW j \in 1..t.len PROVE t.array[j] \in {R(i) : i \in 1..n} \ {R(p)}
    BY <1>2, <1>3
  <2>2. ASSUME NEW j \in 1..n, R(j) # R(p) PROVE R(j) \in Held(t)
    <3>1. New(j) \in 1..t.len /\ Old(New(j)) = j
        BY <1>4, <2>2
    <3>2. t.array[New(j)] = R(j)
        BY <1>3, <3>1
    <3>3. QED BY <3>1, <3>2 DEF Held
  <2>3. QED BY <2>1, <2>2 DEF Held
<1>8. QED BY <1>6, <1>7 DEF Held, t, R

LEMMA RemoveHashExact ==
    ASSUME NEW n \in Nat, NEW s \in Slices(n), s.ok, HeldDistinct(s), NEW value
    PROVE  /\ RemoveHash(s, value).ok
           /\ Held(RemoveHash(s, value)) = Held(s) \ {value}
           /\ HeldDistinct(RemoveHash(s, value))
<1> DEFINE m == s.len
           b == RingOf(s)
           R(j) == b.array[j]
<1>1. m \in Nat /\ m \in 0..n /\ s.array \in Seq(Hashes) /\ Len(s.array) = n
    BY DEF Slices
<1>2. PICK f \in [0..m -> Slices(m)] :
          /\ f[0] = b
          /\ \A i \in 1..m : f[i] = Scan(f[i - 1], i, value)
          /\ RemoveHash(s, value) = f[m]
    BY RemoveHashSteps
<1>3. b \in Slices(m)
  <2>1. 0 \in 0..m
    BY <1>1
  <2>2. QED BY <1>2, <2>1
<1>4. b.len = m /\ b.ok /\ \A j \in 1..m : R(j) = s.array[j]
  <2> DEFINE a == SubSeq(s.array, 1, m)
  <2>1. \A j \in 1..m : a[j] = s.array[j]
    BY <1>1, SubSeqProperties
  <2>2. b = [s EXCEPT !.array = a] /\ s \in [array : Seq(Hashes), len : Nat, ok : BOOLEAN]
    BY DEF RingOf, Slices
  <2> HIDE DEF a, b
  <2>3. b.array = a /\ b.len = m /\ b.ok = s.ok
    BY <2>2
  <2>4. QED BY <2>1, <2>3
<1>5. Held(b) = Held(s) /\ HeldDistinct(b)
    BY <1>4 DEF Held, HeldDistinct
<1> HIDE DEF b, m
<1>6. \A i, j \in 1..m : R(i) = R(j) => i = j
    BY <1>4, <1>5 DEF HeldDistinct
<1> DEFINE Missed(i) == f[i] = b /\ \A j \in 1..i : R(j) # value
           Found(i) == \E p \in 1..i : R(p) = value /\ f[i] = ShiftedAt(b, p)
           T == {i \in 0..m : Missed(i) \/ Found(i)}
<1>7. 0 \in T
  <2>1. 0 \in 0..m /\ 1..0 = {}
    BY <1>1
  <2>2. Missed(0)
    BY <1>2, <2>1
  <2>3. QED BY <2>1, <2>2
<1>8. ASSUME NEW i \in 0..m, i + 1 \in 0..m, i \in T PROVE i + 1 \in T
  <2>1. i + 1 \in 1..m /\ (i + 1) - 1 = i /\ ~(i + 1 > m)
    BY <1>1, <1>8
  <2>2. f[i + 1] = Scan(f[i], i + 1, value)
    BY <1>2, <2>1
  <2>3. CASE Missed(i) /\ R(i + 1) # value
    <3>1. f[i + 1] = b
        BY <2>2, <2>3 DEF Scan
    <3>2. \A j \in 1..i + 1 : j \in 1..i \/ j = i + 1
        BY <2>1
    <3>3. Missed(i + 1)
        BY <2>3, <3>1, <3>2
    <3>4. QED BY <1>8, <3>3
  <2>4. CASE Missed(i) /\ R(i + 1) = value
    <3>1. f[i + 1] = ShiftedAt(b, i + 1)
        BY <1>4, <2>1, <2>2, <2>4 DEF Scan, ShiftedAt
    <3>2. i + 1 \in 1..i + 1
        BY <2>1
    <3>3. Found(i + 1)
        BY <2>4, <3>1, <3>2
    <3>4. QED BY <1>8, <3>3
  <2>5. CASE Found(i)
    <3>1. PICK p \in 1..i : R(p) = value /\ f[i] = ShiftedAt(b, p)
        BY <2>5
    <3>2. p \in 1..m /\ p # i + 1 /\ p # (i + 1) + 1 /\ p \in 1..i + 1
        BY <1>1, <1>8, <2>1
    <3>3. f[i].array[i + 1] = IF p <= i + 1 /\ i + 1 < m THEN R((i + 1) + 1) ELSE R(i + 1)
        BY <1>1, <1>3, <1>4, <2>1, <3>1, <3>2, ShiftedFields
    <3>4. f[i].array[i + 1] # value
      <4>1. CASE p <= i + 1 /\ i + 1 < m
        <5>1. (i + 1) + 1 \in 1..m
            BY <1>1, <2>1, <4>1
        <5>2. QED BY <1>6, <3>1, <3>2, <3>3, <4>1, <5>1
      <4>2. CASE ~(p <= i + 1 /\ i + 1 < m)
        BY <1>6, <2>1, <3>1, <3>2, <3>3, <4>2
      <4>3. QED BY <4>1, <4>2
    <3>5. f[i + 1] = f[i]
        BY <2>2, <3>4 DEF Scan
    <3>6. Found(i + 1)
        BY <3>1, <3>2, <3>5
    <3>7. QED BY <1>8, <3>6
  <2>6. QED BY <1>8, <2>3, <2>4, <2>5
<1>9. m \in T
  <2> HIDE DEF T
  <2>1. 0..m \subseteq T
    BY <1>1, <1>7, <1>8, IntervalInduction
  <2>2. QED BY <1>1, <2>1
<1>10. CASE Missed(m)
  <2>1. RemoveHash(s, value) = b
    BY <1>2, <1>10
  <2>2. value \notin Held(b)
    BY <1>4, <1>10 DEF Held
  <2>3. QED BY <1>4, <1>5, <2>1, <2>2
<1>11. CASE Found(m)
  <2>1. PICK p \in 1..m : R(p) = value /\ f[m] = ShiftedAt(b, p)
    BY <1>11
  <2>2. RemoveHash(s, value) = ShiftedAt(b, p)
    BY <1>2, <2>1
  <2>3. ShiftedAt(b, p).ok = b.ok
    BY <1>1, <1>3, <1>4, ShiftedFields
  <2>4. Held(ShiftedAt(b, p)) = Held(b) \ {R(p)} /\ HeldDistinct(ShiftedAt(b, p))
    BY <1>1, <1>3, <1>4, <1>5, ShiftedHeld
  <2>5. QED BY <1>4, <1>5, <2>1, <2>2, <2>3, <2>4
<1>12. QED BY <1>9, <1>10, <1>11

-----------------------------------------------------------------------------
(* The loop of RemovePeer over the hashes to remove.                       *)
AnySlice == UNION {Slices(n) : n \in Nat}

LEMMA RemoveHashesSteps ==
    ASSUME NEW s \in AnySlice, NEW vk, Len(vk) \in Nat
    PROVE  \E f \in [0..Len(vk) -> AnySlice] :
               /\ f[0] = s
               /\ \A i \in 1..Len(vk) : f[i] = RemoveHash(f[i - 1], vk[i])
               /\ RemoveHashes(s, vk) = f[Len(vk)]
<1> DEFINE m == Len(vk)
           F(f) == [i \in 0..m |-> IF i = 0 THEN s ELSE RemoveHash(f[i - 1], vk[i])]
           g == [x \in AnySlice \X (1..m) |-> RemoveHash(x[1], vk[x[2]])]
<1>1. m \in Nat
    OBVIOUS
<1>2. RemoveHashes(s, vk) = (CHOOSE f : f = F(f))[m]
    BY DEF RemoveHashes
<1>3. ASSUME NEW t \in AnySlice, NEW value PROVE RemoveHash(t, value) \in AnySlice
  <2>1. PICK n \in Nat : t \in Slices(n)
    BY DEF AnySlice
  <2>2. PICK k \in Nat : RemoveHash(t, value) \in Slices(k)
    BY <2>1, RemoveHashKeepsSorted
  <2>3. QED BY <2>2 DEF AnySlice
<1> HIDE DEF m
<1>4. g \in [AnySlice \X (1..m) -> AnySlice]
    BY <1>3
<1>5. \A t \in AnySlice, i \in 1..m : g[<<t, i>>] = RemoveHash(t, vk[i])
    OBVIOUS
<1> HIDE DEF g
<1>6. \E f : f = F(f)
  <2>1. PICK f : IsLoop(f, m, AnySlice, s, g)
    BY <1>1, <1>4, LoopExists, Zenon
  <2>2. ASSUME NEW i \in 0..m PROVE f[i] = IF i = 0 THEN s ELSE RemoveHash(f[i - 1], vk[i])
    <3>1. i # 0 => i \in 1..m /\ i - 1 \in 0..m
        BY <1>1
    <3>2. QED BY <1>5, <2>1, <3>1 DEF IsLoop
  <2>3. f = F(f)
    BY <2>1, <2>2 DEF IsLoop
  <2>4. QED BY <2>3
<1>7. ASSUME NEW f, f = F(f)
      PROVE  /\ f \in [0..m -> AnySlice] /\ f[0] = s
             /\ \A i \in 1..m : f[i] = RemoveHash(f[i - 1], vk[i])
  <2> DEFINE T == {i \in 0..m : f[i] \in AnySlice}
  <2>1. /\ 0 \in 0..m /\ \A i \in 1..m : i \in 0..m /\ i # 0
    BY <1>1
  <2>2. \A i \in 0..m : f[i] = IF i = 0 THEN s ELSE RemoveHash(f[i - 1], vk[i])
    BY <1>7
  <2>3. f[0] = s /\ \A i \in 1..m : f[i] = RemoveHash(f[i - 1], vk[i])
    BY <2>1, <2>2
  <2>4. 0 \in T
    BY <2>1, <2>3
  <2>5. ASSUME NEW i \in 0..m, i + 1 \in 0..m, i \in T PROVE i + 1 \in T
    <3>1. i + 1 \in 1..m /\ (i + 1) - 1 = i
        BY <1>1, <2>5
    <3>2. f[i + 1] = RemoveHash(f[i], vk[i + 1])
        BY <2>3, <3>1
    <3>3. QED BY <1>3, <2>5, <3>2
  <2> HIDE DEF T
  <2>6. 0..m \subseteq T
    BY <1>1, <2>4, <2>5, IntervalInduction
  <2>7. \A i \in 0..m : f[i] \in AnySlice
    BY <2>6 DEF T
  <2>8. f = [i \in 0..m |-> f[i]]
    BY <1>7
  <2>9. QED BY <2>3, <2>7, <2>8
<1> HIDE DEF F
<1>8. QED BY <1>2, <1>6, <1>7 DEF m

LEMMA RemoveHashesExact ==
    ASSUME NEW s \in AnySlice, s.ok, HeldDistinct(s), NEW vk, Len(vk) \in Nat
    PROVE  /\ RemoveHashes(s, vk) \in AnySlice
           /\ RemoveHashes(s, vk).ok
           /\ Held(RemoveHashes(s, vk)) = Held(s) \ {vk[i] : i \in 1..Len(vk)}
           /\ HeldDistinct(RemoveHashes(s, vk))
<1> DEFINE m == Len(vk)
<1>1. PICK f \in [0..m -> AnySlice] :
          /\ f[0] = s
          /\ \A i \in 1..m : f[i] = RemoveHash(f[i - 1], vk[i])
          /\ RemoveHashes(s, vk) = f[m]
    BY RemoveHashesSteps
<1>2. m \in Nat
    OBVIOUS
<1> HIDE DEF m
<1> DEFINE Gone(i) == {vk[j] : j \in 1..i}
           T == {i \in 0..m : f[i].ok /\ HeldDistinct(f[i]) /\ Held(f[i]) = Held(s) \ Gone(i)}
<1>3. 0 \in T
  <2>1. 0 \in 0..m /\ 1..0 = {}
    BY <1>2
  <2>2. Gone(0) = {}
    BY <2>1
  <2>3. QED BY <1>1, <2>1, <2>2
<1>4. ASSUME NEW i \in 0..m, i + 1 \in 0..m, i \in T PROVE i + 1 \in T
  <2>1. i + 1 \in 1..m /\ (i + 1) - 1 = i /\ \A j : j \in 1..i + 1 <=> j \in 1..i \/ j = i + 1
    BY <1>2, <1>4
  <2>2. Gone(i + 1) = Gone(i) \cup {vk[i + 1]}
    BY <2>1
  <2>3. f[i].ok /\ HeldDistinct(f[i]) /\ Held(f[i]) = Held(s) \ Gone(i) /\ f[i] \in AnySlice
    BY <1>1, <1>4
  <2>4. PICK n \in Nat : f[i] \in Slices(n)
    BY <2>3 DEF AnySlice
  <2>5. f[i + 1] = RemoveHash(f[i], vk[i + 1])
    BY <1>1, <2>1
  <2> HIDE DEF Gone
  <2>6. /\ f[i + 1].ok /\ HeldDistinct(f[i + 1])
        /\ Held(f[i + 1]) = Held(f[i]) \ {vk[i + 1]}
    BY <2>3, <2>4, <2>5, RemoveHashExact
  <2>7. Held(f[i + 1]) = Held(s) \ Gone(i + 1)
    BY <2>2, <2>3, <2>6
  <2>8. QED BY <1>4, <2>6, <2>7
<1> HIDE DEF T
<1>5. 0..m \subseteq T
    BY <1>2, <1>3, <1>4, IntervalInduction
<1>6. m \in T /\ f[m] \in AnySlice
  <2>1. m \in 0..m
    BY <1>2
  <2>2. QED BY <1>1, <1>5, <2>1
<1>7. QED BY <1>1, <1>6 DEF T, m

-----------------------------------------------------------------------------
(* A ring as the loop sees it, and the ring that the loop leaves.          *)
Whole(s) == [array |-> s, len |-> Len(s), ok |-> TRUE]

LEMMA RingIsSlice ==
    ASSUME NEW s \in Seq(Hashes), Ascending(s)
    PROVE  /\ Whole(s) \in AnySlice /\ Whole(s).ok /\ Held(Whole(s)) = ToSet(s)
           /\ Distinct(s) => HeldDistinct(Whole(s))
<1>1. Len(s) \in Nat /\ DOMAIN s = 1..Len(s)
    BY LenProperties
<1>2. Whole(s) \in Slices(Len(s))
    BY <1>1 DEF Whole, Slices, Ascending
<1>3. QED BY <1>1, <1>2 DEF AnySlice, Whole, Held, ToSet, HeldDistinct, Distinct

LEMMA SliceIsRing ==
    ASSUME NEW s \in AnySlice, NEW k, k = SubSeq(s.array, 1, s.len)
    PROVE  /\ k \in Seq(Hashes) /\ Ascending(k) /\ ToSet(k) = Held(s) /\ s.ok \in BOOLEAN
           /\ HeldDistinct(s) => Distinct(k)
<1>1. PICK n \in Nat : s \in Slices(n)
    BY DEF AnySlice
<1> DEFINE m == s.len
<1>2. /\ s \in [array : Seq(Hashes), len : Nat, ok : BOOLEAN] /\ Len(s.array) = n
      /\ m \in Nat /\ m <= n
      /\ \A i, j \in 1..m : i < j => s.array[i] <= s.array[j]
    BY <1>1 DEF Slices
<1>3. k \in Seq(Hashes) /\ Len(k) = m /\ \A i \in 1..m : k[i] = s.array[i]
    BY <1>2, SubSeqProperties
<1> HIDE DEF m
<1>4. DOMAIN k = 1..m
  <2>1. k \in Seq(Hashes) /\ Len(k) = m
    BY <1>3
  <2>2. DOMAIN k = 1..Len(k)
    BY <2>1, LenProperties
  <2>3. QED BY <2>1, <2>2
<1>5. Ascending(k)
    BY <1>2, <1>3, <1>4 DEF Ascending
<1>6. ToSet(k) = Held(s)
    BY <1>3, <1>4 DEF ToSet, Held, m
<1>7. HeldDistinct(s) => Distinct(k)
    BY <1>3, <1>4 DEF HeldDistinct, Distinct, m
<1>8. QED BY <1>2, <1>3, <1>5, <1>6, <1>7

(* An order on a set of hashes lists each of them.                         *)
LEMMA OrdersList ==
    ASSUME NEW S \in SUBSET Hashes, NEW vk \in SetToSeqs(S)
    PROVE  Len(vk) \in Nat /\ {vk[i] : i \in 1..Len(vk)} = S
<1> DEFINE n == Cardinality(S)
<1>1. IsFiniteSet(Hashes)
  <2>1. 0 \in Int /\ MaxHash \in Int
    BY HashesAreNumbers
  <2>2. QED BY <2>1, FS_Interval DEF Hashes
<1>2. IsFiniteSet(S) /\ n \in Nat
    BY <1>1, FS_Subset, FS_CardinalityType
<1>3. vk \in [1..n -> S] /\ \A i, j \in 1..n : i # j => vk[i] # vk[j]
    BY DEF SetToSeqs
<1> HIDE DEF n
<1>4. vk \in Injection(1..n, S)
    BY <1>3 DEF Injection, IsInjective
<1>5. Cardinality(1..n) = Cardinality(S)
    BY <1>2, IntervalCardinality DEF n
<1>6. vk \in Surjection(1..n, S)
    BY <1>2, <1>4, <1>5, FS_Injection
<1>7. \A t \in S : \E i \in 1..n : vk[i] = t
    BY <1>6 DEF Surjection
<1>8. Len(vk) = n
    BY <1>2, <1>3, FunctionIsSeq
<1>9. QED BY <1>2, <1>3, <1>7, <1>8

(* The ring that RemovePeer leaves.                                        *)
LEMMA RemovePeerEffect ==
    ASSUME TypeOK, NEW peer, RemovePeer(peer)
    PROVE  /\ keys' \in Seq(Hashes) /\ Ascending(keys') /\ panicked' \in BOOLEAN
           /\ Distinct(keys) =>
                  /\ ~panicked' /\ Distinct(keys')
                  /\ ToSet(keys') = ToSet(keys) \ {h \in Hashes : hashMap[h] = peer}
<1> DEFINE S == {h \in Hashes : hashMap[h] = peer}
<1>1. PICK vk \in SetToSeqs(S) :
          LET t == RemoveHashes(Whole(keys), vk)
          IN  keys' = SubSeq(t.array, 1, t.len) /\ panicked' = ~t.ok
    BY DEF RemovePeer, Whole
<1>2. keys \in Seq(Hashes) /\ Ascending(keys)
    BY RingType
<1>3. Len(vk) \in Nat /\ {vk[i] : i \in 1..Len(vk)} = S
    BY OrdersList
<1> DEFINE w == Whole(keys)
           t == RemoveHashes(w, vk)
<1>4. w \in AnySlice /\ w.ok /\ Held(w) = ToSet(keys) /\ (Distinct(keys) => HeldDistinct(w))
    BY <1>2, RingIsSlice
<1>5. t \in AnySlice
  <2>1. PICK f \in [0..Len(vk) -> AnySlice] : t = f[Len(vk)]
    BY <1>3, <1>4, RemoveHashesSteps
  <2>2. Len(vk) \in 0..Len(vk)
    BY <1>3
  <2>3. QED BY <2>1, <2>2
<1>6. ASSUME Distinct(keys) PROVE t.ok /\ Held(t) = ToSet(keys) \ S /\ HeldDistinct(t)
    BY <1>3, <1>4, <1>6, RemoveHashesExact
<1> HIDE DEF t
<1>7. keys' = SubSeq(t.array, 1, t.len) /\ panicked' = ~t.ok
    BY <1>1 DEF t
<1>8. QED BY <1>5, <1>6, <1>7, SliceIsRing

-----------------------------------------------------------------------------
(* The node that the search finds is the one that follows the hash.        *)
LEMMA ClockwiseOrder ==
    ASSUME NEW a \in Hashes, NEW b \in Hashes, NEW h \in Hashes,
           NEW p, hash[p] = a, NEW q, hash[q] = b
    PROVE  /\ Clockwise(h, p) \in Nat
           /\ Clockwise(h, p) <= Clockwise(h, q)
                  <=> IF a >= h THEN b < h \/ a <= b ELSE b < h /\ a <= b
<1>1. /\ MaxHash \in Nat /\ a \in Nat /\ b \in Nat /\ h \in Nat
      /\ a <= MaxHash /\ b <= MaxHash /\ h <= MaxHash
    BY HashesAreNumbers DEF Hashes
<1>2. /\ Clockwise(h, p) = IF a >= h THEN a - h ELSE (MaxHash + 1 - h) + a
      /\ Clockwise(h, q) = IF b >= h THEN b - h ELSE (MaxHash + 1 - h) + b
    BY DEF Clockwise
<1>3. QED BY <1>1, <1>2

LEMMA OwnerFollows ==
    ASSUME hash \in [Virtual -> Hashes], nodes \in SUBSET Nodes, NEW h \in Hashes,
           NEW x, Follows(HashesFor(nodes), h, x)
    PROVE  \E p \in nodes \X (0..Replicas - 1) : Owner(h) = p[1] /\ hash[p] = x
<1> DEFINE ring == nodes \X (0..Replicas - 1)
           R == HashesFor(nodes)
           first == CHOOSE p \in ring : \A q \in ring : Clockwise(h, p) <= Clockwise(h, q)
<1>1. \A p \in ring : p \in Virtual /\ hash[p] \in Hashes /\ hash[p] \in R
    BY DEF Virtual, HashesFor
<1>2. PICK p \in ring : hash[p] = x
    BY DEF Follows, HashesFor
<1>3. h \in Nat /\ \A q \in ring : hash[q] \in Nat
    BY <1>1, HashesAreNumbers
<1>4. ASSUME NEW q \in ring PROVE Clockwise(h, p) <= Clockwise(h, q)
  <2>1. x \in Hashes /\ hash[q] \in Hashes /\ hash[q] \in R
    BY <1>1, <1>2
  <2>2. IF x >= h THEN hash[q] < h \/ x <= hash[q] ELSE hash[q] < h /\ x <= hash[q]
    BY <1>2, <1>3, <2>1 DEF Follows
  <2>3. QED BY <1>2, <2>1, <2>2, ClockwiseOrder
<1> HIDE DEF ring
<1>5. first \in ring /\ \A q \in ring : Clockwise(h, first) <= Clockwise(h, q)
    BY <1>2, <1>4
<1>6. Owner(h) = first[1]
  <2>1. nodes # {}
    BY <1>2 DEF ring
  <2>2. QED BY <2>1 DEF Owner, ring
<1> HIDE DEF first
<1>7. hash[first] = x
  <2>1. hash[first] \in Hashes /\ x \in Hashes
    BY <1>1, <1>2, <1>5
  <2>2. Clockwise(h, first) <= Clockwise(h, p) /\ Clockwise(h, p) <= Clockwise(h, first)
    BY <1>2, <1>4, <1>5
  <2>3. /\ IF hash[first] >= h THEN x < h \/ hash[first] <= x ELSE x < h /\ hash[first] <= x
        /\ IF x >= h THEN hash[first] < h \/ x <= hash[first]
                     ELSE hash[first] < h /\ x <= hash[first]
    BY <1>2, <2>1, <2>2, ClockwiseOrder
  <2>4. QED BY <1>2, <1>3, <1>5, <2>3
<1>8. QED BY <1>5, <1>6, <1>7 DEF ring

-----------------------------------------------------------------------------
(* The inductive invariant.                                                *)
TypeInv == TypeOK /\ hash \in [Virtual -> Hashes]

(* Without collisions the ring holds every hash of the nodes that are      *)
(* there once and no other, and hashMap has the node of each.              *)
RingInv ==
    NoCollision =>
        /\ ~panicked
        /\ Distinct(keys)
        /\ ToSet(keys) = HashesFor(nodes)
        /\ \A h \in HashesFor(nodes) : hashMap[h] \in nodes /\ h \in HashesFor({hashMap[h]})
        /\ \A h \in Hashes \ HashesFor(nodes) : hashMap[h] = Nobody

LEMMA HashesForEmpty == HashesFor({}) = {}
BY DEF HashesFor

LEMMA HashesForType ==
    ASSUME hash \in [Virtual -> Hashes], NEW S \in SUBSET Nodes
    PROVE  HashesFor(S) \in SUBSET Hashes
<1>1. \A p \in S \X (0..Replicas - 1) : p \in Virtual
    BY DEF Virtual
<1>2. QED BY <1>1 DEF HashesFor

LEMMA TypeMeans ==
    TypeInv <=> /\ keys \in Seq(Hashes) /\ Ascending(keys)
                /\ hashMap \in [Hashes -> Nodes \cup {Nobody}]
                /\ nodes \subseteq Nodes
                /\ readded \in BOOLEAN /\ panicked \in BOOLEAN
                /\ hash \in [Virtual -> Hashes]
BY SortedIsAscending DEF TypeInv, TypeOK

LEMMA InitTypeInv == Init => TypeInv
<1> SUFFICES ASSUME Init PROVE TypeInv
    OBVIOUS
<1>1. hash \in [Virtual -> Hashes]
    BY RingConstants DEF Init
<1>2. keys \in Seq(Hashes) /\ keys = << >>
    BY DEF Init
<1>3. Ascending(keys)
    BY <1>2 DEF Ascending
<1>4. IsSorted(keys, <=)
    BY <1>2, <1>3, SortedIsAscending
<1>5. QED BY <1>1, <1>2, <1>4 DEF Init, TypeInv, TypeOK

LEMMA InitRingInv == Init => RingInv
<1> SUFFICES ASSUME Init PROVE RingInv
    OBVIOUS
<1>1. DOMAIN keys = {}
    BY DEF Init
<1>2. Distinct(keys) /\ ToSet(keys) = {}
    BY <1>1 DEF Distinct, ToSet
<1>3. HashesFor(nodes) = {}
    BY HashesForEmpty DEF Init
<1>4. QED BY <1>2, <1>3 DEF Init, RingInv

LEMMA NextTypeInv == TypeInv /\ [Next]_vars => TypeInv'
<1> DEFINE T == /\ keys \in Seq(Hashes) /\ Ascending(keys)
                /\ hashMap \in [Hashes -> Nodes \cup {Nobody}]
                /\ nodes \subseteq Nodes
                /\ readded \in BOOLEAN /\ panicked \in BOOLEAN
                /\ hash \in [Virtual -> Hashes]
<1>1. ASSUME TypeInv, NEW ns \in NodeLists, AddNode(ns) PROVE T'
  <2>0. TypeOK /\ hash \in [Virtual -> Hashes]
    BY <1>1 DEF TypeInv
  <2>1. /\ keys' \in Seq(Hashes) /\ Ascending(keys')
        /\ hashMap' \in [Hashes -> Nodes \cup {Nobody}]
    BY <1>1, <2>0, AddNodeEffect
  <2>2. nodes' \subseteq Nodes
    BY <1>1, <2>0, JoiningHashes, TypeMeans DEF AddNode
  <2>3. readded' \in BOOLEAN /\ panicked' \in BOOLEAN /\ hash' \in [Virtual -> Hashes]
    BY <1>1, TypeMeans DEF AddNode
  <2>4. QED BY <2>1, <2>2, <2>3 DEF Ascending
<1>2. ASSUME TypeInv, NEW n \in Nodes, RemovePeer(n) PROVE T'
  <2>1. keys' \in Seq(Hashes) /\ Ascending(keys') /\ panicked' \in BOOLEAN
    BY <1>2, RemovePeerEffect DEF TypeInv
  <2>2. /\ hashMap' \in [Hashes -> Nodes \cup {Nobody}] /\ nodes' \subseteq Nodes
        /\ readded' \in BOOLEAN /\ hash' \in [Virtual -> Hashes]
    BY <1>2, TypeMeans DEF RemovePeer
  <2>3. QED BY <2>1, <2>2 DEF Ascending
<1>3. ASSUME TypeInv, UNCHANGED vars PROVE T'
    BY <1>3, TypeMeans DEF vars, Ascending
<1>4. TypeInv /\ [Next]_vars => T'
    BY <1>1, <1>2, <1>3 DEF Next
<1>5. TypeInv <=> T
    BY TypeMeans
<1> HIDE DEF T
<1>6. QED BY <1>4, <1>5, PTL

LEMMA NextRingInv == TypeInv /\ RingInv /\ [Next]_vars => RingInv'
<1> DEFINE Hs(S) == {hash'[p] : p \in S \X (0..Replicas - 1)}
<1> SUFFICES ASSUME TypeInv, RingInv, [Next]_vars, NoCollision'
             PROVE  /\ ~panicked'
                    /\ Distinct(keys')
                    /\ ToSet(keys') = Hs(nodes')
                    /\ \A h \in Hs(nodes') : hashMap'[h] \in nodes' /\ h \in Hs({hashMap'[h]})
                    /\ \A h \in Hashes \ Hs(nodes') : hashMap'[h] = Nobody
    BY DEF RingInv, HashesFor, Distinct, ToSet
<1>0. /\ hash' = hash /\ IsInjective(hash) /\ ~readded /\ hash \in [Virtual -> Hashes]
      /\ nodes \in SUBSET Nodes /\ TypeOK /\ hashMap \in [Hashes -> Nodes \cup {Nobody}]
  <2>1. hash' = hash /\ (readded => readded')
    <3>1. \A ns : AddNode(ns) => hash' = hash /\ (readded => readded')
        BY DEF AddNode
    <3>2. \A n : RemovePeer(n) => hash' = hash /\ (readded => readded')
        BY DEF RemovePeer
    <3>3. QED BY <3>1, <3>2 DEF Next, vars
  <2>2. IsInjective(hash) /\ ~readded
    BY <2>1 DEF NoCollision, IsInjective
  <2>3. QED BY <2>1, <2>2, TypeMeans DEF TypeInv
<1>1. /\ ~panicked
      /\ Distinct(keys)
      /\ ToSet(keys) = HashesFor(nodes)
      /\ \A h \in HashesFor(nodes) : hashMap[h] \in nodes /\ h \in HashesFor({hashMap[h]})
      /\ \A h \in Hashes \ HashesFor(nodes) : hashMap[h] = Nobody
    BY <1>0 DEF RingInv, NoCollision
<1>4. \A S : Hs(S) = HashesFor(S)
    BY <1>0 DEF HashesFor
<1>5. ASSUME NEW ns \in NodeLists, AddNode(ns)
      PROVE  /\ ~panicked'
             /\ Distinct(keys')
             /\ ToSet(keys') = HashesFor(nodes')
             /\ \A h \in HashesFor(nodes') :
                    hashMap'[h] \in nodes' /\ h \in HashesFor({hashMap'[h]})
             /\ \A h \in Hashes \ HashesFor(nodes') : hashMap'[h] = Nobody
  <2> DEFINE N == ToSet(ns)
  <2>1. N \in SUBSET Nodes /\ nodes' = nodes \cup N /\ panicked' = panicked
    BY <1>0, <1>5, JoiningHashes DEF AddNode
  <2>2. IsInjective(ns) /\ N \cap nodes = {}
    BY <1>5 DEF AddNode, NoCollision
  <2>3. HashesFor(nodes') = HashesFor(nodes) \cup HashesFor(N)
    BY <2>1, HashesForUnion
  <2>4. HashesFor(nodes) \cap HashesFor(N) = {}
    BY <1>0, <2>1, <2>2, HashesApart
  <2>5. /\ ToSet(keys') = ToSet(keys) \cup HashesFor(N)
        /\ /\ IsInjective(hash) /\ IsInjective(ns)
           /\ Distinct(keys) /\ ToSet(keys) \cap HashesFor(N) = {}
           => Distinct(keys')
        /\ \A h \in Hashes : h \notin HashesFor(N) => hashMap'[h] = hashMap[h]
        /\ \A h \in HashesFor(N) : hashMap'[h] \in N /\ h \in HashesFor({hashMap'[h]})
    BY <1>0, <1>5, AddNodeEffect
  <2>6. HashesFor(nodes) \in SUBSET Hashes /\ HashesFor(N) \in SUBSET Hashes
    BY <1>0, <2>1, HashesForType
  <2> HIDE DEF N
  <2>7. Distinct(keys') /\ ToSet(keys') = HashesFor(nodes')
    BY <1>0, <1>1, <2>2, <2>3, <2>4, <2>5
  <2>8. ASSUME NEW h \in HashesFor(nodes')
        PROVE  hashMap'[h] \in nodes' /\ h \in HashesFor({hashMap'[h]})
    <3>1. CASE h \in HashesFor(N)
        BY <2>1, <2>5, <3>1
    <3>2. CASE h \in HashesFor(nodes) /\ h \notin HashesFor(N)
        BY <1>1, <2>1, <2>5, <2>6, <3>2
    <3>3. QED BY <2>3, <3>1, <3>2
  <2>9. ASSUME NEW h \in Hashes \ HashesFor(nodes') PROVE hashMap'[h] = Nobody
    BY <1>1, <2>3, <2>5
  <2>10. QED BY <1>1, <2>1, <2>7, <2>8, <2>9
<1>6. ASSUME NEW peer \in Nodes, RemovePeer(peer)
      PROVE  /\ ~panicked'
             /\ Distinct(keys')
             /\ ToSet(keys') = HashesFor(nodes')
             /\ \A h \in HashesFor(nodes') :
                    hashMap'[h] \in nodes' /\ h \in HashesFor({hashMap'[h]})
             /\ \A h \in Hashes \ HashesFor(nodes') : hashMap'[h] = Nobody
  <2>1. /\ peer \in nodes /\ nodes' = nodes \ {peer}
        /\ \A h \in Hashes : hashMap'[h] = IF hashMap[h] = peer THEN Nobody ELSE hashMap[h]
    BY <1>6 DEF RemovePeer
  <2>2. /\ HashesFor(nodes) = HashesFor(nodes') \cup HashesFor({peer})
        /\ HashesFor(nodes') \cap HashesFor({peer}) = {}
    <3>1. nodes = nodes' \cup {peer} /\ nodes' \in SUBSET Nodes /\ nodes' \cap {peer} = {}
        BY <1>0, <2>1
    <3>2. HashesFor(nodes) = HashesFor(nodes' \cup {peer})
        BY <3>1
    <3>3. QED BY <1>0, <3>1, <3>2, HashesForUnion, HashesApart
  <2>3. HashesFor(nodes) \in SUBSET Hashes
    BY <1>0, HashesForType
  <2>4. {h \in Hashes : hashMap[h] = peer} = HashesFor({peer})
    <3>1. ASSUME NEW h \in Hashes, hashMap[h] = peer PROVE h \in HashesFor({peer})
      <4>1. peer # Nobody
        BY RingConstants
      <4>2. h \in HashesFor(nodes)
        BY <1>1, <3>1, <4>1
      <4>3. QED BY <1>1, <3>1, <4>2
    <3>2. ASSUME NEW h \in HashesFor({peer}) PROVE h \in Hashes /\ hashMap[h] = peer
      <4>1. h \in HashesFor(nodes) /\ h \in Hashes
        BY <2>2, <2>3
      <4>2. hashMap[h] \in nodes /\ h \in HashesFor({hashMap[h]})
        BY <1>1, <4>1
      <4>3. {hashMap[h]} \cap {peer} # {}
        BY <1>0, <4>2, HashesApart
      <4>4. QED BY <4>1, <4>3
    <3>3. QED BY <3>1, <3>2
  <2>5. ~panicked' /\ Distinct(keys') /\ ToSet(keys') = ToSet(keys) \ HashesFor({peer})
    BY <1>0, <1>1, <1>6, <2>4, RemovePeerEffect
  <2>6. ToSet(keys') = HashesFor(nodes')
    BY <1>1, <2>2, <2>5
  <2>7. ASSUME NEW h \in HashesFor(nodes')
        PROVE  hashMap'[h] \in nodes' /\ h \in HashesFor({hashMap'[h]})
    <3>1. h \in Hashes /\ h \in HashesFor(nodes) /\ h \notin HashesFor({peer})
        BY <2>2, <2>3
    <3>2. hashMap[h] # peer
        BY <2>4, <3>1
    <3>3. QED BY <1>1, <2>1, <3>1, <3>2
  <2>8. ASSUME NEW h \in Hashes \ HashesFor(nodes') PROVE hashMap'[h] = Nobody
    <3>1. CASE h \in HashesFor({peer})
        BY <2>1, <2>4, <3>1
    <3>2. CASE h \notin HashesFor({peer})
      <4>1. h \notin HashesFor(nodes)
        BY <2>2, <3>2
      <4>2. hashMap[h] = Nobody
        BY <1>1, <4>1
      <4>3. QED BY <2>1, <4>2
    <3>3. QED BY <3>1, <3>2
  <2>9. QED BY <2>5, <2>6, <2>7, <2>8
<1>7. CASE UNCHANGED vars
  <2>1. keys' = keys /\ hashMap' = hashMap /\ nodes' = nodes /\ panicked' = panicked
    BY <1>7 DEF vars
  <2>2. QED BY <1>1, <1>4, <2>1
<1>8. QED BY <1>4, <1>5, <1>6, <1>7 DEF Next

-----------------------------------------------------------------------------
(* In every state the ring is a sorted sequence of hashes, whatever the    *)
(* hash function and however a loop of RemovePeer ends.                    *)
THEOREM RingTypeCorrect == Spec => []TypeOK
<1>1. TypeInv => TypeOK
    BY DEF TypeInv
<1>2. QED BY InitTypeInv, NextTypeInv, <1>1, PTL DEF Spec

(* Without collisions every node that built its ring from the same set of  *)
(* nodes, in whatever order and calls, finds the same owner of every key,  *)
(* the one that the definition of consistent hashing gives, and no         *)
(* removal panics.                                                         *)
THEOREM OwnersAlwaysAgree == Spec => []OwnersAgree
<1>1. TypeInv /\ RingInv => OwnersAgree
  <2> SUFFICES ASSUME TypeInv, RingInv, NoCollision
               PROVE  ~panicked /\ \A h \in Hashes : GetTruthNode(h) = Owner(h)
    BY DEF OwnersAgree
  <2>1. /\ hash \in [Virtual -> Hashes] /\ IsInjective(hash) /\ nodes \in SUBSET Nodes
        /\ keys \in Seq(Hashes) /\ Ascending(keys)
    BY RingType DEF TypeInv, TypeOK, NoCollision
  <2>2. /\ ~panicked /\ ToSet(keys) = HashesFor(nodes)
        /\ \A h \in HashesFor(nodes) : hashMap[h] \in nodes /\ h \in HashesFor({hashMap[h]})
    BY DEF RingInv
  <2>3. ASSUME NEW h \in Hashes PROVE GetTruthNode(h) = Owner(h)
    <3>1. GetTruthNode(h) = IF keys = << >> THEN Panic ELSE hashMap[keys[IndexIn(keys, h)]]
        BY DEF GetTruthNode, Index, IndexIn
    <3>2. CASE keys = << >>
      <4>1. HashesFor(nodes) = {}
        BY <2>1, <2>2, <3>2, EmptyRing
      <4>2. nodes = {}
        <5>1. 0 \in 0..Replicas - 1
            BY HashesAreNumbers
        <5>2. \A n \in nodes : <<n, 0>> \in nodes \X (0..Replicas - 1)
            BY <5>1
        <5>3. QED BY <4>1, <5>2 DEF HashesFor
      <4>3. QED BY <3>1, <3>2, <4>2 DEF Owner
    <3>3. CASE keys # << >>
      <4> DEFINE x == keys[IndexIn(keys, h)]
      <4>1. Follows(HashesFor(nodes), h, x)
        BY <2>1, <2>2, <3>3, SearchFinds
      <4>2. GetTruthNode(h) = hashMap[x]
        BY <3>1, <3>3
      <4> HIDE DEF x
      <4>3. PICK p \in nodes \X (0..Replicas - 1) : Owner(h) = p[1] /\ hash[p] = x
        BY <2>1, <4>1, OwnerFollows
      <4>4. hashMap[x] \in nodes /\ x \in HashesFor({hashMap[x]})
        BY <2>2, <4>1 DEF Follows
      <4>5. PICK i \in 0..Replicas - 1 : x = hash[<<hashMap[x], i>>]
        BY <4>4, InHashesFor
      <4>6. p \in DOMAIN hash /\ <<hashMap[x], i>> \in DOMAIN hash
        BY <2>1, <4>3, <4>4 DEF Virtual
      <4>7. p = <<hashMap[x], i>>
        BY <2>1, <4>3, <4>5, <4>6 DEF IsInjective
      <4>8. QED BY <4>2, <4>3, <4>7
    <3>4. QED BY <3>2, <3>3
  <2>4. QED BY <2>2, <2>3
<1>2. QED BY InitTypeInv, InitRingInv, NextTypeInv, NextRingInv, <1>1, PTL DEF Spec

(* A node that joins takes keys to itself and moves none between others,   *)
(* collisions or not.                                                      *)
THEOREM AddAlwaysMovesOnlyToNew == Spec => AddMovesOnlyToNew
<1>1. TypeInv /\ [Next]_vars =>
          [\A ns \in NodeLists : AddNode(ns) =>
              \A h \in Hashes : GetTruthNode(h)' \in {GetTruthNode(h)} \cup ToSet(ns)]_vars
    BY AddMoves DEF TypeInv
<1>2. QED BY InitTypeInv, NextTypeInv, <1>1, PTL DEF Spec, AddMovesOnlyToNew
=============================================================================
