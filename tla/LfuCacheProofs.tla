--------------------------- MODULE LfuCacheProofs ---------------------------
(***************************************************************************)
(* Proofs about PriorityQueue and LfuCache, for any keys, values and       *)
(* lengths, any budget and a heap of any size.                             *)
(***************************************************************************)
EXTENDS LfuCache, CacheDataProofs

(* Positions in the tree.                                                  *)
LEMMA ParentIs ==
    ASSUME NEW i \in Nat, i >= 2
    PROVE  /\ Parent(i) \in Nat /\ 1 <= Parent(i) /\ Parent(i) < i
           /\ i = 2 * Parent(i) \/ i = 2 * Parent(i) + 1
BY DEF Parent

(* Less compares this number.                                              *)
Rank(e) == e.count * (MaxTime + 1) + e.at

LEMMA LessIsRank ==
    ASSUME NEW d \in Entry, NEW e \in Entry
    PROVE  Rank(d) \in Nat /\ (Less(d, e) <=> Rank(d) < Rank(e))
<1> DEFINE m == MaxTime + 1
<1>1. m \in Nat
    BY CacheConstants
<1>2. /\ d.count \in Nat /\ d.at \in Nat /\ d.at < m
      /\ e.count \in Nat /\ e.at \in Nat /\ e.at < m
    BY CacheConstants DEF Entry
<1>3. ASSUME NEW a \in Nat, NEW b \in Nat, a < b, NEW x \in Nat, NEW y \in Nat, x < m
      PROVE  a * m + x < b * m + y
  <2>1. b - 1 - a \in Nat
    BY <1>3
  <2> DEFINE c == b - 1 - a
  <2>2. b = a + 1 + c
    BY <1>3
  <2>3. c * m \in Nat /\ a * m \in Nat
    BY <1>1, <2>1
  <2>4. b * m = a * m + m + c * m
    BY <1>1, <2>1, <2>2
  <2>5. QED BY <1>1, <1>3, <2>3, <2>4
<1>4. d.count * m \in Nat /\ e.count * m \in Nat
    BY <1>1, <1>2
<1> HIDE DEF m
<1>5. CASE d.count = e.count
    BY <1>2, <1>4, <1>5 DEF Rank, Less, m
<1>6. CASE d.count < e.count
  <2>1. d.count * m + d.at < e.count * m + e.at
    BY <1>2, <1>3, <1>6
  <2>2. QED BY <1>2, <1>4, <1>6, <2>1 DEF Rank, Less, m
<1>7. CASE e.count < d.count
  <2>1. e.count * m + e.at < d.count * m + d.at
    BY <1>2, <1>3, <1>7
  <2>2. QED BY <1>2, <1>4, <1>7, <2>1 DEF Rank, Less, m
<1>8. QED BY <1>2, <1>5, <1>6, <1>7

-----------------------------------------------------------------------------
(* An entry without its index; the entries of a heap.                      *)
Bare(e) == [key |-> e.key, value |-> e.value, count |-> e.count, at |-> e.at]
Bares(q) == {Bare(q[i]) : i \in 1..Len(q)}

Indexed(q) == \A i \in 1..Len(q) : q[i].index = i - 1

(* A heap but for the order.                                               *)
Sound(q) == q \in Seq(Entry) /\ Indexed(q) /\ KeysDiffer(q)

(* s is q with the first n elements in another order.                      *)
Shuffled(s, q, n) ==
    /\ Sound(s) /\ Len(s) = Len(q) /\ Bares(s) = Bares(q)
    /\ \A x \in 1..Len(q) : x > n => s[x] = q[x]

(* What does not look at the index.                                        *)
LEMMA BareTells ==
    ASSUME NEW d, NEW e, Bare(d) = Bare(e)
    PROVE  d.key = e.key /\ d.value = e.value /\ d.count = e.count /\ d.at = e.at
              /\ Rank(d) = Rank(e)
<1>1. /\ Bare(d).key = d.key /\ Bare(d).value = d.value
      /\ Bare(d).count = d.count /\ Bare(d).at = d.at
    BY DEF Bare
<1>2. /\ Bare(e).key = e.key /\ Bare(e).value = e.value
      /\ Bare(e).count = e.count /\ Bare(e).at = e.at
    BY DEF Bare
<1>3. QED BY <1>1, <1>2 DEF Rank

(* Where Swap takes the element at x from.                                 *)
Mirror(x, i, j) == IF x = i THEN j ELSE IF x = j THEN i ELSE x

LEMMA SwapMirrors ==
    ASSUME NEW q, Sound(q), NEW i \in 1..Len(q), NEW j \in 1..Len(q)
    PROVE  /\ Sound(Swap(q, i, j)) /\ Len(Swap(q, i, j)) = Len(q)
           /\ \A x \in 1..Len(q) :
                  /\ Mirror(x, i, j) \in 1..Len(q)
                  /\ Bare(Swap(q, i, j)[x]) = Bare(q[Mirror(x, i, j)])
                  /\ x \notin {i, j} => Swap(q, i, j)[x] = q[x]
<1> DEFINE n == Len(q)
           s == Swap(q, i, j)
<1>1. /\ n \in Nat /\ q \in [1..n -> Entry]
      /\ \A x \in 1..n : q[x].index = x - 1
    BY LenProperties DEF Sound, Indexed
<1> HIDE DEF n
<1>2. i \in 1..n /\ j \in 1..n
    BY DEF n
<1>3. s = [x \in 1..n |-> IF x = j THEN [q[i] EXCEPT !.index = j - 1]
                          ELSE IF x = i THEN [q[j] EXCEPT !.index = i - 1] ELSE q[x]]
    BY <1>1, <1>2 DEF Swap
<1>4. ASSUME NEW e \in Entry, NEW m \in Nat
      PROVE  /\ [e EXCEPT !.index = m] \in Entry
             /\ [e EXCEPT !.index = m].index = m
             /\ Bare([e EXCEPT !.index = m]) = Bare(e)
    BY DEF Entry, Bare
<1>5. \A x \in 1..n : x - 1 \in Nat
    BY <1>1
<1> HIDE DEF s
<1>6. ASSUME NEW x \in 1..n
      PROVE  /\ s[x] \in Entry /\ s[x].index = x - 1
             /\ Mirror(x, i, j) \in 1..n
             /\ Bare(s[x]) = Bare(q[Mirror(x, i, j)])
             /\ x \notin {i, j} => s[x] = q[x]
  <2>1. CASE x = j
    <3>1. s[x] = [q[i] EXCEPT !.index = x - 1] /\ Mirror(x, i, j) = i
        BY <1>3, <2>1 DEF Mirror
    <3>2. QED BY <1>1, <1>2, <1>4, <1>5, <2>1, <3>1
  <2>2. CASE x # j /\ x = i
    <3>1. s[x] = [q[j] EXCEPT !.index = x - 1] /\ Mirror(x, i, j) = j
        BY <1>3, <2>2 DEF Mirror
    <3>2. QED BY <1>1, <1>2, <1>4, <1>5, <2>2, <3>1
  <2>3. CASE x # j /\ x # i
    <3>1. s[x] = q[x] /\ Mirror(x, i, j) = x
        BY <1>3, <2>3 DEF Mirror
    <3>2. QED BY <1>1, <1>4, <2>3, <3>1
  <2>4. QED BY <2>1, <2>2, <2>3
<1>7. s \in Seq(Entry) /\ Len(s) = n
  <2>1. s \in [1..n -> Entry]
    BY <1>3, <1>6
  <2>2. QED BY <1>1, <2>1
<1>8. KeysDiffer(s)
  <2> SUFFICES ASSUME NEW x \in 1..n, NEW y \in 1..n, s[x].key = s[y].key PROVE x = y
    BY <1>7, LenProperties DEF KeysDiffer
  <2>0. ASSUME NEW z \in 1..n PROVE s[z].key = q[Mirror(z, i, j)].key
    <3>1. Bare(s[z]) = Bare(q[Mirror(z, i, j)])
        BY <1>6
    <3>2. QED BY <3>1, BareTells
  <2>1. q[Mirror(x, i, j)].key = q[Mirror(y, i, j)].key
    BY <2>0
  <2>2. Mirror(x, i, j) = Mirror(y, i, j)
    BY <1>1, <1>6, <2>1 DEF Sound, KeysDiffer
  <2>3. QED BY <2>2 DEF Mirror
<1>9. QED BY <1>6, <1>7, <1>8 DEF Sound, Indexed, n, s

LEMMA SwapShuffles ==
    ASSUME NEW q, Sound(q), NEW n \in 0..Len(q), NEW i \in 1..n, NEW j \in 1..n
    PROVE  Shuffled(Swap(q, i, j), q, n)
<1> DEFINE s == Swap(q, i, j)
<1>1. i \in 1..Len(q) /\ j \in 1..Len(q) /\ Len(q) \in Nat
    BY LenProperties DEF Sound
<1>2. /\ Sound(s) /\ Len(s) = Len(q)
      /\ \A x \in 1..Len(q) : /\ Mirror(x, i, j) \in 1..Len(q)
                              /\ Bare(s[x]) = Bare(q[Mirror(x, i, j)])
                              /\ x \notin {i, j} => s[x] = q[x]
    BY <1>1, SwapMirrors
<1> HIDE DEF s
<1>3. \A x \in 1..Len(q) : Mirror(Mirror(x, i, j), i, j) = x
    BY DEF Mirror
<1>4. Bares(s) = Bares(q)
  <2>1. ASSUME NEW b \in Bares(s) PROVE b \in Bares(q)
    BY <1>2 DEF Bares
  <2>2. ASSUME NEW x \in 1..Len(q) PROVE Bare(q[x]) \in Bares(s)
    <3> DEFINE y == Mirror(x, i, j)
    <3>1. y \in 1..Len(q) /\ Mirror(y, i, j) = x
        BY <1>2, <1>3
    <3> HIDE DEF y
    <3>2. Bare(s[y]) = Bare(q[x])
        BY <1>2, <3>1
    <3>3. QED BY <1>2, <3>1, <3>2 DEF Bares
  <2>3. QED BY <2>1, <2>2 DEF Bares
<1>5. \A x \in 1..Len(q) : x > n => s[x] = q[x]
    BY <1>1, <1>2
<1>6. QED BY <1>2, <1>4, <1>5 DEF Shuffled, s

LEMMA ShuffledAgain ==
    ASSUME NEW q, NEW n, NEW s, Shuffled(s, q, n), NEW t, Shuffled(t, s, n)
    PROVE  Shuffled(t, q, n)
BY DEF Shuffled

-----------------------------------------------------------------------------
(* The first n elements of q are a heap,                                   *)
Ordered(q, n) == \A i \in 2..n : Rank(q[Parent(i)]) <= Rank(q[i])

(* but for the element at a, which may be too low in the tree,             *)
UpReady(q, a, n) ==
    \A i \in 2..n :
        /\ i # a => Rank(q[Parent(i)]) <= Rank(q[i])
        /\ a > 1 /\ Parent(i) = a => Rank(q[Parent(a)]) <= Rank(q[i])

(* or too high,                                                            *)
DownReady(q, a, n) ==
    \A i \in 2..n :
        /\ Parent(i) # a => Rank(q[Parent(i)]) <= Rank(q[i])
        /\ a > 1 /\ Parent(i) = a => Rank(q[Parent(a)]) <= Rank(q[i])

(* or either.                                                              *)
FixReady(q, a, n) ==
    \A i \in 2..n :
        /\ i # a /\ Parent(i) # a => Rank(q[Parent(i)]) <= Rank(q[i])
        /\ a > 1 /\ Parent(i) = a => Rank(q[Parent(a)]) <= Rank(q[i])

(* The ranks of a heap, and what Swap does to them.                        *)
LEMMA RanksNat ==
    ASSUME NEW q, Sound(q), NEW i \in 1..Len(q)
    PROVE  /\ q[i] \in Entry /\ Rank(q[i]) \in Nat
           /\ \A j \in 1..Len(q) : Less(q[i], q[j]) <=> Rank(q[i]) < Rank(q[j])
BY LessIsRank, ElementOfSeq DEF Sound

LEMMA SwapRanks ==
    ASSUME NEW q, Sound(q), NEW i \in 1..Len(q), NEW j \in 1..Len(q), NEW x \in 1..Len(q)
    PROVE  Rank(Swap(q, i, j)[x]) = Rank(q[Mirror(x, i, j)])
<1>1. Bare(Swap(q, i, j)[x]) = Bare(q[Mirror(x, i, j)])
    BY SwapMirrors
<1>2. QED BY <1>1, BareTells

(* A turn of up leaves less to mend.                                       *)
LEMMA RiseKeepsReady ==
    ASSUME NEW q, Sound(q), NEW n \in 0..Len(q), NEW a \in 2..n, UpReady(q, a, n),
           Less(q[a], q[Parent(a)])
    PROVE  UpReady(Swap(q, a, Parent(a)), Parent(a), n)
<1> DEFINE p == Parent(a)
           s == Swap(q, a, p)
           w(x) == Rank(q[x])
           v(x) == Rank(s[x])
<1>1. Len(q) \in Nat /\ n \in Nat /\ a \in Nat /\ a >= 2 /\ a <= n /\ n <= Len(q)
    BY LenProperties DEF Sound
<1>2. p \in Nat /\ 1 <= p /\ p < a
    BY <1>1, ParentIs
<1>3. \A i \in 2..n : Parent(i) \in 1..n /\ Parent(i) < i /\ i \in 1..n
    BY <1>1, ParentIs
<1>4. \A i \in 1..n : i \in 1..Len(q) /\ w(i) \in Nat
    BY <1>1, RanksNat
<1>5. w(a) < w(p)
    BY <1>1, <1>2, <1>4, RanksNat
<1>6. \A i \in 1..n : v(i) = IF i = a THEN w(p) ELSE IF i = p THEN w(a) ELSE w(i)
  <2>1. a \in 1..Len(q) /\ p \in 1..Len(q)
    BY <1>1, <1>2
  <2>2. QED BY <1>4, <2>1, SwapRanks DEF Mirror
<1>7. \A i \in 2..n : /\ i # a => w(Parent(i)) <= w(i)
                      /\ Parent(i) = a => w(p) <= w(i)
    BY <1>1 DEF UpReady
<1> SUFFICES ASSUME NEW i \in 2..n
             PROVE  /\ i # p => v(Parent(i)) <= v(i)
                    /\ p > 1 /\ Parent(i) = p => v(Parent(p)) <= v(i)
    BY DEF UpReady
<1> HIDE DEF w, v, s, p
<1>8. i # p => v(Parent(i)) <= v(i)
  <2> SUFFICES ASSUME i # p PROVE v(Parent(i)) <= v(i)
    OBVIOUS
  <2>1. CASE i = a
    <3>1. Parent(i) = p
        BY <2>1 DEF p
    <3>2. v(i) = w(p) /\ v(p) = w(a) /\ p \in 1..n /\ a \in 1..n
        BY <1>1, <1>2, <1>6, <2>1
    <3>3. QED BY <1>4, <1>5, <3>1, <3>2
  <2>2. CASE i # a
    <3> DEFINE h == Parent(i)
    <3>1. h \in 1..n /\ i \in 1..n /\ a \in 1..n /\ p \in 1..n
        BY <1>1, <1>2, <1>3
    <3>2. v(i) = w(i) /\ w(h) <= w(i) /\ (h = a => w(p) <= w(i))
        BY <1>6, <1>7, <2>2, <3>1
    <3> HIDE DEF h
    <3>3. v(h) = w(h) \/ (h = a /\ v(h) = w(p)) \/ (h = p /\ v(h) = w(a))
        BY <1>6, <3>1
    <3>4. w(h) \in Nat /\ w(i) \in Nat /\ w(a) \in Nat /\ w(p) \in Nat
        BY <1>4, <3>1
    <3>5. v(h) <= v(i)
        BY <1>5, <3>2, <3>3, <3>4
    <3>6. QED BY <3>5 DEF h
  <2>3. QED BY <2>1, <2>2
<1>9. p > 1 /\ Parent(i) = p => v(Parent(p)) <= v(i)
  <2> SUFFICES ASSUME p > 1, Parent(i) = p PROVE v(Parent(p)) <= v(i)
    OBVIOUS
  <2> DEFINE g == Parent(p)
  <2>1. p \in 2..n /\ g \in 1..n /\ g < p
    BY <1>1, <1>2, <1>3
  <2>2. w(g) <= w(p) /\ v(g) = w(g)
    BY <1>1, <1>2, <1>6, <1>7, <2>1
  <2>3. CASE i = a
    BY <1>3, <1>6, <2>2, <2>3
  <2>4. CASE i # a
    <3>1. w(p) <= w(i) /\ v(i) = w(i) /\ i \in 1..n /\ p \in 1..n
        BY <1>1, <1>2, <1>3, <1>6, <1>7, <2>4
    <3>2. QED BY <1>4, <2>1, <2>2, <3>1
  <2>5. QED BY <2>3, <2>4
<1>10. QED BY <1>8, <1>9

LEMMA RiseEnds ==
    ASSUME NEW q, Sound(q), NEW n \in 0..Len(q), NEW a \in 1..n, UpReady(q, a, n),
           a = 1 \/ ~Less(q[a], q[Parent(a)])
    PROVE  Ordered(q, n)
<1>1. Len(q) \in Nat /\ n \in Nat /\ a \in Nat /\ a <= n /\ n <= Len(q)
    BY LenProperties DEF Sound
<1> SUFFICES ASSUME NEW i \in 2..n PROVE Rank(q[Parent(i)]) <= Rank(q[i])
    BY DEF Ordered
<1>2. Parent(i) \in 1..Len(q) /\ i \in 1..Len(q)
    BY <1>1, ParentIs
<1>3. CASE i # a
    BY <1>3 DEF UpReady
<1>4. CASE i = a
  <2>1. ~Less(q[i], q[Parent(i)])
    BY <1>4
  <2>2. ~(Rank(q[i]) < Rank(q[Parent(i)]))
    BY <1>2, <2>1, RanksNat
  <2>3. Rank(q[i]) \in Nat /\ Rank(q[Parent(i)]) \in Nat
    BY <1>2, RanksNat
  <2>4. QED BY <2>2, <2>3
<1>5. QED BY <1>3, <1>4

(* A turn of down leaves less to mend, too.                                *)
LEMMA LesserChildIs ==
    ASSUME NEW q, Sound(q), NEW n \in 0..Len(q), NEW a \in 1..Len(q)
    PROVE  /\ 2 * a <= n => LesserChild(q, a, n) \in 2..n
           /\ 2 * a <= n => Parent(LesserChild(q, a, n)) = a /\ LesserChild(q, a, n) > a
           /\ \A i \in 2..n : Parent(i) = a =>
                  2 * a <= n /\ Rank(q[LesserChild(q, a, n)]) <= Rank(q[i])
<1> DEFINE c == LesserChild(q, a, n)
<1>1. Len(q) \in Nat /\ n \in Nat /\ a \in Nat /\ 1 <= a /\ a <= Len(q) /\ n <= Len(q)
    BY LenProperties DEF Sound
<1>2. ASSUME 2 * a <= n PROVE c \in 2..n /\ Parent(c) = a /\ c > a
  <2>1. c = 2 * a \/ (c = 2 * a + 1 /\ 2 * a < n)
    BY DEF LesserChild
  <2>2. c \in Nat /\ c >= 2 /\ c <= n /\ c > a
    BY <1>1, <1>2, <2>1
  <2> HIDE DEF c
  <2>3. Parent(c) = a
    <3> DEFINE h == Parent(c)
    <3>1. h \in Nat /\ (c = 2 * h \/ c = 2 * h + 1)
        BY <2>2, ParentIs
    <3> HIDE DEF h
    <3>2. h = a
        BY <1>1, <2>1, <3>1
    <3>3. QED BY <3>2 DEF h
  <2>4. QED BY <1>1, <2>2, <2>3
<1>3. ASSUME NEW i \in 2..n, Parent(i) = a
      PROVE  2 * a <= n /\ Rank(q[c]) <= Rank(q[i])
  <2>1. i = 2 * a \/ i = 2 * a + 1
    BY <1>1, <1>3, ParentIs
  <2>2. 2 * a <= n
    BY <1>1, <2>1
  <2>3. CASE c = i
    <3>1. Rank(q[i]) \in Nat
        BY <1>1, RanksNat
    <3>2. QED BY <2>2, <2>3, <3>1
  <2>4. CASE c # i
    <3> DEFINE x == 2 * a
               y == 2 * a + 1
    <3>1. x \in 1..Len(q)
        BY <1>1, <2>2
    <3>2. CASE 2 * a < n /\ Less(q[y], q[x])
      <4>1. c = y /\ i = x /\ y \in 1..Len(q)
        BY <1>1, <2>1, <2>4, <3>2 DEF LesserChild
      <4>2. Rank(q[y]) < Rank(q[x]) /\ Rank(q[y]) \in Nat /\ Rank(q[x]) \in Nat
        BY <3>1, <3>2, <4>1, RanksNat
      <4> HIDE DEF x, y, c
      <4>3. QED BY <2>2, <4>1, <4>2
    <3>3. CASE ~(2 * a < n /\ Less(q[y], q[x]))
      <4>1. c = x /\ i = y /\ 2 * a < n /\ y \in 1..Len(q)
        BY <1>1, <2>1, <2>4, <3>3 DEF LesserChild
      <4>2. ~(Rank(q[y]) < Rank(q[x])) /\ Rank(q[y]) \in Nat /\ Rank(q[x]) \in Nat
        BY <3>1, <3>3, <4>1, RanksNat
      <4> HIDE DEF x, y, c
      <4>3. QED BY <2>2, <4>1, <4>2
    <3>4. QED BY <3>2, <3>3
  <2>5. QED BY <2>3, <2>4
<1>4. QED BY <1>2, <1>3

LEMMA SinkKeepsReady ==
    ASSUME NEW q, Sound(q), NEW n \in 0..Len(q), NEW a \in 1..Len(q), DownReady(q, a, n),
           SinksBelow(q, a, n)
    PROVE  DownReady(Swap(q, a, LesserChild(q, a, n)), LesserChild(q, a, n), n)
<1> DEFINE c == LesserChild(q, a, n)
           s == Swap(q, a, c)
           w(x) == Rank(q[x])
           v(x) == Rank(s[x])
<1>1. Len(q) \in Nat /\ n \in Nat /\ a \in Nat /\ 1 <= a /\ a <= Len(q) /\ n <= Len(q)
    BY LenProperties DEF Sound
<1>2. /\ 2 * a <= n /\ Less(q[c], q[a])
      /\ c \in 2..n /\ Parent(c) = a /\ c > a
      /\ \A i \in 2..n : Parent(i) = a => w(c) <= w(i)
    BY LesserChildIs DEF SinksBelow
<1>2a. a <= n
    BY <1>1, <1>2
<1>3. \A i \in 2..n : Parent(i) \in 1..n /\ Parent(i) < i /\ i \in 1..n
    BY <1>1, ParentIs
<1>4. \A i \in 1..n : i \in 1..Len(q) /\ w(i) \in Nat
    BY <1>1, RanksNat
<1>5. w(c) < w(a)
    BY <1>1, <1>2, <1>4, RanksNat
<1>6. \A i \in 1..n : v(i) = IF i = a THEN w(c) ELSE IF i = c THEN w(a) ELSE w(i)
  <2>1. a \in 1..Len(q) /\ c \in 1..Len(q)
    BY <1>1, <1>2
  <2> SUFFICES ASSUME NEW i \in 1..n
               PROVE  v(i) = IF i = a THEN w(c) ELSE IF i = c THEN w(a) ELSE w(i)
    OBVIOUS
  <2>2. v(i) = w(Mirror(i, a, c))
    BY <1>4, <2>1, SwapRanks
  <2> HIDE DEF v, w, c
  <2>3. QED BY <2>2 DEF Mirror
<1>7. \A i \in 2..n : /\ Parent(i) # a => w(Parent(i)) <= w(i)
                      /\ a > 1 /\ Parent(i) = a => w(Parent(a)) <= w(i)
    BY <1>1 DEF DownReady
<1>8. a \in 1..n /\ c \in 1..n
    BY <1>1, <1>2, <1>2a
<1>9. ASSUME NEW i \in 2..n, Parent(i) # c PROVE v(Parent(i)) <= v(i)
  <2> DEFINE h == Parent(i)
  <2>1. h \in 1..n /\ i \in 1..n /\ h < i
    BY <1>3
  <2>2. /\ w(h) \in Nat /\ w(i) \in Nat /\ w(c) \in Nat /\ w(a) \in Nat
    BY <1>4, <1>8, <2>1
  <2>3. CASE h = a
    <3>1. v(h) = w(c) /\ w(c) <= w(i)
        BY <1>2, <1>6, <1>8, <2>3
    <3>2. v(i) = w(a) \/ v(i) = w(i)
        BY <1>6, <2>1, <2>3
    <3> HIDE DEF h, v, w, c
    <3>3. v(h) <= v(i)
        BY <1>5, <2>2, <3>1, <3>2
    <3>4. QED BY <3>3 DEF h
  <2>4. CASE h # a
    <3>1. v(h) = w(h) /\ w(h) <= w(i)
        BY <1>6, <1>7, <1>9, <2>1, <2>4
    <3>2. i # c
        BY <1>2, <2>4
    <3>3. CASE i # a
      <4>1. v(i) = w(i)
        BY <1>6, <2>1, <3>2, <3>3
      <4>2. QED BY <3>1, <4>1
    <3>4. CASE i = a
      <4>1. v(i) = w(c)
        BY <1>6, <2>1, <3>4
      <4>2. w(Parent(a)) <= w(c)
        BY <1>1, <1>2, <1>7, <3>4
      <4>3. QED BY <3>1, <3>4, <4>1, <4>2
    <3>5. QED BY <3>3, <3>4
  <2>5. QED BY <2>3, <2>4
<1>10. ASSUME NEW i \in 2..n, Parent(i) = c PROVE v(Parent(c)) <= v(i)
  <2>1. i > c /\ i \in 1..n /\ i # a
    BY <1>1, <1>2, <1>3, <1>10
  <2>2. v(i) = w(i) /\ v(a) = w(c)
    BY <1>6, <1>8, <2>1
  <2>3. c # a => w(c) <= w(i)
    BY <1>7, <1>10
  <2>4. QED BY <1>1, <1>2, <2>2, <2>3
<1>11. QED BY <1>9, <1>10 DEF DownReady

LEMMA SinkEnds ==
    ASSUME NEW q, Sound(q), NEW n \in 0..Len(q), NEW a \in 1..Len(q), DownReady(q, a, n),
           ~SinksBelow(q, a, n)
    PROVE  Ordered(q, n)
<1>1. Len(q) \in Nat /\ n \in Nat /\ a \in Nat /\ 1 <= a /\ a <= Len(q) /\ n <= Len(q)
    BY LenProperties DEF Sound
<1> SUFFICES ASSUME NEW i \in 2..n PROVE Rank(q[Parent(i)]) <= Rank(q[i])
    BY DEF Ordered
<1>2. CASE Parent(i) # a
    BY <1>2 DEF DownReady
<1>3. CASE Parent(i) = a
  <2> DEFINE c == LesserChild(q, a, n)
  <2>1. 2 * a <= n /\ Rank(q[c]) <= Rank(q[i]) /\ c \in 2..n
    BY <1>3, LesserChildIs
  <2>2. ~Less(q[c], q[a])
    BY <2>1 DEF SinksBelow
  <2> HIDE DEF c
  <2>3. c \in 1..Len(q) /\ a \in 1..Len(q) /\ i \in 1..Len(q)
    BY <1>1, <2>1
  <2>4. /\ ~(Rank(q[c]) < Rank(q[a]))
        /\ Rank(q[c]) \in Nat /\ Rank(q[a]) \in Nat /\ Rank(q[i]) \in Nat
    BY <2>2, <2>3, RanksNat
  <2>5. QED BY <1>3, <2>1, <2>4
<1>4. QED BY <1>2, <1>3

-----------------------------------------------------------------------------
(* A loop of n turns, each of which keeps the state in S.                  *)
IsLoop(f, n, S, b, g) ==
    f \in [0..n -> S] /\ f[0] = b /\ \A i \in 1..n : f[i] = g[<<f[i - 1], i>>]

LEMMA LoopExists ==
    ASSUME NEW n \in Nat, NEW S, NEW b \in S, NEW g \in [S \X (1..n) -> S]
    PROVE  \E f : IsLoop(f, n, S, b, g)
<1> DEFINE Loops(m) == {f \in [0..m -> S] : f[0] = b /\ \A i \in 1..m : f[i] = g[<<f[i - 1], i>>]}
           T == {m \in 0..n : Loops(m) # {}}
<1>1. 0 \in T
  <2>1. [i \in 0..0 |-> b] \in Loops(0)
    OBVIOUS
  <2>2. 0 \in 0..n
    OBVIOUS
  <2> HIDE DEF Loops
  <2>3. QED BY <2>1, <2>2
<1>2. ASSUME NEW m \in 0..n, m + 1 \in 0..n, m \in T PROVE m + 1 \in T
  <2>1. PICK f : f \in Loops(m)
    BY <1>2
  <2> DEFINE f2 == [i \in 0..m + 1 |-> IF i = m + 1 THEN g[<<f[m], m + 1>>] ELSE f[i]]
  <2>2. /\ f \in [0..m -> S] /\ f[0] = b /\ \A i \in 1..m : f[i] = g[<<f[i - 1], i>>]
        /\ m \in Nat /\ m \in 0..m /\ m + 1 \in 1..n
    BY <1>2, <2>1
  <2>3. \A i \in 0..m + 1 : i = m + 1 \/ (i # m + 1 /\ i \in 0..m)
    BY <2>2
  <2>4. f[m] \in S /\ g[<<f[m], m + 1>>] \in S
    BY <2>2
  <2>5. f2 \in [0..m + 1 -> S]
    BY <2>2, <2>3, <2>4
  <2>6. f2[0] = b
    BY <2>2
  <2>7. ASSUME NEW i \in 1..m + 1 PROVE f2[i] = g[<<f2[i - 1], i>>]
    <3>1. i - 1 \in 0..m + 1 /\ i - 1 # m + 1 /\ f2[i - 1] = f[i - 1] /\ i \in 0..m + 1
        BY <2>2
    <3>2. CASE i = m + 1
      <4>1. i - 1 = m /\ f2[i] = g[<<f[m], m + 1>>]
        BY <2>2, <3>1, <3>2
      <4>2. QED BY <3>1, <3>2, <4>1
    <3>3. CASE i # m + 1
      <4>1. i \in 1..m /\ f2[i] = f[i]
        BY <2>2, <3>1, <3>3
      <4>2. QED BY <2>2, <3>1, <4>1
    <3>4. QED BY <3>2, <3>3
  <2>8. f2 \in Loops(m + 1)
    BY <2>5, <2>6, <2>7
  <2> HIDE DEF Loops
  <2>9. QED BY <1>2, <2>8
<1> HIDE DEF Loops
<1>3. 0..n \subseteq T
    BY <1>1, <1>2, IntervalInduction
<1>4. n \in T
    BY <1>3
<1>5. QED BY <1>4 DEF Loops, IsLoop

(* Where up ends, from a heap with one element too low.                    *)
RiseStates(q, j, n) ==
    {s \in [q : Seq(Entry), at : 1..j] : Shuffled(s.q, q, n) /\ UpReady(s.q, s.at, n)}

Risen(s) == s.at = 1 \/ ~Less(s.q[s.at], s.q[Parent(s.at)])

LEMMA RiseStep ==
    ASSUME NEW q, Sound(q), NEW n \in 0..Len(q), NEW j \in 1..n, NEW s \in RiseStates(q, j, n)
    PROVE  /\ Rise(s) \in RiseStates(q, j, n)
           /\ Risen(s) => Rise(s) = s
           /\ ~Risen(s) => Rise(s).at < s.at
<1>1. /\ s \in [q : Seq(Entry), at : 1..j] /\ Shuffled(s.q, q, n) /\ UpReady(s.q, s.at, n)
      /\ Sound(s.q) /\ Len(s.q) = Len(q)
    BY DEF RiseStates, Shuffled
<1>2. /\ Len(q) \in Nat /\ n \in Nat /\ n <= Len(q) /\ j \in Nat /\ j <= n
      /\ s.at \in Nat /\ 1 <= s.at /\ s.at <= j
    BY <1>1, LenProperties DEF Sound
<1>3. CASE Risen(s)
    BY <1>2, <1>3 DEF Rise, Risen
<1>4. CASE ~Risen(s)
  <2> DEFINE a == s.at
             p == Parent(s.at)
             r == s.q
             t == Swap(s.q, s.at, Parent(s.at))
  <2>1. Rise(s) = [q |-> t, at |-> p] /\ a # 1 /\ Less(r[a], r[p])
    BY <1>2, <1>4 DEF Rise, Risen
  <2>2. a \in Nat /\ a >= 2 /\ p \in Nat /\ 1 <= p /\ p < a
    BY <1>2, <2>1, ParentIs
  <2>3. a \in 2..n /\ a \in 1..n /\ p \in 1..n /\ p \in 1..j /\ n \in 0..Len(r)
    BY <1>1, <1>2, <2>2
  <2>4. UpReady(t, p, n)
    BY <1>1, <2>1, <2>3, RiseKeepsReady
  <2>5. Shuffled(t, r, n)
    BY <1>1, <2>3, SwapShuffles
  <2>6. Shuffled(t, q, n) /\ t \in Seq(Entry)
    BY <1>1, <2>5, ShuffledAgain DEF Shuffled, Sound
  <2> HIDE DEF a, p, t, r
  <2>7. Rise(s) \in RiseStates(q, j, n) /\ Rise(s).at = p
    BY <2>1, <2>3, <2>4, <2>6 DEF RiseStates
  <2>8. Rise(s).at < s.at
    BY <2>2, <2>7 DEF a
  <2>9. QED BY <1>4, <2>7, <2>8
<1>5. QED BY <1>1, <1>3, <1>4

LEMMA UpEffect ==
    ASSUME NEW q, Sound(q), NEW n \in 0..Len(q), NEW j \in 1..n, UpReady(q, j, n)
    PROVE  Shuffled(Up(q, j), q, n) /\ Ordered(Up(q, j), n)
<1> DEFINE m == Len(q)
           b == [q |-> q, at |-> j]
           Body(f) == [i \in 0..m |-> IF i = 0 THEN b ELSE Rise(f[i - 1])]
           turn == CHOOSE f : f = Body(f)
           S == RiseStates(q, j, n)
           g == [x \in S \X (1..m) |-> Rise(x[1])]
<1>1. Up(q, j) = turn[m].q
    BY DEF Up
<1>2. m \in Nat /\ n \in Nat /\ n <= m /\ j \in Nat /\ 1 <= j /\ j <= n
    BY LenProperties DEF Sound
<1>3. b \in S /\ b.at = j
    BY <1>2 DEF RiseStates, Shuffled, Sound
<1> HIDE DEF m, b, S, turn
<1>4. \A s \in S : /\ Rise(s) \in S
                   /\ Risen(s) => Rise(s) = s
                   /\ ~Risen(s) => Rise(s).at < s.at
    BY RiseStep DEF S
<1>5. g \in [S \X (1..m) -> S] /\ \A s \in S, i \in 1..m : g[<<s, i>>] = Rise(s)
    BY <1>4
<1> HIDE DEF g
<1>6. \E f : f = Body(f)
  <2>1. PICK f : IsLoop(f, m, S, b, g)
    BY <1>2, <1>3, <1>5, LoopExists, Zenon
  <2>2. ASSUME NEW i \in 0..m PROVE f[i] = IF i = 0 THEN b ELSE Rise(f[i - 1])
    <3>1. i # 0 => i \in 1..m /\ i - 1 \in 0..m
        BY <1>2
    <3>2. QED BY <1>5, <2>1, <3>1 DEF IsLoop
  <2>3. f = Body(f)
    BY <2>1, <2>2 DEF IsLoop
  <2>4. QED BY <2>3
<1>7. turn = Body(turn)
    BY <1>6 DEF turn
<1>8. turn[0] = b /\ \A i \in 0..m : i # 0 => turn[i] = Rise(turn[i - 1])
    BY <1>2, <1>7
<1> DEFINE T == {i \in 0..m : turn[i] \in S /\ (Risen(turn[i]) \/ turn[i].at + i <= j)}
<1>9. 0 \in T
    BY <1>2, <1>3, <1>8
<1>10. ASSUME NEW i \in 0..m, i + 1 \in 0..m, i \in T PROVE i + 1 \in T
  <2> DEFINE s == turn[i]
             t == turn[i + 1]
  <2>1. t = Rise(s)
    <3>1. i + 1 # 0 /\ (i + 1) - 1 = i
        BY <1>2
    <3>2. QED BY <1>8, <1>10, <3>1
  <2>2. s \in S /\ (Risen(s) \/ s.at + i <= j)
    BY <1>10
  <2> HIDE DEF s, t
  <2>3. t \in S
    BY <1>4, <2>1, <2>2
  <2>4. CASE Risen(s)
    BY <1>4, <1>10, <2>1, <2>2, <2>3, <2>4 DEF t
  <2>5. CASE ~Risen(s)
    <3>1. t.at < s.at /\ s.at + i <= j
        BY <1>4, <2>1, <2>2, <2>5
    <3>2. t.at \in Nat /\ s.at \in Nat
        BY <1>2, <2>2, <2>3 DEF S, RiseStates
    <3>3. t.at + (i + 1) <= j
        BY <1>2, <3>1, <3>2
    <3>4. QED BY <1>10, <2>3, <3>3 DEF t
  <2>6. QED BY <2>4, <2>5
<1> HIDE DEF T
<1>11. m \in T
  <2>1. 0..m \subseteq T
    BY <1>2, <1>9, <1>10, IntervalInduction
  <2>2. QED BY <1>2, <2>1
<1> DEFINE s == turn[m]
<1>12. s \in S /\ (Risen(s) \/ s.at + m <= j)
    BY <1>11 DEF T
<1> HIDE DEF s
<1>13. /\ Shuffled(s.q, q, n) /\ UpReady(s.q, s.at, n) /\ s.at \in 1..n
       /\ Sound(s.q) /\ n \in 0..Len(s.q) /\ 1 <= s.at
    BY <1>2, <1>12 DEF S, RiseStates, Shuffled
<1>14. Risen(s)
    BY <1>2, <1>12, <1>13
<1>15. Ordered(s.q, n)
    BY <1>13, <1>14, RiseEnds DEF Risen
<1>16. QED BY <1>1, <1>13, <1>15 DEF s

(* Where down ends, from a heap with one element too high.                 *)
SinkStates(q, n) ==
    {s \in [q : Seq(Entry), at : 1..Len(q)] : Shuffled(s.q, q, n) /\ DownReady(s.q, s.at, n)}

LEMMA SinkStep ==
    ASSUME NEW q, Sound(q), NEW n \in 0..Len(q), NEW s \in SinkStates(q, n)
    PROVE  /\ Sink(s, n) \in SinkStates(q, n)
           /\ ~SinksBelow(s.q, s.at, n) => Sink(s, n) = s
           /\ SinksBelow(s.q, s.at, n) => Sink(s, n).at > s.at /\ s.at < n
<1>1. /\ s \in [q : Seq(Entry), at : 1..Len(q)] /\ Shuffled(s.q, q, n) /\ DownReady(s.q, s.at, n)
      /\ Sound(s.q) /\ Len(s.q) = Len(q)
    BY DEF SinkStates, Shuffled
<1>2. /\ Len(q) \in Nat /\ n \in Nat /\ n <= Len(q)
      /\ s.at \in Nat /\ 1 <= s.at /\ s.at <= Len(q)
    BY <1>1, LenProperties DEF Sound
<1>3. CASE ~SinksBelow(s.q, s.at, n)
    BY <1>1, <1>3 DEF Sink
<1>4. CASE SinksBelow(s.q, s.at, n)
  <2> DEFINE a == s.at
             r == s.q
             c == LesserChild(s.q, s.at, n)
             t == Swap(s.q, s.at, LesserChild(s.q, s.at, n))
  <2>1. Sink(s, n) = [q |-> t, at |-> c] /\ 2 * a <= n
    BY <1>4 DEF Sink, SinksBelow
  <2>2. a \in 1..Len(r) /\ n \in 0..Len(r) /\ a \in 1..n /\ a < n
    BY <1>1, <1>2, <2>1
  <2>3. c \in 2..n /\ c > a
    BY <1>1, <2>1, <2>2, LesserChildIs
  <2>4. DownReady(t, c, n)
    BY <1>1, <1>4, <2>2, SinkKeepsReady
  <2>5. Shuffled(t, r, n)
    <3>1. c \in 1..n
        BY <1>2, <2>3
    <3>2. QED BY <1>1, <2>2, <3>1, SwapShuffles
  <2>6. Shuffled(t, q, n) /\ t \in Seq(Entry)
    BY <1>1, <2>5, ShuffledAgain DEF Shuffled, Sound
  <2>7. c \in 1..Len(q)
    BY <1>2, <2>3
  <2> HIDE DEF a, c, t, r
  <2>8. Sink(s, n) \in SinkStates(q, n) /\ Sink(s, n).at = c
    BY <2>1, <2>4, <2>6, <2>7 DEF SinkStates
  <2>9. Sink(s, n).at > s.at /\ s.at < n
    BY <2>2, <2>3, <2>8 DEF a
  <2>10. QED BY <1>4, <2>8, <2>9
<1>5. QED BY <1>3, <1>4

LEMMA DownEffect ==
    ASSUME NEW q, Sound(q), NEW n \in 0..Len(q), NEW j \in 1..Len(q), DownReady(q, j, n)
    PROVE  Shuffled(Down(q, j, n), q, n) /\ Ordered(Down(q, j, n), n)
<1> DEFINE m == Len(q)
           b == [q |-> q, at |-> j]
           Body(f) == [i \in 0..m |-> IF i = 0 THEN b ELSE Sink(f[i - 1], n)]
           turn == CHOOSE f : f = Body(f)
           S == SinkStates(q, n)
           g == [x \in S \X (1..m) |-> Sink(x[1], n)]
           Sunk(s) == ~SinksBelow(s.q, s.at, n)
<1>1. Down(q, j, n) = turn[m].q
    BY DEF Down
<1>2. m \in Nat /\ n \in Nat /\ n <= m /\ j \in Nat /\ 1 <= j /\ j <= m
    BY LenProperties DEF Sound
<1>3. b \in S /\ b.at = j
    BY <1>2 DEF SinkStates, Shuffled, Sound
<1> HIDE DEF b, turn
<1>4. \A s \in S : /\ Sink(s, n) \in S
                   /\ Sunk(s) => Sink(s, n) = s
                   /\ ~Sunk(s) => Sink(s, n).at > s.at /\ s.at < n
                   /\ s.at \in Nat
  <2> SUFFICES ASSUME NEW s \in S
               PROVE  /\ Sink(s, n) \in S
                      /\ Sunk(s) => Sink(s, n) = s
                      /\ ~Sunk(s) => Sink(s, n).at > s.at /\ s.at < n
                      /\ s.at \in Nat
    OBVIOUS
  <2>1. s.at \in Nat
    BY <1>2 DEF SinkStates
  <2>2. QED BY <2>1, SinkStep
<1> HIDE DEF m, S, Sunk
<1>5. g \in [S \X (1..m) -> S] /\ \A s \in S, i \in 1..m : g[<<s, i>>] = Sink(s, n)
    BY <1>4
<1> HIDE DEF g
<1>6. \E f : f = Body(f)
  <2>1. PICK f : IsLoop(f, m, S, b, g)
    BY <1>2, <1>3, <1>5, LoopExists, Zenon
  <2>2. ASSUME NEW i \in 0..m PROVE f[i] = IF i = 0 THEN b ELSE Sink(f[i - 1], n)
    <3>1. i # 0 => i \in 1..m /\ i - 1 \in 0..m
        BY <1>2
    <3>2. QED BY <1>5, <2>1, <3>1 DEF IsLoop
  <2>3. f = Body(f)
    BY <2>1, <2>2 DEF IsLoop
  <2>4. QED BY <2>3
<1>7. turn = Body(turn)
    BY <1>6 DEF turn
<1>8. turn[0] = b /\ \A i \in 0..m : i # 0 => turn[i] = Sink(turn[i - 1], n)
    BY <1>2, <1>7
<1> DEFINE T == {i \in 0..m : turn[i] \in S /\ (Sunk(turn[i]) \/ turn[i].at >= i + 1)}
<1>9. 0 \in T
    BY <1>2, <1>3, <1>8
<1>10. ASSUME NEW i \in 0..m, i + 1 \in 0..m, i \in T PROVE i + 1 \in T
  <2> DEFINE s == turn[i]
             t == turn[i + 1]
  <2>1. t = Sink(s, n)
    <3>1. i + 1 # 0 /\ (i + 1) - 1 = i
        BY <1>2
    <3>2. QED BY <1>8, <1>10, <3>1
  <2>2. s \in S /\ (Sunk(s) \/ s.at >= i + 1)
    BY <1>10
  <2> HIDE DEF s, t
  <2>3. t \in S
    BY <1>4, <2>1, <2>2
  <2>4. CASE Sunk(s)
    BY <1>4, <1>10, <2>1, <2>2, <2>3, <2>4 DEF t
  <2>5. CASE ~Sunk(s)
    <3>1. t.at > s.at /\ s.at >= i + 1
        BY <1>4, <2>1, <2>2, <2>5
    <3>2. t.at \in Nat /\ s.at \in Nat
        BY <1>4, <2>2, <2>3
    <3>3. t.at >= (i + 1) + 1
        BY <1>2, <3>1, <3>2
    <3>4. QED BY <1>10, <2>3, <3>3 DEF t
  <2>6. QED BY <2>4, <2>5
<1> HIDE DEF T
<1>11. m \in T
  <2>1. 0..m \subseteq T
    BY <1>2, <1>9, <1>10, IntervalInduction
  <2>2. QED BY <1>2, <2>1
<1> DEFINE s == turn[m]
<1>12. s \in S /\ (Sunk(s) \/ s.at >= m + 1)
    BY <1>11 DEF T
<1> HIDE DEF s
<1>13. /\ Shuffled(s.q, q, n) /\ DownReady(s.q, s.at, n) /\ s.at \in 1..Len(s.q)
       /\ Sound(s.q) /\ n \in 0..Len(s.q)
    BY <1>12 DEF S, SinkStates, Shuffled
<1>14. Sunk(s)
    BY <1>2, <1>4, <1>12
<1>15. Ordered(s.q, n)
    BY <1>13, <1>14, SinkEnds DEF Sunk
<1>16. QED BY <1>1, <1>13, <1>15 DEF s

-----------------------------------------------------------------------------
(* Pop takes the last element away: the renumbering changes nothing.       *)
LEMMA PopTakesLast ==
    ASSUME NEW q, Sound(q), q # << >>
    PROVE  /\ Len(q) \in 1..Len(q) /\ Sound(Pop(q)) /\ Len(Pop(q)) = Len(q) - 1
           /\ \A i \in 1..(Len(q) - 1) : Pop(q)[i] = q[i]
           /\ Bares(Pop(q)) = Bares(q) \ {Bare(q[Len(q)])}
<1> DEFINE n == Len(q)
           r == Pop(q)
<1>1. n \in Nat /\ n # 0 /\ q \in [1..n -> Entry] /\ DOMAIN q = 1..n
    BY LenProperties, EmptySeq DEF Sound
<1>2. r = [i \in 1..(n - 1) |-> [q[i] EXCEPT !.index = i - 1]]
    BY DEF Pop
<1> HIDE DEF n, r
<1>3. n - 1 \in Nat /\ \A i \in 1..(n - 1) : i \in 1..n /\ i # n
    BY <1>1
<1>4. ASSUME NEW i \in 1..(n - 1) PROVE r[i] = q[i]
  <2>1. q[i] \in Entry /\ q[i].index = i - 1
    BY <1>1, <1>3 DEF Sound, Indexed, n
  <2>2. [q[i] EXCEPT !.index = i - 1] = q[i]
    BY <2>1 DEF Entry
  <2>3. QED BY <1>2, <2>2
<1>5. r \in [1..(n - 1) -> Entry]
    BY <1>1, <1>2, <1>3, <1>4
<1>6. r \in Seq(Entry) /\ Len(r) = n - 1 /\ DOMAIN r = 1..(n - 1)
    BY <1>3, <1>5
<1>7. Indexed(r) /\ KeysDiffer(r)
  <2>1. \A i \in 1..(n - 1) : r[i].index = i - 1
    BY <1>3, <1>4 DEF Sound, Indexed, n
  <2>2. \A i, j \in 1..(n - 1) : r[i].key = r[j].key => i = j
    BY <1>1, <1>3, <1>4 DEF Sound, KeysDiffer
  <2>3. QED BY <1>6, <2>1, <2>2 DEF Indexed, KeysDiffer
<1>8. Bares(r) = Bares(q) \ {Bare(q[n])}
  <2>1. ASSUME NEW i \in 1..(n - 1) PROVE Bare(q[i]) # Bare(q[n])
    <3>1. n \in 1..n /\ i \in 1..n /\ i # n
        BY <1>1, <1>3
    <3>2. q[i].key # q[n].key
        BY <1>1, <3>1 DEF Sound, KeysDiffer
    <3>3. QED BY <3>2, BareTells
  <2>2. \A i \in 1..n : i \in 1..(n - 1) \/ i = n
    BY <1>1
  <2>3. Bares(r) = {Bare(q[i]) : i \in 1..(n - 1)}
    BY <1>4, <1>6 DEF Bares
  <2>4. Bares(q) = {Bare(q[i]) : i \in 1..n}
    BY DEF Bares, n
  <2>5. QED BY <1>3, <2>1, <2>2, <2>3, <2>4
<1>9. n \in 1..n
    BY <1>1
<1>10. QED BY <1>4, <1>6, <1>7, <1>8, <1>9 DEF Sound, n, r

(* What is ordered is so without its last element.                         *)
LEMMA OrderedFront ==
    ASSUME NEW q, NEW n \in Nat, Ordered(q, n), NEW r, NEW m \in Nat, m <= n,
           \A i \in 1..m : r[i] = q[i]
    PROVE  Ordered(r, m)
<1> SUFFICES ASSUME NEW i \in 2..m PROVE Rank(r[Parent(i)]) <= Rank(r[i])
    BY DEF Ordered
<1>1. i \in 2..n /\ i \in 1..m
    OBVIOUS
<1>2. Parent(i) \in 1..m
    BY ParentIs
<1>3. r[Parent(i)] = q[Parent(i)] /\ r[i] = q[i]
    BY <1>1, <1>2
<1>4. QED BY <1>1, <1>3 DEF Ordered

(* An element that may be out of place either sinks or rises.              *)
LEMMA FixSplits ==
    ASSUME NEW q, Sound(q), NEW n \in 0..Len(q), NEW a \in 1..Len(q), FixReady(q, a, n)
    PROVE  /\ SinksBelow(q, a, n) => DownReady(q, a, n)
           /\ ~SinksBelow(q, a, n) => UpReady(q, a, n)
<1> DEFINE c == LesserChild(q, a, n)
           w(x) == Rank(q[x])
<1>1. Len(q) \in Nat /\ n \in Nat /\ a \in Nat /\ 1 <= a /\ a <= Len(q) /\ n <= Len(q)
    BY LenProperties DEF Sound
<1>2. /\ 2 * a <= n => c \in 2..n /\ Parent(c) = a
      /\ \A i \in 2..n : Parent(i) = a => 2 * a <= n /\ w(c) <= w(i)
    BY LesserChildIs
<1>3. \A i \in 2..n : Parent(i) \in 1..n /\ Parent(i) < i /\ i \in 1..n
    BY <1>1, ParentIs
<1>4. \A i \in 1..n : i \in 1..Len(q) /\ w(i) \in Nat
    BY <1>1, RanksNat
<1>5. \A i \in 2..n : /\ i # a /\ Parent(i) # a => w(Parent(i)) <= w(i)
                      /\ a > 1 /\ Parent(i) = a => w(Parent(a)) <= w(i)
    BY DEF FixReady
<1>6. ASSUME SinksBelow(q, a, n) PROVE DownReady(q, a, n)
  <2>1. 2 * a <= n /\ c \in 2..n /\ Parent(c) = a /\ Less(q[c], q[a])
    BY <1>2, <1>6 DEF SinksBelow
  <2>2. a \in 1..n /\ c \in 1..n
    BY <1>1, <2>1
  <2>3. w(c) < w(a)
    BY <1>4, <2>1, <2>2, RanksNat
  <2>4. ASSUME NEW i \in 2..n, Parent(i) # a PROVE w(Parent(i)) <= w(i)
    <3>1. CASE i # a
        BY <1>5, <2>4, <3>1
    <3>2. CASE i = a
      <4>1. w(Parent(a)) <= w(c) /\ Parent(a) \in 1..n
        BY <1>1, <1>3, <1>5, <2>1, <3>2
      <4>2. w(Parent(a)) \in Nat /\ w(c) \in Nat /\ w(a) \in Nat
        BY <1>4, <2>2, <4>1
      <4> HIDE DEF w, c
      <4>3. QED BY <2>3, <3>2, <4>1, <4>2
    <3>3. QED BY <3>1, <3>2
  <2>5. QED BY <1>5, <2>4 DEF DownReady
<1>7. ASSUME ~SinksBelow(q, a, n) PROVE UpReady(q, a, n)
  <2>1. ASSUME NEW i \in 2..n, i # a PROVE w(Parent(i)) <= w(i)
    <3>1. CASE Parent(i) # a
        BY <1>5, <2>1, <3>1
    <3>2. CASE Parent(i) = a
      <4>1. 2 * a <= n /\ w(c) <= w(i) /\ c \in 2..n
        BY <1>2, <3>2
      <4>2. ~Less(q[c], q[a])
        BY <1>7, <4>1 DEF SinksBelow
      <4>3. c \in 1..n /\ a \in 1..n /\ i \in 1..n
        BY <1>1, <4>1
      <4>4. ~(w(c) < w(a)) /\ w(c) \in Nat /\ w(a) \in Nat /\ w(i) \in Nat
        BY <1>4, <4>2, <4>3, RanksNat
      <4> HIDE DEF w, c
      <4>5. QED BY <3>2, <4>1, <4>4
    <3>3. QED BY <3>1, <3>2
  <2>2. QED BY <1>5, <2>1 DEF UpReady
<1>8. QED BY <1>6, <1>7

(* The last element in the place of another.                               *)
LEMMA SwapLast ==
    ASSUME NEW q, Sound(q), Ordered(q, Len(q)), NEW a \in 1..Len(q)
    PROVE  /\ Sound(Swap(q, a, Len(q))) /\ Len(Swap(q, a, Len(q))) = Len(q)
           /\ FixReady(Swap(q, a, Len(q)), a, Len(q) - 1)
<1> DEFINE n == Len(q)
           s == Swap(q, a, n)
           w(x) == Rank(q[x])
           v(x) == Rank(s[x])
<1>1. n \in Nat /\ a \in 1..n /\ n \in 1..n
    BY LenProperties DEF Sound
<1>2. Sound(s) /\ Len(s) = n
    BY <1>1, SwapMirrors
<1>3. ASSUME NEW x \in 1..(n - 1), x # a PROVE v(x) = w(x) /\ w(x) \in Nat
  <2>1. x \in 1..n /\ x # n
    BY <1>1
  <2>2. v(x) = w(Mirror(x, a, n)) /\ w(x) \in Nat
    BY <1>1, <2>1, SwapRanks, RanksNat
  <2>3. Mirror(x, a, n) = x
    BY <1>3, <2>1 DEF Mirror
  <2>4. QED BY <2>2, <2>3
<1>4. \A i \in 2..(n - 1) : Parent(i) \in 1..(n - 1) /\ Parent(i) < i
                            /\ i \in 1..(n - 1) /\ i \in 2..n
    BY <1>1, ParentIs
<1>5. \A i \in 2..n : w(Parent(i)) <= w(i)
    BY DEF Ordered
<1>5a. w(a) \in Nat
    BY RanksNat
<1> HIDE DEF n, s, v, w
<1>6. ASSUME NEW i \in 2..(n - 1)
      PROVE  /\ i # a /\ Parent(i) # a => v(Parent(i)) <= v(i)
             /\ a > 1 /\ Parent(i) = a => v(Parent(a)) <= v(i)
  <2>1. i # a /\ Parent(i) # a => v(Parent(i)) <= v(i)
    BY <1>3, <1>4, <1>5
  <2>2. ASSUME a > 1, Parent(i) = a PROVE v(Parent(a)) <= v(i)
    <3> DEFINE g == Parent(a)
    <3>1. a \in 2..(n - 1) /\ i # a /\ i \in 1..(n - 1)
        BY <1>1, <1>4, <2>2
    <3>2. g \in 1..(n - 1) /\ g # a
        BY <1>1, <1>4, <3>1
    <3>3. w(g) <= w(a) /\ w(a) <= w(i)
        BY <1>1, <1>4, <1>5, <2>2, <3>1
    <3>4. v(g) = w(g) /\ v(i) = w(i) /\ w(g) \in Nat /\ w(i) \in Nat
        BY <1>3, <3>1, <3>2
    <3>5. QED BY <1>5a, <3>3, <3>4
  <2>3. QED BY <2>1, <2>2
<1>7. QED BY <1>2, <1>6 DEF FixReady, n, s, v

(* and taken away at the end of the heap, once the rest is in order.       *)
LEMMA TakenAway ==
    ASSUME NEW q, Sound(q), NEW a \in 1..Len(q), NEW r,
           Shuffled(r, Swap(q, a, Len(q)), Len(q) - 1), Ordered(r, Len(q) - 1)
    PROVE  /\ Sound(Pop(r)) /\ Len(Pop(r)) = Len(q) - 1 /\ Ordered(Pop(r), Len(Pop(r)))
           /\ Bares(Pop(r)) = Bares(q) \ {Bare(q[a])}
<1> DEFINE n == Len(q)
           s == Swap(q, a, n)
<1>1. n \in Nat /\ a \in 1..n /\ n \in 1..n /\ n \in 0..n /\ n - 1 \in Nat
    BY LenProperties DEF Sound
<1>2. Shuffled(s, q, n) /\ Len(s) = n
  <2>1. n \in 0..Len(q)
    BY <1>1
  <2>2. QED BY <1>1, <2>1, SwapShuffles, SwapMirrors
<1>3. Bare(s[n]) = Bare(q[a])
  <2>1. Bare(s[n]) = Bare(q[Mirror(n, a, n)])
    BY <1>1, SwapMirrors
  <2>2. QED BY <2>1 DEF Mirror
<1>4. Sound(r) /\ Len(r) = n /\ Bares(r) = Bares(q) /\ r[n] = s[n]
  <2>1. n > n - 1 /\ n \in 1..Len(s)
    BY <1>1, <1>2
  <2>2. QED BY <1>2, <2>1 DEF Shuffled
<1> HIDE DEF n, s
<1>5. r # << >>
    BY <1>1, <1>4, EmptySeq
<1>6. /\ Sound(Pop(r)) /\ Len(Pop(r)) = n - 1
      /\ \A i \in 1..(n - 1) : Pop(r)[i] = r[i]
      /\ Bares(Pop(r)) = Bares(r) \ {Bare(r[n])}
    BY <1>4, <1>5, PopTakesLast
<1>7. Ordered(Pop(r), n - 1)
  <2>1. Ordered(r, n - 1) /\ n - 1 <= n - 1
    BY <1>1 DEF n
  <2>2. QED BY <1>1, <1>6, <2>1, OrderedFront
<1>8. QED BY <1>3, <1>4, <1>6, <1>7 DEF n

-----------------------------------------------------------------------------
(* The operations of container/heap.                                       *)

(* A heap in order.                                                        *)
IsHeap(q) == Sound(q) /\ Ordered(q, Len(q))

(* Its first element is a least one.                                       *)
LEMMA RootIsLeast ==
    ASSUME NEW q, IsHeap(q), NEW i \in 1..Len(q)
    PROVE  Rank(q[1]) <= Rank(q[i])
<1> DEFINE n == Len(q)
           w(x) == Rank(q[x])
           Lower == {x \in 1..n : ~(w(1) <= w(x))}
<1>1. n \in Nat /\ \A x \in 1..n : w(x) \in Nat
    BY LenProperties, RanksNat DEF IsHeap, Sound
<1>2. \A x \in 2..n : w(Parent(x)) <= w(x) /\ Parent(x) \in 1..n /\ Parent(x) < x
    BY <1>1, ParentIs DEF IsHeap, Ordered
<1> SUFFICES ASSUME Lower # {} PROVE FALSE
    OBVIOUS
<1> HIDE DEF n, w
<1>3. Lower \in SUBSET Nat
    OBVIOUS
<1>4. PICK x \in Lower : \A y \in Lower : x <= y
    BY <1>3, LeastExists, Zenon
<1>5. x \in 1..n /\ 1 \in 1..n /\ ~(w(1) <= w(x))
    BY <1>1, <1>4
<1>6. x # 1 /\ x \in 2..n
    BY <1>1, <1>5
<1> DEFINE p == Parent(x)
<1>7. w(p) <= w(x) /\ p \in 1..n /\ p < x
    BY <1>2, <1>6
<1> HIDE DEF p
<1>8. p \notin Lower
    BY <1>1, <1>4, <1>5, <1>7
<1>9. w(1) <= w(p)
    BY <1>7, <1>8
<1>10. QED BY <1>1, <1>5, <1>7, <1>9

LEMMA HeapPushEffect ==
    ASSUME NEW q, IsHeap(q), NEW e \in Entry, e.key \notin KeysOf(q)
    PROVE  /\ IsHeap(HeapPush(q, e)) /\ Len(HeapPush(q, e)) = Len(q) + 1
           /\ Bares(HeapPush(q, e)) = Bares(q) \cup {Bare(e)}
<1> DEFINE n == Len(q)
           d == [e EXCEPT !.index = n]
           s == Push(q, e)
<1>1. n \in Nat /\ q \in Seq(Entry) /\ DOMAIN q = 1..n
    BY LenProperties DEF IsHeap, Sound
<1>2. d \in Entry /\ Bare(d) = Bare(e) /\ d.key = e.key /\ d.index = n
    BY <1>1 DEF Entry, Bare
<1>3. s = Append(q, d)
    BY DEF Push
<1> HIDE DEF d, s
<1>4. /\ s \in Seq(Entry) /\ Len(s) = n + 1 /\ s[n + 1] = d
      /\ \A i \in 1..n : s[i] = q[i]
    BY <1>1, <1>2, <1>3, AppendProperties
<1> HIDE DEF n
<1>5. \A i \in 1..(n + 1) : i \in 1..n \/ i = n + 1
    BY <1>1
<1>6. Indexed(s)
  <2>1. \A i \in 1..n : s[i].index = i - 1
    BY <1>4 DEF IsHeap, Sound, Indexed, n
  <2>2. s[n + 1].index = (n + 1) - 1
    BY <1>1, <1>2, <1>4
  <2>3. QED BY <1>4, <1>5, <2>1, <2>2 DEF Indexed
<1>7. KeysDiffer(s)
    BY <1>1, <1>2, <1>3, AppendKeys DEF IsHeap, Sound
<1>8. Bares(s) = Bares(q) \cup {Bare(e)}
  <2>1. ASSUME NEW b \in Bares(s) PROVE b \in Bares(q) \cup {Bare(e)}
    <3>1. PICK i \in 1..(n + 1) : b = Bare(s[i])
        BY <1>4 DEF Bares
    <3>2. CASE i \in 1..n
        BY <1>4, <3>1, <3>2 DEF Bares, n
    <3>3. CASE i = n + 1
        BY <1>2, <1>4, <3>1, <3>3
    <3>4. QED BY <1>5, <3>2, <3>3
  <2>2. ASSUME NEW i \in 1..n PROVE Bare(q[i]) \in Bares(s)
    <3>1. i \in 1..(n + 1) /\ s[i] = q[i]
        BY <1>1, <1>4
    <3>2. QED BY <1>4, <3>1 DEF Bares
  <2>3. Bare(e) \in Bares(s)
    <3>1. n + 1 \in 1..(n + 1) /\ Bare(s[n + 1]) = Bare(e)
        BY <1>1, <1>2, <1>4
    <3>2. QED BY <1>4, <3>1 DEF Bares
  <2>4. QED BY <2>1, <2>2, <2>3 DEF Bares, n
<1>9. UpReady(s, n + 1, n + 1)
  <2> SUFFICES ASSUME NEW i \in 2..(n + 1)
               PROVE  /\ i # n + 1 => Rank(s[Parent(i)]) <= Rank(s[i])
                      /\ Parent(i) # n + 1
    BY DEF UpReady
  <2>1. Parent(i) \in Nat /\ 1 <= Parent(i) /\ Parent(i) < i
    BY <1>1, ParentIs
  <2>2. Parent(i) # n + 1
    BY <1>1, <2>1
  <2>3. ASSUME i # n + 1 PROVE Rank(s[Parent(i)]) <= Rank(s[i])
    <3>1. i \in 2..n /\ i \in 1..n /\ Parent(i) \in 1..n
        BY <1>1, <2>1, <2>3
    <3>2. Rank(q[Parent(i)]) <= Rank(q[i])
        BY <3>1 DEF IsHeap, Ordered, n
    <3>3. s[Parent(i)] = q[Parent(i)] /\ s[i] = q[i]
        BY <1>4, <3>1
    <3>4. QED BY <3>2, <3>3
  <2>4. QED BY <2>2, <2>3
<1>10. HeapPush(q, e) = Up(s, n + 1)
    BY DEF HeapPush, s, n
<1>11. Sound(s)
    BY <1>4, <1>6, <1>7 DEF Sound
<1>12. Shuffled(Up(s, n + 1), s, n + 1) /\ Ordered(Up(s, n + 1), n + 1)
  <2>1. n + 1 \in 0..Len(s) /\ n + 1 \in 1..(n + 1)
    BY <1>1, <1>4
  <2>2. QED BY <1>9, <1>11, <2>1, UpEffect
<1>13. QED BY <1>4, <1>8, <1>10, <1>12 DEF Shuffled, IsHeap, n

LEMMA HeapPopEffect ==
    ASSUME NEW q, IsHeap(q), q # << >>
    PROVE  /\ 1 \in 1..Len(q)
           /\ IsHeap(HeapPop(q)) /\ Len(HeapPop(q)) = Len(q) - 1
           /\ Bares(HeapPop(q)) = Bares(q) \ {Bare(q[1])}
<1> DEFINE n == Len(q)
           s == Swap(q, 1, n)
           r == Down(s, 1, n - 1)
<1>1. n \in Nat /\ n # 0 /\ n - 1 \in 0..n /\ 1 \in 1..n /\ Sound(q) /\ Ordered(q, n)
    BY LenProperties, EmptySeq DEF IsHeap, Sound
<1>2. Sound(s) /\ Len(s) = n /\ FixReady(s, 1, n - 1)
    BY <1>1, SwapLast
<1>3. DownReady(s, 1, n - 1)
    BY <1>2 DEF FixReady, DownReady
<1>4. Shuffled(r, s, n - 1) /\ Ordered(r, n - 1)
  <2>1. n - 1 \in 0..Len(s) /\ 1 \in 1..Len(s)
    BY <1>1, <1>2
  <2> HIDE DEF s
  <2>2. QED BY <1>2, <1>3, <2>1, DownEffect
<1>5. HeapPop(q) = Pop(r)
    BY DEF HeapPop
<1>6. /\ Sound(Pop(r)) /\ Len(Pop(r)) = n - 1 /\ Ordered(Pop(r), Len(Pop(r)))
      /\ Bares(Pop(r)) = Bares(q) \ {Bare(q[1])}
  <2> HIDE DEF r
  <2>1. QED BY <1>1, <1>4, TakenAway
<1>7. QED BY <1>1, <1>5, <1>6 DEF IsHeap

LEMMA HeapFixEffect ==
    ASSUME NEW q, Sound(q), NEW a \in 1..Len(q), FixReady(q, a, Len(q))
    PROVE  /\ IsHeap(HeapFix(q, a)) /\ Len(HeapFix(q, a)) = Len(q)
           /\ Bares(HeapFix(q, a)) = Bares(q)
<1>1. Len(q) \in 0..Len(q)
    BY LenProperties DEF Sound
<1>2. CASE SinksBelow(q, a, Len(q))
  <2>1. HeapFix(q, a) = Down(q, a, Len(q))
    BY <1>2 DEF HeapFix
  <2>2. DownReady(q, a, Len(q))
    BY <1>1, <1>2, FixSplits
  <2>3. QED BY <1>1, <2>1, <2>2, DownEffect DEF Shuffled, IsHeap
<1>3. CASE ~SinksBelow(q, a, Len(q))
  <2>1. HeapFix(q, a) = Up(q, a)
    BY <1>3 DEF HeapFix
  <2>2. UpReady(q, a, Len(q))
    BY <1>1, <1>3, FixSplits
  <2>3. QED BY <1>1, <2>1, <2>2, UpEffect DEF Shuffled, IsHeap
<1>4. QED BY <1>2, <1>3

LEMMA HeapRemoveEffect ==
    ASSUME NEW q, IsHeap(q), NEW a \in 1..Len(q)
    PROVE  /\ IsHeap(HeapRemove(q, a)) /\ Len(HeapRemove(q, a)) = Len(q) - 1
           /\ Bares(HeapRemove(q, a)) = Bares(q) \ {Bare(q[a])}
<1> DEFINE n == Len(q)
           s == Swap(q, a, n)
<1>1. /\ n \in Nat /\ a \in 1..n /\ n # 0 /\ n - 1 \in 0..n /\ n - 1 \in Nat
      /\ Sound(q) /\ Ordered(q, n)
    BY LenProperties DEF IsHeap, Sound
<1>2. Sound(s) /\ Len(s) = n /\ FixReady(s, a, n - 1)
    BY <1>1, SwapLast
<1>3. a \in 1..Len(s) /\ n - 1 \in 0..Len(s)
    BY <1>1, <1>2
<1>4. CASE a = n
  <2>1. HeapRemove(q, a) = Pop(q) /\ q # << >>
    BY <1>1, <1>4, EmptySeq DEF HeapRemove
  <2>2. /\ Sound(Pop(q)) /\ Len(Pop(q)) = n - 1
        /\ \A i \in 1..(n - 1) : Pop(q)[i] = q[i]
        /\ Bares(Pop(q)) = Bares(q) \ {Bare(q[n])}
    BY <1>1, <2>1, PopTakesLast
  <2>3. Ordered(Pop(q), n - 1)
    <3>1. n - 1 <= n
        BY <1>1
    <3> HIDE DEF n
    <3>2. QED BY <1>1, <2>2, <3>1, OrderedFront
  <2>4. QED BY <1>4, <2>1, <2>2, <2>3 DEF IsHeap
<1>5. CASE a # n /\ SinksBelow(s, a, n - 1)
  <2> DEFINE r == Down(s, a, n - 1)
  <2>1. HeapRemove(q, a) = Pop(r)
    BY <1>5 DEF HeapRemove
  <2> HIDE DEF s
  <2>2. DownReady(s, a, n - 1)
    BY <1>2, <1>3, <1>5, FixSplits
  <2>3. Shuffled(r, s, n - 1) /\ Ordered(r, n - 1)
    BY <1>2, <1>3, <2>2, DownEffect
  <2> HIDE DEF r
  <2>4. /\ Sound(Pop(r)) /\ Len(Pop(r)) = n - 1 /\ Ordered(Pop(r), Len(Pop(r)))
        /\ Bares(Pop(r)) = Bares(q) \ {Bare(q[a])}
    BY <1>1, <2>3, TakenAway DEF s
  <2>5. QED BY <2>1, <2>4 DEF IsHeap
<1>6. CASE a # n /\ ~SinksBelow(s, a, n - 1)
  <2> DEFINE r == Up(s, a)
  <2>1. HeapRemove(q, a) = Pop(r)
    BY <1>6 DEF HeapRemove
  <2> HIDE DEF s
  <2>2. UpReady(s, a, n - 1) /\ a \in 1..(n - 1)
    BY <1>1, <1>2, <1>3, <1>6, FixSplits
  <2>3. Shuffled(r, s, n - 1) /\ Ordered(r, n - 1)
    BY <1>2, <1>3, <2>2, UpEffect
  <2> HIDE DEF r
  <2>4. /\ Sound(Pop(r)) /\ Len(Pop(r)) = n - 1 /\ Ordered(Pop(r), Len(Pop(r)))
        /\ Bares(Pop(r)) = Bares(q) \ {Bare(q[a])}
    BY <1>1, <2>3, TakenAway DEF s
  <2>5. QED BY <2>1, <2>4 DEF IsHeap
<1>7. QED BY <1>4, <1>5, <1>6

-----------------------------------------------------------------------------
(* What a heap stands for depends on its entries only.                     *)
Bytes(q) == BytesOf(q, LfuOverhead)

LEMMA EntriesPriced ==
    /\ Priced(Entry)
    /\ LfuOverhead \in Nat
    /\ \A e \in Entry : CostOf(e, LfuOverhead) = Cost(e.key, e.value)
BY CacheConstants DEF Priced, Entry, CostOf, Cost

LEMMA KeysOfBares ==
    ASSUME NEW q \in Seq(Entry)
    PROVE  KeysOf(q) = {b.key : b \in Bares(q)}
<1>1. DOMAIN q = 1..Len(q)
    BY LenProperties
<1>2. \A i \in 1..Len(q) : Bare(q[i]).key = q[i].key
    BY DEF Bare
<1>3. ASSUME NEW k \in KeysOf(q) PROVE k \in {b.key : b \in Bares(q)}
  <2>1. PICK i \in 1..Len(q) : k = q[i].key
    BY <1>1 DEF KeysOf
  <2>2. Bare(q[i]) \in Bares(q)
    BY DEF Bares
  <2>3. QED BY <1>2, <2>1, <2>2
<1>4. ASSUME NEW b \in Bares(q) PROVE b.key \in KeysOf(q)
  <2>1. PICK i \in 1..Len(q) : b = Bare(q[i])
    BY DEF Bares
  <2>2. QED BY <1>1, <1>2, <2>1 DEF KeysOf
<1>5. QED BY <1>3, <1>4

LEMMA ContentsOfBares ==
    ASSUME NEW q \in Seq(Entry), KeysDiffer(q), NEW r \in Seq(Entry), KeysDiffer(r),
           Bares(q) \subseteq Bares(r)
    PROVE  /\ KeysOf(q) \subseteq KeysOf(r)
           /\ \A k \in Keys : ContentsOf(q)[k] =
                  IF k \in KeysOf(r) \ KeysOf(q) THEN None ELSE ContentsOf(r)[k]
<1>1. KeysOf(q) \subseteq KeysOf(r)
    BY KeysOfBares
<1>2. ASSUME NEW k \in Keys, k \in KeysOf(q) PROVE ContentsOf(q)[k] = ContentsOf(r)[k]
  <2>1. PICK i \in 1..Len(q) : q[i].key = k
    BY <1>2, LenProperties DEF KeysOf
  <2>2. PICK j \in 1..Len(r) : Bare(q[i]) = Bare(r[j])
    BY DEF Bares
  <2>3. r[j].key = k /\ r[j].value = q[i].value
    BY <2>1, <2>2, BareTells
  <2>4. ContentsOf(q)[k] = q[i].value /\ ContentsOf(r)[k] = r[j].value
    BY <2>1, <2>3, ContentsAt, EntriesPriced
  <2>5. QED BY <2>3, <2>4
<1>3. ASSUME NEW k \in Keys, k \notin KeysOf(q) PROVE ContentsOf(q)[k] = None
    BY <1>3 DEF ContentsOf
<1>4. ASSUME NEW k \in Keys, k \notin KeysOf(r) PROVE ContentsOf(r)[k] = None
    BY <1>4 DEF ContentsOf
<1>5. QED BY <1>1, <1>2, <1>3, <1>4

LEMMA SameBares ==
    ASSUME NEW q \in Seq(Entry), KeysDiffer(q), NEW r \in Seq(Entry), KeysDiffer(r),
           Bares(q) = Bares(r)
    PROVE  /\ KeysOf(q) = KeysOf(r)
           /\ ContentsOf(q) = ContentsOf(r)
           /\ Bytes(q) = Bytes(r)
<1>1. KeysOf(q) = KeysOf(r)
    BY KeysOfBares
<1>2. ContentsOf(q) = ContentsOf(r)
  <2>1. \A k \in Keys : ContentsOf(q)[k] = ContentsOf(r)[k]
    BY <1>1, ContentsOfBares
  <2>2. /\ ContentsOf(q) = [k \in Keys |-> ContentsOf(q)[k]]
        /\ ContentsOf(r) = [k \in Keys |-> ContentsOf(r)[k]]
    BY DEF ContentsOf
  <2>3. QED BY <2>1, <2>2
<1>3. Bytes(q) = Bytes(r)
  <2> DEFINE Total(a) ==
                (CHOOSE f : f = ValueSum(f, a, {k \in Keys : a[k] # None}, LfuOverhead))
                    [{k \in Keys : a[k] # None}]
  <2>1. Total(ContentsOf(q)) = BytesOf(q, LfuOverhead)
    BY EntriesPriced, ContentsSum
  <2>2. Total(ContentsOf(r)) = BytesOf(r, LfuOverhead)
    BY EntriesPriced, ContentsSum
  <2> HIDE DEF Total
  <2>3. QED BY <1>2, <2>1, <2>2 DEF Bytes
<1>4. QED BY <1>1, <1>2, <1>3

(* What is left of a heap without one of its entries.                      *)
LEMMA OneEntryLess ==
    ASSUME NEW q, Sound(q), NEW i \in 1..Len(q), NEW r, Sound(r),
           Bares(r) = Bares(q) \ {Bare(q[i])}
    PROVE  /\ q[i].key \in KeysOf(q) /\ KeysOf(r) = KeysOf(q) \ {q[i].key}
           /\ Bytes(q) \in Nat /\ Bytes(r) \in Nat
           /\ Bytes(r) = Bytes(q) - Cost(q[i].key, q[i].value)
           /\ Cost(q[i].key, q[i].value) \in Nat
<1> DEFINE e == q[i]
           s == Append(r, e)
<1>1. q \in Seq(Entry) /\ r \in Seq(Entry) /\ KeysDiffer(q) /\ KeysDiffer(r) /\ e \in Entry
    BY ElementOfSeq DEF Sound
<1>2. DOMAIN q = 1..Len(q) /\ \A b \in Bares(q) : b.key = e.key => b = Bare(e)
  <2>1. DOMAIN q = 1..Len(q)
    BY <1>1, LenProperties
  <2>2. ASSUME NEW j \in 1..Len(q), Bare(q[j]).key = e.key PROVE Bare(q[j]) = Bare(e)
    <3>1. q[j].key = q[i].key
        BY <2>2 DEF Bare
    <3>2. j = i
        BY <1>1, <2>1, <3>1 DEF KeysDiffer
    <3>3. QED BY <3>2
  <2> HIDE DEF e
  <2>3. QED BY <2>1, <2>2 DEF Bares
<1>3. Bare(e) \in Bares(q) /\ Bare(e).key = e.key
    BY DEF Bares, Bare
<1>4. e.key \in KeysOf(q) /\ KeysOf(r) = KeysOf(q) \ {e.key}
    BY <1>1, <1>2, <1>3, KeysOfBares
<1> HIDE DEF e
<1>5. s \in Seq(Entry) /\ KeysDiffer(s)
  <2>1. e.key \notin KeysOf(r)
    BY <1>4
  <2>2. QED BY <1>1, <2>1, AppendProperties, AppendKeys
<1>6. Bares(s) = Bares(q)
  <2>1. /\ Len(s) = Len(r) + 1 /\ Len(r) \in Nat /\ s[Len(r) + 1] = e
        /\ \A j \in 1..Len(r) : s[j] = r[j]
    BY <1>1, AppendProperties, LenProperties
  <2>2. \A j \in 1..(Len(r) + 1) : j \in 1..Len(r) \/ j = Len(r) + 1
    BY <2>1
  <2>3. Len(r) + 1 \in 1..(Len(r) + 1) /\ \A j \in 1..Len(r) : j \in 1..(Len(r) + 1)
    BY <2>1
  <2>4. Bares(s) = Bares(r) \cup {Bare(e)}
    <3> HIDE DEF s
    <3>1. ASSUME NEW b \in Bares(s) PROVE b \in Bares(r) \cup {Bare(e)}
        BY <2>1, <2>2 DEF Bares
    <3>2. ASSUME NEW b \in Bares(r) PROVE b \in Bares(s)
        BY <2>1, <2>3 DEF Bares
    <3>3. Bare(e) \in Bares(s)
        BY <2>1, <2>3 DEF Bares
    <3>4. QED BY <3>1, <3>2, <3>3
  <2>5. Bares(r) = Bares(q) \ {Bare(e)}
    BY DEF e
  <2>6. QED BY <1>3, <2>4, <2>5
<1>7. Bytes(q) = Bytes(r) + Cost(e.key, e.value)
  <2>1. Bytes(s) = Bytes(q)
    BY <1>1, <1>5, <1>6, SameBares
  <2>2. Bytes(s) = Bytes(r) + CostOf(e, LfuOverhead)
    BY <1>1, BytesAppend, EntriesPriced DEF Bytes
  <2>3. QED BY <1>1, <2>1, <2>2, EntriesPriced
<1>8. Bytes(q) \in Nat /\ Bytes(r) \in Nat
    BY <1>1, BytesType, EntriesPriced DEF Bytes
<1>9. Cost(e.key, e.value) \in Nat
  <2>1. CostOf(e, LfuOverhead) \in Nat
    BY <1>1, EntriesPriced, CostType
  <2>2. QED BY <1>1, <2>1, EntriesPriced
<1>10. Bytes(r) = Bytes(q) - Cost(e.key, e.value)
  <2> DEFINE x == Bytes(q)
             y == Bytes(r)
             z == Cost(e.key, e.value)
  <2> HIDE DEF x, y, z
  <2>1. x = y + z /\ x \in Nat /\ y \in Nat /\ z \in Nat
    BY <1>7, <1>8, <1>9 DEF x, y, z
  <2>2. y = x - z
    BY <2>1
  <2>3. QED BY <2>2 DEF x, y, z
<1>11. QED BY <1>4, <1>8, <1>9, <1>10 DEF e

-----------------------------------------------------------------------------
(* A heap, the keys of the map and the count that belong together.         *)
Kept(q, keys, n) == IsHeap(q) /\ keys = KeysOf(q) /\ n = Bytes(q)

LEMMA KeptTypes ==
    ASSUME NEW q, IsHeap(q)
    PROVE  /\ q \in Seq(Entry) /\ Len(q) \in Nat /\ DOMAIN q = 1..Len(q)
           /\ KeysDiffer(q) /\ Indexed(q) /\ \A i \in 1..Len(q) : q[i] \in Entry
           /\ KeysOf(q) \subseteq Keys /\ Bytes(q) \in Nat
<1>1. q \in Seq(Entry) /\ KeysDiffer(q) /\ Indexed(q)
    BY DEF IsHeap, Sound
<1>2. Len(q) \in Nat /\ DOMAIN q = 1..Len(q) /\ \A i \in 1..Len(q) : q[i] \in Entry
    BY <1>1, LenProperties, ElementOfSeq
<1>3. KeysOf(q) \subseteq Keys
    BY <1>2 DEF KeysOf, Entry
<1>4. Bytes(q) \in Nat
    BY <1>1, BytesType, EntriesPriced DEF Bytes
<1>5. QED BY <1>1, <1>2, <1>3, <1>4

(* The entry at the front is the one to evict; without entries there is    *)
(* nothing to count.                                                       *)
EvictStates(q) ==
    {s \in [pq : Seq(Entry), cache : SUBSET Keys, nbytes : Nat] :
        /\ Kept(s.pq, s.cache, s.nbytes)
        /\ Bares(s.pq) \subseteq Bares(q)
        /\ \A d \in Bares(q) \ Bares(s.pq), e \in Bares(s.pq) : Rank(d) <= Rank(e)
        /\ \/ s.pq = q
           \/ \E h \in Seq(Entry) :
                 /\ IsHeap(h) /\ Bares(h) \subseteq Bares(q) /\ Overflows(Bytes(h))
                 /\ \E i \in 1..Len(h) : Bares(s.pq) = Bares(h) \ {Bare(h[i])}}

LEMMA EmptyFits ==
    ASSUME NEW q, IsHeap(q), Overflows(Bytes(q))
    PROVE  q # << >>
<1>1. Bytes(<< >>) = 0
    BY BytesEmpty, EntriesPriced DEF Bytes
<1>2. ~Overflows(0)
    BY CacheConstants DEF Overflows
<1>3. QED BY <1>1, <1>2

LEMMA EvictStep ==
    ASSUME NEW q, IsHeap(q), NEW s \in EvictStates(q)
    PROVE  /\ Evict(s) \in EvictStates(q)
           /\ ~Overflows(s.nbytes) => Evict(s) = s
           /\ Overflows(s.nbytes) => Len(Evict(s).pq) = Len(s.pq) - 1
<1>1. /\ s.pq \in Seq(Entry) /\ s.cache = KeysOf(s.pq) /\ s.nbytes = Bytes(s.pq)
      /\ IsHeap(s.pq) /\ Bares(s.pq) \subseteq Bares(q)
      /\ \A d \in Bares(q) \ Bares(s.pq), e \in Bares(s.pq) : Rank(d) <= Rank(e)
    BY DEF EvictStates, Kept
<1>2. CASE ~Overflows(s.nbytes)
    BY <1>2 DEF Evict
<1>3. CASE Overflows(s.nbytes)
  <2> DEFINE r == s.pq
             t == HeapPop(s.pq)
             e == s.pq[1]
  <2>1. r # << >>
    BY <1>1, <1>3, EmptyFits
  <2>2. Evict(s) = [pq |-> t, cache |-> s.cache \ {e.key}, nbytes |-> s.nbytes - Cost(e.key, e.value)]
    BY <1>3, <2>1 DEF Evict
  <2>3. /\ 1 \in 1..Len(r) /\ IsHeap(t) /\ Len(t) = Len(r) - 1
        /\ Bares(t) = Bares(r) \ {Bare(e)}
    BY <1>1, <2>1, HeapPopEffect
  <2>4. /\ KeysOf(t) = KeysOf(r) \ {e.key} /\ Bytes(t) = Bytes(r) - Cost(e.key, e.value)
    BY <1>1, <2>3, OneEntryLess DEF IsHeap
  <2>5. ASSUME NEW d \in Bares(q) \ Bares(t), NEW f \in Bares(t) PROVE Rank(d) <= Rank(f)
    <3>1. CASE d \notin Bares(r)
        BY <1>1, <2>3, <3>1
    <3>2. CASE d \in Bares(r)
      <4>1. d = Bare(r[1])
        BY <2>3, <3>2
      <4>2. PICK j \in 1..Len(r) : f = Bare(r[j])
        BY <2>3 DEF Bares
      <4>3. Rank(r[1]) <= Rank(r[j])
        BY <1>1, RootIsLeast
      <4>4. Rank(Bare(r[1])) = Rank(r[1]) /\ Rank(Bare(r[j])) = Rank(r[j])
        BY DEF Rank, Bare
      <4>5. QED BY <4>1, <4>2, <4>3, <4>4
    <3>3. QED BY <3>1, <3>2
  <2>6. /\ r \in Seq(Entry) /\ Bares(r) \subseteq Bares(q) /\ Overflows(Bytes(r))
        /\ \E i \in 1..Len(r) : Bares(t) = Bares(r) \ {Bare(r[i])}
    BY <1>1, <1>3, <2>3
  <2>7. t \in Seq(Entry) /\ KeysOf(t) \subseteq Keys /\ Bytes(t) \in Nat
    BY <2>3, KeptTypes
  <2>8. Evict(s) = [pq |-> t, cache |-> KeysOf(t), nbytes |-> Bytes(t)]
    BY <1>1, <2>2, <2>4
  <2>9. Bares(t) \subseteq Bares(q)
    BY <1>1, <2>3
  <2> HIDE DEF r, t
  <2>10. \E h \in Seq(Entry) :
            /\ IsHeap(h) /\ Bares(h) \subseteq Bares(q) /\ Overflows(Bytes(h))
            /\ \E i \in 1..Len(h) : Bares(t) = Bares(h) \ {Bare(h[i])}
    BY <1>1, <2>6 DEF r
  <2> DEFINE x == Evict(s)
  <2>11. x.pq = t /\ x.cache = KeysOf(t) /\ x.nbytes = Bytes(t)
         /\ x \in [pq : Seq(Entry), cache : SUBSET Keys, nbytes : Nat]
    BY <2>7, <2>8
  <2> HIDE DEF x
  <2>12. x \in EvictStates(q)
    BY <2>3, <2>5, <2>9, <2>10, <2>11 DEF EvictStates, Kept
  <2>13. QED BY <1>3, <2>3, <2>11, <2>12 DEF x, r
<1>4. QED BY <1>2, <1>3

(* The loop of Put evicts the least entries, and no more of them than have *)
(* to go; it ends before the heap is empty or with an empty one.           *)
LEMMA ShrinkEffect ==
    ASSUME NEW q, IsHeap(q)
    PROVE  /\ Shrink(q, KeysOf(q), Bytes(q)) \in EvictStates(q)
           /\ ~Overflows(Shrink(q, KeysOf(q), Bytes(q)).nbytes)
<1> DEFINE m == Len(q)
           b == [pq |-> q, cache |-> KeysOf(q), nbytes |-> Bytes(q)]
           Body(f) == [i \in 0..m |-> IF i = 0 THEN b ELSE Evict(f[i - 1])]
           turn == CHOOSE f : f = Body(f)
           S == EvictStates(q)
           g == [x \in S \X (1..m) |-> Evict(x[1])]
<1>1. Shrink(q, KeysOf(q), Bytes(q)) = turn[m]
    BY DEF Shrink
<1>2. m \in Nat
    BY KeptTypes
<1>3. b \in S /\ b.pq = q
    BY KeptTypes DEF EvictStates, Kept
<1>4. \A s \in S : /\ Evict(s) \in S
                   /\ ~Overflows(s.nbytes) => Evict(s) = s
                   /\ Overflows(s.nbytes) => Len(Evict(s).pq) = Len(s.pq) - 1
    BY EvictStep
<1>5. \A s \in S : /\ Len(s.pq) \in Nat
                   /\ Overflows(s.nbytes) => Len(s.pq) # 0
  <2> SUFFICES ASSUME NEW s \in S
               PROVE  Len(s.pq) \in Nat /\ (Overflows(s.nbytes) => Len(s.pq) # 0)
    OBVIOUS
  <2>1. IsHeap(s.pq) /\ s.nbytes = Bytes(s.pq) /\ s.pq \in Seq(Entry)
    BY DEF EvictStates, Kept
  <2>2. Len(s.pq) \in Nat
    BY <2>1, KeptTypes
  <2>3. Overflows(s.nbytes) => s.pq # << >>
    BY <2>1, EmptyFits
  <2>4. QED BY <2>1, <2>2, <2>3, EmptySeq
<1> HIDE DEF b, S, turn
<1>6. g \in [S \X (1..m) -> S] /\ \A s \in S, i \in 1..m : g[<<s, i>>] = Evict(s)
    BY <1>4
<1> HIDE DEF g, m
<1>7. \E f : f = Body(f)
  <2>1. PICK f : IsLoop(f, m, S, b, g)
    BY <1>2, <1>3, <1>6, LoopExists, Zenon
  <2>2. ASSUME NEW i \in 0..m PROVE f[i] = IF i = 0 THEN b ELSE Evict(f[i - 1])
    <3>1. i # 0 => i \in 1..m /\ i - 1 \in 0..m
        BY <1>2
    <3>2. QED BY <1>6, <2>1, <3>1 DEF IsLoop
  <2>3. f = Body(f)
    BY <2>1, <2>2 DEF IsLoop
  <2>4. QED BY <2>3
<1>8. turn = Body(turn)
    BY <1>7 DEF turn
<1>9. turn[0] = b /\ \A i \in 0..m : i # 0 => turn[i] = Evict(turn[i - 1])
    BY <1>2, <1>8
<1> DEFINE T == {i \in 0..m : /\ turn[i] \in S
                              /\ Overflows(turn[i].nbytes) => Len(turn[i].pq) + i <= m}
<1>10. 0 \in T
    BY <1>2, <1>3, <1>9 DEF m
<1>11. ASSUME NEW i \in 0..m, i + 1 \in 0..m, i \in T PROVE i + 1 \in T
  <2> DEFINE s == turn[i]
             t == turn[i + 1]
  <2>1. t = Evict(s)
    <3>1. i + 1 # 0 /\ (i + 1) - 1 = i
        BY <1>2
    <3>2. QED BY <1>9, <1>11, <3>1
  <2>2. s \in S /\ (Overflows(s.nbytes) => Len(s.pq) + i <= m)
    BY <1>11
  <2> HIDE DEF s, t
  <2>3. t \in S
    BY <1>4, <2>1, <2>2
  <2>4. CASE ~Overflows(s.nbytes)
    <3>1. t = s
        BY <1>4, <2>1, <2>2, <2>4
    <3>2. QED BY <1>11, <2>3, <2>4, <3>1 DEF t
  <2>5. CASE Overflows(s.nbytes)
    <3> DEFINE x == Len(s.pq)
               y == Len(t.pq)
    <3>1. y = x - 1 /\ x + i <= m
        BY <1>4, <2>1, <2>2, <2>5
    <3>2. x \in Nat /\ y \in Nat
        BY <1>5, <2>2, <2>3
    <3> HIDE DEF x, y
    <3>3. y + (i + 1) <= m
        BY <1>2, <3>1, <3>2
    <3>4. QED BY <1>11, <2>3, <3>3 DEF t, y
  <2>6. QED BY <2>4, <2>5
<1> HIDE DEF T
<1>12. m \in T
  <2>1. 0..m \subseteq T
    BY <1>2, <1>10, <1>11, IntervalInduction
  <2>2. QED BY <1>2, <2>1
<1> DEFINE s == turn[m]
<1>13. s \in S /\ (Overflows(s.nbytes) => Len(s.pq) + m <= m)
    BY <1>12 DEF T
<1> HIDE DEF s
<1>14. ~Overflows(s.nbytes)
    BY <1>2, <1>5, <1>13
<1>15. QED BY <1>1, <1>13, <1>14 DEF s, S

-----------------------------------------------------------------------------
(* The order of the heap, as LfuCache states it.                           *)
LEMMA OrderedIs ==
    ASSUME NEW q, Sound(q)
    PROVE  Ordered(q, Len(q)) <=> \A i \in 2..Len(q) : ~Less(q[i], q[Parent(i)])
<1>1. Len(q) \in Nat
    BY LenProperties DEF Sound
<1>2. ASSUME NEW i \in 2..Len(q)
      PROVE  Rank(q[Parent(i)]) <= Rank(q[i]) <=> ~Less(q[i], q[Parent(i)])
  <2>1. i \in 1..Len(q) /\ Parent(i) \in 1..Len(q)
    BY <1>1, ParentIs
  <2>2. /\ Rank(q[i]) \in Nat /\ Rank(q[Parent(i)]) \in Nat
        /\ Less(q[i], q[Parent(i)]) <=> Rank(q[i]) < Rank(q[Parent(i)])
    BY <2>1, RanksNat
  <2>3. QED BY <2>2
<1>3. QED BY <1>2 DEF Ordered

(* The invariant: what TypeOK, Coherent, HeapOrdered and BytesAccounted    *)
(* say together.                                                           *)
Inv == TypeOK /\ Coherent /\ HeapOrdered /\ BytesAccounted

LEMMA InvKept ==
    ASSUME Inv
    PROVE  Kept(pq, cache, nbytes) /\ ~Overflows(nbytes)
<1>1. pq \in Seq(Entry) /\ DOMAIN pq = 1..Len(pq)
    BY LenProperties DEF Inv, TypeOK
<1>2. Sound(pq) /\ cache = KeysOf(pq)
    BY <1>1 DEF Inv, Coherent, Sound, Indexed, KeysDiffer
<1>3. Ordered(pq, Len(pq))
    BY <1>2, OrderedIs DEF Inv, HeapOrdered
<1>4. QED BY <1>2, <1>3 DEF Inv, BytesAccounted, Kept, IsHeap, Bytes

LEMMA KeptInv ==
    ASSUME Kept(pq', cache', nbytes'), ~Overflows(nbytes'), now' \in 0..MaxTime,
           panicked' \in BOOLEAN, latest' \in [Keys -> Values \cup {None}]
    PROVE  Inv'
<1> DEFINE q == pq'
<1>1. IsHeap(q) /\ cache' = KeysOf(q) /\ nbytes' = Bytes(q)
    BY DEF Kept
<1>2. /\ q \in Seq(Entry) /\ DOMAIN q = 1..Len(q) /\ KeysDiffer(q) /\ Indexed(q)
      /\ KeysOf(q) \subseteq Keys /\ Bytes(q) \in Nat
    BY <1>1, KeptTypes
<1>3. \A i \in 2..Len(q) : ~Less(q[i], q[Parent(i)])
    BY <1>1, OrderedIs DEF IsHeap
<1>4. TypeOK'
    BY <1>1, <1>2 DEF TypeOK
<1>5. Coherent'
    BY <1>1, <1>2 DEF Coherent, Indexed, KeysDiffer
<1>6. HeapOrdered'
    BY <1>3 DEF HeapOrdered
<1>7. BytesAccounted'
    BY <1>1 DEF BytesAccounted, Bytes
<1>8. QED BY <1>4, <1>5, <1>6, <1>7 DEF Inv

(* The difference in length is what the new value adds.                    *)
LEMMA Recount ==
    ASSUME NEW k \in Keys, NEW v \in Values, NEW w \in Values,
           NEW b \in Nat, NEW n, n = b + Cost(k, w)
    PROVE  b + Cost(k, v) = n + ValueLen[v] - ValueLen[w]
<1> DEFINE x == KeyLen[k]
           y == ValueLen[v]
           z == ValueLen[w]
           o == LfuOverhead
<1>1. x \in Nat /\ y \in Nat /\ z \in Nat /\ o \in Nat
    BY CacheConstants
<1>2. n = b + (x + z + o) /\ Cost(k, v) = x + y + o
    BY DEF Cost
<1> HIDE DEF x, y, z, o
<1>3. b + (x + y + o) = n + y - z
    BY <1>1, <1>2
<1>4. QED BY <1>2, <1>3 DEF y, z

(* An entry updated in its place may be too high or too low there.         *)
LEMMA ReplacedReady ==
    ASSUME NEW q, IsHeap(q), NEW a \in 1..Len(q),
           NEW e \in Entry, e.key = q[a].key, e.index = a - 1
    PROVE  /\ Sound([q EXCEPT ![a] = e]) /\ Len([q EXCEPT ![a] = e]) = Len(q)
           /\ \A i \in 1..Len(q) : [q EXCEPT ![a] = e][i] = IF i = a THEN e ELSE q[i]
           /\ FixReady([q EXCEPT ![a] = e], a, Len(q))
<1> DEFINE s == [q EXCEPT ![a] = e]
           n == Len(q)
<1>1. /\ q \in Seq(Entry) /\ n \in Nat /\ KeysDiffer(q) /\ Indexed(q)
    BY KeptTypes
<1>2. /\ s \in Seq(Entry) /\ Len(s) = n
      /\ \A i \in 1..n : s[i] = IF i = a THEN e ELSE q[i]
    BY <1>1, ExceptSeq
<1>3. KeysDiffer(s)
    BY <1>1, ReplaceKeys
<1> HIDE DEF s
<1>4. Sound(s)
    BY <1>1, <1>2, <1>3 DEF Sound, Indexed
<1>5. ASSUME NEW i \in 2..n
      PROVE  /\ i # a /\ Parent(i) # a => Rank(s[Parent(i)]) <= Rank(s[i])
             /\ a > 1 /\ Parent(i) = a => Rank(s[Parent(a)]) <= Rank(s[i])
  <2>1. i \in 1..n /\ Parent(i) \in 1..n /\ Parent(i) < i
    BY <1>1, ParentIs
  <2>2. Rank(q[Parent(i)]) <= Rank(q[i])
    BY DEF IsHeap, Ordered
  <2>3. i # a /\ Parent(i) # a => Rank(s[Parent(i)]) <= Rank(s[i])
    BY <1>2, <2>1, <2>2
  <2>4. ASSUME a > 1, Parent(i) = a PROVE Rank(s[Parent(a)]) <= Rank(s[i])
    <3>1. a \in 2..n /\ Parent(a) \in 1..n /\ Parent(a) < a /\ i # a
        BY <1>1, <2>1, <2>4, ParentIs
    <3>2. Rank(q[Parent(a)]) <= Rank(q[a]) /\ Rank(q[a]) <= Rank(q[i])
        BY <2>2, <2>4, <3>1 DEF IsHeap, Ordered
    <3>3. Rank(q[Parent(a)]) \in Nat /\ Rank(q[a]) \in Nat /\ Rank(q[i]) \in Nat
        BY <2>1, <3>1, RanksNat DEF IsHeap
    <3>4. s[Parent(a)] = q[Parent(a)] /\ s[i] = q[i]
      <4>1. Parent(a) # a
        BY <3>1
      <4>2. QED BY <1>2, <2>1, <3>1, <4>1
    <3>5. QED BY <3>2, <3>3, <3>4
  <2>5. QED BY <2>3, <2>4
<1>6. QED BY <1>2, <1>4, <1>5 DEF FixReady, s, n

-----------------------------------------------------------------------------
(* l is the heap with v for k; the entries of other keys are as they were. *)
Filled(k, v, l) ==
    /\ IsHeap(l) /\ KeysOf(l) = cache \cup {k}
    /\ ContentsOf(l) = [ContentsOf(pq) EXCEPT ![k] = v]
    /\ \A i \in 1..Len(pq) : pq[i].key # k => Bare(pq[i]) \in Bares(l)

(* Referring to a key: heap.Fix finds its entry by the index field.        *)
LEMMA ReferEffect ==
    ASSUME Inv, NEW k \in Keys, k \in cache, EntryOf(k).count < MaxCount, NEW v \in Values
    PROVE  /\ EntryOf(k).value \in Values /\ ContentsOf(pq)[k] = EntryOf(k).value
           /\ Filled(k, v, Refer(k, v))
           /\ Bytes(Refer(k, v)) = nbytes + ValueLen[v] - ValueLen[EntryOf(k).value]
<1> DEFINE p == PositionOf(k, pq)
           d == EntryOf(k)
           e == Referenced([EntryOf(k) EXCEPT !.value = v])
           s == [pq EXCEPT ![p] = e]
           l == HeapFix(s, p)
<1>1. /\ IsHeap(pq) /\ cache = KeysOf(pq) /\ nbytes = Bytes(pq)
      /\ pq \in Seq(Entry) /\ KeysDiffer(pq) /\ Len(pq) \in Nat
      /\ \A i \in 1..Len(pq) : pq[i].index = i - 1 /\ pq[i] \in Entry
    BY InvKept, KeptTypes DEF Kept, Indexed
<1>2. p \in 1..Len(pq) /\ pq[p].key = k /\ d = pq[p] /\ d \in Entry
    BY <1>1, PositionFound DEF EntryOf
<1>3. d.value \in Values /\ d.count \in 1..MaxCount /\ d.count + 1 \in 1..MaxCount
  <2>1. d.count \in 1..MaxCount /\ MaxCount \in Nat /\ d.count < MaxCount /\ d.value \in Values
    BY <1>2, CacheConstants DEF Entry
  <2>2. QED BY <2>1
<1>4. e \in Entry /\ e.key = k /\ e.value = v /\ e.index = p - 1 /\ e.index + 1 = p
  <2>1. now \in 0..MaxTime
    BY DEF Inv, TypeOK
  <2>2. d.index = p - 1 /\ d.key = k
    BY <1>1, <1>2
  <2>3. e = [d EXCEPT !.value = v, !.count = d.count + 1, !.at = now]
    BY <1>2 DEF Referenced, Entry
  <2>4. e \in Entry /\ e.key = d.key /\ e.value = v /\ e.index = d.index
    BY <1>2, <1>3, <2>1, <2>3 DEF Entry
  <2>5. QED BY <1>1, <1>2, <2>2, <2>4
<1>5. Refer(k, v) = l
    BY <1>4 DEF Refer
<1> HIDE DEF e, p, d
<1>6. /\ Sound(s) /\ Len(s) = Len(pq) /\ FixReady(s, p, Len(pq))
      /\ \A i \in 1..Len(pq) : s[i] = IF i = p THEN e ELSE pq[i]
    BY <1>1, <1>2, <1>4, ReplacedReady
<1>7. KeysOf(s) = KeysOf(pq)
    BY <1>1, <1>2, <1>4, ReplaceKeys
<1>8. Bytes(s) = nbytes + ValueLen[v] - ValueLen[d.value]
  <2> DEFINE r == RemoveAt(pq, p)
  <2>1. r \in Seq(Entry)
    BY <1>1, <1>2, RemoveAtProperties
  <2>2. Bytes(pq) = Bytes(r) + CostOf(d, LfuOverhead)
    BY <1>1, <1>2, BytesRemoveAt, EntriesPriced DEF Bytes
  <2>3. Bytes(s) = Bytes(r) + CostOf(e, LfuOverhead)
    <3>1. Priced(Entry) /\ LfuOverhead \in Nat
        BY EntriesPriced
    <3>2. BytesOf(s, LfuOverhead) = BytesOf(r, LfuOverhead) + CostOf(e, LfuOverhead)
        BY <1>1, <1>2, <1>4, <3>1, BytesReplace
    <3>3. QED BY <3>2 DEF Bytes
  <2>4. CostOf(d, LfuOverhead) = Cost(k, d.value) /\ CostOf(e, LfuOverhead) = Cost(k, v)
    BY <1>2, <1>4, EntriesPriced
  <2> HIDE DEF r, s
  <2>5. Bytes(r) \in Nat
    BY <2>1, BytesType, EntriesPriced DEF Bytes
  <2>6. Bytes(r) + Cost(k, v) = nbytes + ValueLen[v] - ValueLen[d.value]
    BY <1>1, <1>3, <2>2, <2>4, <2>5, Recount
  <2>7. QED BY <2>3, <2>4, <2>6
<1> HIDE DEF s
<1>9. ContentsOf(s) = [ContentsOf(pq) EXCEPT ![k] = v]
  <2>1. \A i \in 1..Len(s) : \/ s[i].key = k /\ s[i].value = v
                             \/ s[i].key # k /\ \E j \in 1..Len(pq) : s[i] = pq[j]
    <3> SUFFICES ASSUME NEW i \in 1..Len(pq)
                 PROVE  \/ s[i].key = k /\ s[i].value = v
                        \/ s[i].key # k /\ \E j \in 1..Len(pq) : s[i] = pq[j]
        BY <1>6
    <3>1. CASE i = p
        BY <1>4, <1>6, <3>1
    <3>2. CASE i # p
      <4>1. s[i] = pq[i]
        BY <1>6, <3>2
      <4>2. DOMAIN pq = 1..Len(pq)
        BY <1>1, LenProperties
      <4>3. s[i].key # k
        BY <1>1, <1>2, <3>2, <4>1, <4>2 DEF KeysDiffer
      <4>4. QED BY <4>1, <4>3
    <3>3. QED BY <3>1, <3>2
  <2>2. KeysOf(s) = KeysOf(pq) \cup {k}
    BY <1>1, <1>7
  <2>3. QED BY <1>1, <1>6, <2>1, <2>2, ContentsWith, EntriesPriced DEF Sound
<1>10. IsHeap(l) /\ Bares(l) = Bares(s)
    BY <1>2, <1>6, HeapFixEffect
<1> HIDE DEF l
<1>11. KeysOf(l) = KeysOf(s) /\ ContentsOf(l) = ContentsOf(s) /\ Bytes(l) = Bytes(s)
    BY <1>6, <1>10, SameBares DEF IsHeap, Sound
<1>12. ASSUME NEW i \in 1..Len(pq), pq[i].key # k PROVE Bare(pq[i]) \in Bares(l)
  <2>1. i # p
    BY <1>2, <1>12
  <2>2. s[i] = pq[i]
    BY <1>6, <2>1
  <2>3. Bare(s[i]) \in Bares(s)
    BY <1>6 DEF Bares
  <2>4. QED BY <1>10, <2>2, <2>3
<1>13. Filled(k, v, l)
  <2>1. KeysOf(l) = cache \cup {k}
    BY <1>1, <1>7, <1>11
  <2>2. QED BY <1>9, <1>10, <1>11, <1>12, <2>1 DEF Filled
<1>14. ContentsOf(pq)[k] = d.value
    BY <1>1, <1>2, ContentsAt, EntriesPriced
<1>15. QED BY <1>3, <1>5, <1>8, <1>11, <1>13, <1>14 DEF d

(* A new key: pushed at the end of the heap.                               *)
LEMMA PushEffect ==
    ASSUME Inv, NEW k \in Keys, k \notin cache, NEW v \in Values
    PROVE  /\ Filled(k, v, HeapPush(pq, Fresh(k, v)))
           /\ Bytes(HeapPush(pq, Fresh(k, v))) = nbytes + Cost(k, v)
<1> DEFINE e == Fresh(k, v)
           s == Append(pq, e)
           l == HeapPush(pq, e)
<1>1. /\ IsHeap(pq) /\ cache = KeysOf(pq) /\ nbytes = Bytes(pq)
      /\ pq \in Seq(Entry) /\ KeysDiffer(pq) /\ Len(pq) \in Nat
    BY InvKept, KeptTypes DEF Kept
<1>2. e \in Entry /\ e.key = k /\ e.value = v
  <2>1. now \in 0..MaxTime /\ 1 \in 1..MaxCount
    BY CacheConstants DEF Inv, TypeOK
  <2>2. QED BY <2>1 DEF Fresh, Entry
<1> HIDE DEF e
<1>3. IsHeap(l) /\ Bares(l) = Bares(pq) \cup {Bare(e)}
    BY <1>1, <1>2, HeapPushEffect
<1>4. /\ s \in Seq(Entry) /\ Len(s) = Len(pq) + 1 /\ s[Len(pq) + 1] = e
      /\ \A i \in 1..Len(pq) : s[i] = pq[i]
    BY <1>1, <1>2, AppendProperties
<1>5. KeysDiffer(s) /\ KeysOf(s) = KeysOf(pq) \cup {k}
    BY <1>1, <1>2, AppendKeys
<1>6. Bytes(s) = nbytes + Cost(k, v)
  <2>1. Bytes(s) = Bytes(pq) + CostOf(e, LfuOverhead)
    BY <1>1, <1>2, BytesAppend, EntriesPriced DEF Bytes
  <2>2. CostOf(e, LfuOverhead) = Cost(k, v)
    BY <1>2, EntriesPriced
  <2>3. QED BY <1>1, <2>1, <2>2
<1> HIDE DEF s, l
<1>7. \A i \in 1..Len(s) : i \in 1..Len(pq) \/ i = Len(pq) + 1
    BY <1>1, <1>4
<1>8. Bares(l) = Bares(s)
  <2>1. ASSUME NEW b \in Bares(s) PROVE b \in Bares(l)
    <3>1. PICK i \in 1..Len(s) : b = Bare(s[i])
        BY DEF Bares
    <3>2. CASE i \in 1..Len(pq)
        BY <1>3, <1>4, <3>1, <3>2 DEF Bares
    <3>3. CASE i = Len(pq) + 1
        BY <1>3, <1>4, <3>1, <3>3
    <3>4. QED BY <1>7, <3>2, <3>3
  <2>2. ASSUME NEW b \in Bares(pq) PROVE b \in Bares(s)
    <3>1. PICK i \in 1..Len(pq) : b = Bare(pq[i])
        BY DEF Bares
    <3>2. i \in 1..Len(s) /\ s[i] = pq[i]
        BY <1>1, <1>4
    <3>3. QED BY <3>1, <3>2 DEF Bares
  <2>3. Bare(e) \in Bares(s)
    <3>1. Len(pq) + 1 \in 1..Len(s)
        BY <1>1, <1>4
    <3>2. QED BY <1>4, <3>1 DEF Bares
  <2>4. QED BY <1>3, <2>1, <2>2, <2>3
<1>9. KeysOf(l) = KeysOf(s) /\ ContentsOf(l) = ContentsOf(s) /\ Bytes(l) = Bytes(s)
    BY <1>3, <1>4, <1>5, <1>8, SameBares DEF IsHeap, Sound
<1>10. ContentsOf(s) = [ContentsOf(pq) EXCEPT ![k] = v]
  <2>1. \A i \in 1..Len(s) : \/ s[i].key = k /\ s[i].value = v
                             \/ s[i].key # k /\ \E j \in 1..Len(pq) : s[i] = pq[j]
    <3> SUFFICES ASSUME NEW i \in 1..Len(s)
                 PROVE  \/ s[i].key = k /\ s[i].value = v
                        \/ s[i].key # k /\ \E j \in 1..Len(pq) : s[i] = pq[j]
        OBVIOUS
    <3>1. CASE i \in 1..Len(pq)
      <4>1. s[i] = pq[i] /\ DOMAIN pq = 1..Len(pq)
        BY <1>1, <1>4, <3>1, LenProperties
      <4>2. s[i].key # k
        BY <1>1, <3>1, <4>1 DEF KeysOf
      <4>3. QED BY <3>1, <4>1, <4>2
    <3>2. CASE i = Len(pq) + 1
        BY <1>2, <1>4, <3>2
    <3>3. QED BY <1>7, <3>1, <3>2
  <2>2. QED BY <1>1, <1>4, <1>5, <2>1, ContentsWith, EntriesPriced
<1>11. \A i \in 1..Len(pq) : Bare(pq[i]) \in Bares(l)
    BY <1>3 DEF Bares
<1>12. Filled(k, v, l)
  <2>1. KeysOf(l) = cache \cup {k}
    BY <1>1, <1>5, <1>9
  <2>2. QED BY <1>3, <1>9, <1>10, <1>11, <2>1 DEF Filled
<1>13. QED BY <1>6, <1>9, <1>12 DEF l, e

-----------------------------------------------------------------------------
(* Put, whichever way: the new value is filled in, then the loop runs with *)
(* a map and a count that belong to the heap.                              *)
LEMMA PutOutcome ==
    ASSUME Inv, NEW k \in Keys, NEW v \in Values, Put(k, v)
    PROVE  \E l, t : /\ Filled(k, v, l)
                     /\ t \in EvictStates(l) /\ ~Overflows(t.nbytes)
                     /\ pq' = t.pq /\ cache' = t.cache /\ nbytes' = t.nbytes
<1>1. ASSUME NEW l, Filled(k, v, l), Settle(l, KeysOf(l), Bytes(l))
      PROVE  \E t : /\ t \in EvictStates(l) /\ ~Overflows(t.nbytes)
                    /\ pq' = t.pq /\ cache' = t.cache /\ nbytes' = t.nbytes
  <2> DEFINE t == Shrink(l, KeysOf(l), Bytes(l))
  <2>1. t \in EvictStates(l) /\ ~Overflows(t.nbytes)
    BY <1>1, ShrinkEffect DEF Filled
  <2>2. pq' = t.pq /\ cache' = t.cache /\ nbytes' = t.nbytes
    BY <1>1 DEF Settle
  <2> HIDE DEF t
  <2>3. QED BY <2>1, <2>2
<1>2. CASE PutExisting(k, v)
  <2> DEFINE l == Refer(k, v)
  <2>1. /\ k \in cache /\ EntryOf(k).count < MaxCount
        /\ Settle(l, cache, nbytes + ValueLen[v] - ValueLen[EntryOf(k).value])
    BY <1>2 DEF PutExisting
  <2>2. Filled(k, v, l) /\ Bytes(l) = nbytes + ValueLen[v] - ValueLen[EntryOf(k).value]
    BY <2>1, ReferEffect
  <2>3. KeysOf(l) = cache
    BY <2>1, <2>2 DEF Filled
  <2>4. Settle(l, KeysOf(l), Bytes(l))
    BY <2>1, <2>2, <2>3
  <2> HIDE DEF l
  <2>5. QED BY <1>1, <2>2, <2>4
<1>3. CASE PutNew(k, v)
  <2> DEFINE l == HeapPush(pq, Fresh(k, v))
  <2>1. k \notin cache /\ Settle(l, cache \cup {k}, nbytes + Cost(k, v))
    BY <1>3 DEF PutNew
  <2>2. Filled(k, v, l) /\ Bytes(l) = nbytes + Cost(k, v)
    BY <2>1, PushEffect
  <2>3. KeysOf(l) = cache \cup {k}
    BY <2>2 DEF Filled
  <2>4. Settle(l, KeysOf(l), Bytes(l))
    BY <2>1, <2>2, <2>3
  <2> HIDE DEF l
  <2>5. QED BY <1>1, <2>2, <2>4
<1>4. QED BY <1>2, <1>3 DEF Put

(* What CleanUp has made of the heap after some slots: of those that it    *)
(* had, only expired entries are gone.                                     *)
CleanStates ==
    {s \in [ok : BOOLEAN, pq : Seq(Entry), cache : SUBSET Keys, nbytes : Nat] :
        /\ Kept(s.pq, s.cache, s.nbytes) /\ s.nbytes <= nbytes
        /\ Bares(s.pq) \subseteq Bares(pq)
        /\ \A d \in Bares(pq) \ Bares(s.pq) : Expired(d, now)}

LEMMA CleanSlotStep ==
    ASSUME nbytes \in Nat, NEW s \in CleanStates, NEW i \in Nat \ {0}
    PROVE  CleanSlot(s, i) \in CleanStates
<1>1. /\ s \in [ok : BOOLEAN, pq : Seq(Entry), cache : SUBSET Keys, nbytes : Nat]
      /\ IsHeap(s.pq) /\ s.cache = KeysOf(s.pq) /\ s.nbytes = Bytes(s.pq)
      /\ s.nbytes <= nbytes /\ Bares(s.pq) \subseteq Bares(pq)
      /\ \A d \in Bares(pq) \ Bares(s.pq) : Expired(d, now)
    BY DEF CleanStates, Kept
<1>2. CASE ~s.ok
    BY <1>2 DEF CleanSlot
<1>3. CASE s.ok /\ i > Len(s.pq)
  <2> DEFINE x == CleanSlot(s, i)
  <2>1. x = [s EXCEPT !.ok = FALSE]
    BY <1>3 DEF CleanSlot
  <2>2. /\ x \in [ok : BOOLEAN, pq : Seq(Entry), cache : SUBSET Keys, nbytes : Nat]
        /\ x.pq = s.pq /\ x.cache = s.cache /\ x.nbytes = s.nbytes
    BY <1>1, <2>1
  <2> HIDE DEF x
  <2>3. x \in CleanStates
    BY <1>1, <2>2 DEF CleanStates, Kept
  <2>4. QED BY <2>3 DEF x
<1>4. CASE s.ok /\ i <= Len(s.pq) /\ ~Expired(s.pq[i], now)
  <2>1. ~(i > Len(s.pq))
    BY <1>1, <1>4, LenProperties
  <2>2. CleanSlot(s, i) = s
    BY <1>4, <2>1 DEF CleanSlot
  <2>3. QED BY <2>2
<1>5. CASE s.ok /\ i <= Len(s.pq) /\ Expired(s.pq[i], now)
  <2> DEFINE q == s.pq
             e == q[i]
             t == HeapRemove(q, i)
             x == CleanSlot(s, i)
  <2>1. i \in 1..Len(q) /\ Len(q) \in Nat /\ ~(i > Len(q))
    BY <1>1, <1>5, LenProperties
  <2>2. e.index + 1 = i
    <3>1. e.index = i - 1
        BY <1>1, <2>1, KeptTypes DEF Indexed
    <3>2. QED BY <2>1, <3>1
  <2>3. x = [ok |-> TRUE, pq |-> t, cache |-> s.cache \ {e.key},
             nbytes |-> s.nbytes - Cost(e.key, e.value)]
    BY <1>5, <2>1, <2>2 DEF CleanSlot
  <2>4. IsHeap(t) /\ Bares(t) = Bares(q) \ {Bare(e)}
    BY <1>1, <2>1, HeapRemoveEffect
  <2>5. /\ KeysOf(t) = KeysOf(q) \ {e.key} /\ Bytes(t) = Bytes(q) - Cost(e.key, e.value)
        /\ Bytes(q) \in Nat /\ Bytes(t) \in Nat /\ Cost(e.key, e.value) \in Nat
    BY <1>1, <2>1, <2>4, OneEntryLess DEF IsHeap
  <2>6. t \in Seq(Entry) /\ KeysOf(t) \subseteq Keys
    BY <2>4, KeptTypes
  <2>7. x = [ok |-> TRUE, pq |-> t, cache |-> KeysOf(t), nbytes |-> Bytes(t)]
    BY <1>1, <2>3, <2>5
  <2>8. Bytes(t) <= nbytes
    <3> DEFINE a == Bytes(t)
               b == Bytes(q)
               c == Cost(e.key, e.value)
    <3>1. a = b - c /\ a \in Nat /\ b \in Nat /\ c \in Nat /\ b <= nbytes
        BY <1>1, <2>5
    <3> HIDE DEF a, b, c
    <3>2. a <= nbytes
        BY <3>1
    <3>3. QED BY <3>2 DEF a
  <2>9. Expired(Bare(e), now)
    <3>1. Expired(e, now) /\ Bare(e).at = e.at
        BY <1>5 DEF Bare
    <3>2. QED BY <3>1 DEF Expired
  <2>10. /\ Bares(t) \subseteq Bares(pq)
         /\ \A d \in Bares(pq) \ Bares(t) : Expired(d, now)
    BY <1>1, <2>4, <2>9
  <2> HIDE DEF x, t
  <2>11. /\ x \in [ok : BOOLEAN, pq : Seq(Entry), cache : SUBSET Keys, nbytes : Nat]
         /\ x.pq = t /\ x.cache = KeysOf(t) /\ x.nbytes = Bytes(t)
    BY <2>5, <2>6, <2>7
  <2>12. x \in CleanStates
    BY <2>4, <2>8, <2>10, <2>11 DEF CleanStates, Kept
  <2>13. QED BY <2>12 DEF x
<1>6. QED
  <2>1. s.ok \in BOOLEAN /\ Len(s.pq) \in Nat /\ i \in Nat
    BY <1>1, LenProperties
  <2>2. i > Len(s.pq) \/ i <= Len(s.pq)
    BY <2>1
  <2>3. QED BY <1>2, <1>3, <1>4, <1>5, <2>2

LEMMA CleanSlotsEffect ==
    ASSUME Inv
    PROVE  CleanSlots \in CleanStates
<1> DEFINE m == Len(pq)
           b == [ok |-> TRUE, pq |-> pq, cache |-> cache, nbytes |-> nbytes]
           Body(f) == [i \in 0..m |-> IF i = 0 THEN b ELSE CleanSlot(f[i - 1], i)]
           turn == CHOOSE f : f = Body(f)
           S == CleanStates
           g == [x \in S \X (1..m) |-> CleanSlot(x[1], x[2])]
<1>1. CleanSlots = turn[m]
    BY DEF CleanSlots
<1>2. m \in Nat /\ nbytes \in Nat /\ pq \in Seq(Entry) /\ cache \subseteq Keys
    BY LenProperties DEF Inv, TypeOK
<1>3. b \in S
    BY <1>2, InvKept DEF CleanStates
<1>4. \A s \in S, i \in 1..m : CleanSlot(s, i) \in S
  <2>1. \A i \in 1..m : i \in Nat \ {0}
    BY <1>2
  <2>2. QED BY <1>2, <2>1, CleanSlotStep
<1> HIDE DEF b, S, turn
<1>5. g \in [S \X (1..m) -> S] /\ \A s \in S, i \in 1..m : g[<<s, i>>] = CleanSlot(s, i)
    BY <1>4
<1> HIDE DEF g, m
<1>6. \E f : f = Body(f)
  <2>1. PICK f : IsLoop(f, m, S, b, g)
    BY <1>2, <1>3, <1>5, LoopExists, Zenon
  <2>2. ASSUME NEW i \in 0..m PROVE f[i] = IF i = 0 THEN b ELSE CleanSlot(f[i - 1], i)
    <3>1. i # 0 => i \in 1..m /\ i - 1 \in 0..m
        BY <1>2
    <3>2. QED BY <1>5, <2>1, <3>1 DEF IsLoop
  <2>3. f = Body(f)
    BY <2>1, <2>2 DEF IsLoop
  <2>4. QED BY <2>3
<1>7. turn = Body(turn)
    BY <1>6 DEF turn
<1>8. turn[0] = b /\ \A i \in 0..m : i # 0 => turn[i] = CleanSlot(turn[i - 1], i)
    BY <1>2, <1>7
<1> DEFINE T == {i \in 0..m : turn[i] \in S}
<1>9. 0 \in T
    BY <1>2, <1>3, <1>8
<1>10. ASSUME NEW i \in 0..m, i + 1 \in 0..m, i \in T PROVE i + 1 \in T
  <2>1. i + 1 # 0 /\ (i + 1) - 1 = i /\ i + 1 \in 1..m
    BY <1>2, <1>10
  <2>2. turn[i + 1] = CleanSlot(turn[i], i + 1)
    BY <1>8, <1>10, <2>1
  <2>3. QED BY <1>4, <1>10, <2>1, <2>2
<1> HIDE DEF T
<1>11. m \in T
  <2>1. 0..m \subseteq T
    BY <1>2, <1>9, <1>10, IntervalInduction
  <2>2. QED BY <1>2, <2>1
<1>12. QED BY <1>1, <1>11 DEF T, S

LEMMA CleanUpOutcome ==
    ASSUME Inv, CleanUp
    PROVE  \E t : /\ t \in CleanStates /\ ~Overflows(t.nbytes)
                  /\ pq' = t.pq /\ cache' = t.cache /\ nbytes' = t.nbytes
                  /\ panicked' = ~t.ok /\ UNCHANGED <<now, latest>>
<1> DEFINE t == CleanSlots
<1>1. t \in CleanStates
    BY CleanSlotsEffect
<1>2. /\ pq' = t.pq /\ cache' = t.cache /\ nbytes' = t.nbytes
      /\ panicked' = ~t.ok /\ UNCHANGED <<now, latest>>
    BY DEF CleanUp
<1> HIDE DEF t
<1>3. ~Overflows(t.nbytes)
  <2>1. t.nbytes \in Nat /\ t.nbytes <= nbytes /\ nbytes \in Nat /\ MaxBytes \in Nat
    BY <1>1, CacheConstants DEF CleanStates, Inv, TypeOK
  <2>2. ~Overflows(nbytes)
    BY InvKept
  <2>3. QED BY <2>1, <2>2 DEF Overflows
<1>4. QED BY <1>1, <1>2, <1>3

-----------------------------------------------------------------------------
(* The invariant holds of the empty heap,                                  *)
LEMMA InvInit == Init => Inv
<1> SUFFICES ASSUME Init PROVE Inv
    OBVIOUS
<1>1. /\ pq = << >> /\ cache = {} /\ nbytes = 0 /\ now = 0 /\ panicked = FALSE
      /\ latest = [k \in Keys |-> None]
    BY DEF Init
<1>2. BytesOf(<< >>, LfuOverhead) = 0
    BY BytesEmpty, EntriesPriced
<1>3. MaxBytes \in Nat /\ MaxTime \in Nat
    BY CacheConstants
<1>4. << >> \in Seq(Entry) /\ DOMAIN << >> = {} /\ Len(<< >>) = 0
    OBVIOUS
<1>5. TypeOK
  <2>1. pq \in Seq(Entry) /\ cache \subseteq Keys /\ panicked \in BOOLEAN
    BY <1>1, <1>4
  <2>2. nbytes \in Nat /\ now \in 0..MaxTime
    BY <1>1, <1>3
  <2>3. latest \in [Keys -> Values \cup {None}]
    BY <1>1
  <2>4. QED BY <2>1, <2>2, <2>3 DEF TypeOK
<1>6. Coherent
    BY <1>1, <1>4 DEF Coherent, KeysOf
<1>7. BytesAccounted
    BY <1>1, <1>2, <1>3 DEF BytesAccounted, Overflows
<1>8. HeapOrdered
    BY <1>1, <1>4 DEF HeapOrdered
<1>9. QED BY <1>5, <1>6, <1>7, <1>8 DEF Inv

(* after a hit, which refers to the key with the value it has,             *)
LEMMA GetOutcome ==
    ASSUME Inv, NEW k \in Keys, Get(k)
    PROVE  Inv' /\ ContentsOf(pq') = ContentsOf(pq) /\ UNCHANGED latest
<1> DEFINE v == EntryOf(k).value
           l == Refer(k, EntryOf(k).value)
<1>1. /\ k \in cache /\ EntryOf(k).count < MaxCount /\ pq' = l
      /\ UNCHANGED <<cache, nbytes, now, panicked, latest>>
    BY DEF Get
<1>2. v \in Values /\ ContentsOf(pq)[k] = v
  <2>1. \E w : w \in Values
    <3>1. IsHeap(pq) /\ k \in KeysOf(pq)
        BY <1>1, InvKept DEF Kept
    <3>2. PICK i \in 1..Len(pq) : pq[i].key = k
        BY <3>1, KeptTypes DEF KeysOf
    <3>3. pq[i].value \in Values
        BY <3>1, KeptTypes DEF Entry
    <3>4. QED BY <3>3
  <2>2. QED BY <1>1, <2>1, ReferEffect
<1>3. Filled(k, v, l) /\ Bytes(l) = nbytes + ValueLen[v] - ValueLen[v]
    BY <1>1, <1>2, ReferEffect
<1> HIDE DEF l, v
<1>4. KeysOf(l) = cache /\ Bytes(l) = nbytes
  <2>1. ValueLen[v] \in Nat /\ nbytes \in Nat
    BY <1>2, CacheConstants DEF Inv, TypeOK
  <2> DEFINE y == ValueLen[v]
  <2>2. y \in Nat /\ nbytes \in Nat /\ Bytes(l) = nbytes + y - y
    BY <1>3, <2>1
  <2> HIDE DEF y
  <2>3. Bytes(l) = nbytes
    BY <2>2
  <2>4. QED BY <1>1, <1>3, <2>3 DEF Filled
<1>5. ContentsOf(l) = ContentsOf(pq)
  <2>1. ContentsOf(pq) = [j \in Keys |-> ContentsOf(pq)[j]]
    BY DEF ContentsOf
  <2>2. ContentsOf(l) = [ContentsOf(pq) EXCEPT ![k] = v]
    BY <1>3 DEF Filled
  <2>3. QED BY <1>2, <2>1, <2>2
<1>6. Inv'
  <2>1. Kept(pq', cache', nbytes') /\ ~Overflows(nbytes')
    BY <1>1, <1>3, <1>4, InvKept DEF Kept, Filled
  <2>2. now' \in 0..MaxTime /\ panicked' \in BOOLEAN /\ latest' \in [Keys -> Values \cup {None}]
    BY <1>1 DEF Inv, TypeOK
  <2>3. QED BY <2>1, <2>2, KeptInv
<1>7. QED BY <1>1, <1>5, <1>6

(* after any step.  The strengthening is mutual: heap.Fix and heap.Remove  *)
(* mend the order because the index fields lead them to the one entry out  *)
(* of place, a removal subtracts what was counted because map and heap     *)
(* agree, and the loops stop because the count is that of the heap.        *)
LEMMA InvNext == Inv /\ [Next]_vars => Inv'
<1> SUFFICES ASSUME Inv, [Next]_vars PROVE Inv'
    OBVIOUS
<1>0. /\ now \in 0..MaxTime /\ panicked \in BOOLEAN
      /\ latest \in [Keys -> Values \cup {None}]
    BY DEF Inv, TypeOK
<1>1. ASSUME NEW k \in Keys, Get(k) PROVE Inv'
    BY <1>1, GetOutcome
<1>2. ASSUME NEW k \in Keys, NEW v \in Values, Put(k, v) PROVE Inv'
  <2>1. PICK l, t : /\ Filled(k, v, l)
                    /\ t \in EvictStates(l) /\ ~Overflows(t.nbytes)
                    /\ pq' = t.pq /\ cache' = t.cache /\ nbytes' = t.nbytes
    BY <1>2, PutOutcome
  <2>2. Kept(pq', cache', nbytes') /\ ~Overflows(nbytes')
    BY <2>1 DEF EvictStates
  <2>3. /\ now' \in 0..MaxTime /\ panicked' \in BOOLEAN
        /\ latest' \in [Keys -> Values \cup {None}]
    BY <1>0, <1>2 DEF Put
  <2>4. QED BY <2>2, <2>3, KeptInv
<1>3. CASE CleanUp
  <2>1. PICK t : /\ t \in CleanStates /\ ~Overflows(t.nbytes)
                 /\ pq' = t.pq /\ cache' = t.cache /\ nbytes' = t.nbytes
                 /\ panicked' = ~t.ok /\ UNCHANGED <<now, latest>>
    BY <1>3, CleanUpOutcome
  <2>2. Kept(pq', cache', nbytes') /\ ~Overflows(nbytes') /\ t.ok \in BOOLEAN
    BY <2>1 DEF CleanStates
  <2>3. QED BY <1>0, <2>1, <2>2, KeptInv
<1>4. CASE Tick
  <2>1. now' \in 0..MaxTime /\ UNCHANGED <<pq, cache, nbytes, panicked, latest>>
    BY <1>0, <1>4, CacheConstants DEF Tick
  <2>2. QED BY <2>1 DEF Inv, TypeOK, Coherent, BytesAccounted, HeapOrdered
<1>5. CASE UNCHANGED vars
    BY <1>5 DEF vars, Inv, TypeOK, Coherent, BytesAccounted, HeapOrdered
<1>6. QED BY <1>1, <1>2, <1>3, <1>4, <1>5 DEF Next

(* Type correctness.                                                       *)
THEOREM LfuTypeCorrect == Spec => []TypeOK
<1>1. Inv => TypeOK
    BY DEF Inv
<1>2. QED BY <1>1, InvInit, InvNext, PTL DEF Spec

(* In the lfu, through any Gets, Puts with their evictions, and CleanUps:  *)
(* map, heap and index fields agree.                                       *)
THEOREM LfuAlwaysCoherent == Spec => []Coherent
<1>1. Inv => Coherent
    BY DEF Inv
<1>2. QED BY <1>1, InvInit, InvNext, PTL DEF Spec

(* The heap is always in order: every sifting ends where the entry belongs.*)
THEOREM LfuAlwaysOrdered == Spec => []HeapOrdered
<1>1. Inv => HeapOrdered
    BY DEF Inv
<1>2. QED BY <1>1, InvInit, InvNext, PTL DEF Spec

(* nbytes is what the entries of the heap cost, and within the budget.     *)
THEOREM LfuAlwaysAccounted == Spec => []BytesAccounted
<1>1. Inv => BytesAccounted
    BY DEF Inv
<1>2. QED BY <1>1, InvInit, InvNext, PTL DEF Spec

-----------------------------------------------------------------------------
(* The loop of Put, on a heap q with a count n: it takes no more turns     *)
(* than there are entries.                                                 *)
LoopEnds(q, keys, n) == ~Overflows(Shrink(q, keys, n).nbytes)

PutLoopEnds ==
    \A k \in Keys, v \in Values :
        /\ k \notin cache =>
              LoopEnds(HeapPush(pq, Fresh(k, v)), cache \cup {k}, nbytes + Cost(k, v))
        /\ k \in cache /\ EntryOf(k).count < MaxCount =>
              LoopEnds(Refer(k, v), cache, nbytes + ValueLen[v] - ValueLen[EntryOf(k).value])

(* The loop of Put, which tests the count and not the heap, ends: it never *)
(* goes on with an empty heap, holding the lock.                           *)
THEOREM LfuPutAlwaysEnds == Spec => []PutLoopEnds
<1>1. Inv => PutLoopEnds
  <2> SUFFICES ASSUME Inv, NEW k \in Keys, NEW v \in Values
               PROVE  /\ k \notin cache =>
                            LoopEnds(HeapPush(pq, Fresh(k, v)), cache \cup {k},
                                     nbytes + Cost(k, v))
                      /\ k \in cache /\ EntryOf(k).count < MaxCount =>
                            LoopEnds(Refer(k, v), cache,
                                     nbytes + ValueLen[v] - ValueLen[EntryOf(k).value])
    BY DEF PutLoopEnds
  <2>1. ASSUME k \notin cache
        PROVE  LoopEnds(HeapPush(pq, Fresh(k, v)), cache \cup {k}, nbytes + Cost(k, v))
    <3> DEFINE l == HeapPush(pq, Fresh(k, v))
    <3>1. IsHeap(l) /\ KeysOf(l) = cache \cup {k} /\ Bytes(l) = nbytes + Cost(k, v)
        BY <2>1, PushEffect DEF Filled
    <3> HIDE DEF l
    <3>2. ~Overflows(Shrink(l, KeysOf(l), Bytes(l)).nbytes)
        BY <3>1, ShrinkEffect
    <3>3. QED BY <3>1, <3>2 DEF LoopEnds, l
  <2>2. ASSUME k \in cache, EntryOf(k).count < MaxCount
        PROVE  LoopEnds(Refer(k, v), cache,
                        nbytes + ValueLen[v] - ValueLen[EntryOf(k).value])
    <3> DEFINE l == Refer(k, v)
               n == nbytes + ValueLen[v] - ValueLen[EntryOf(k).value]
    <3>1. Filled(k, v, l) /\ Bytes(l) = n
        BY <2>2, ReferEffect
    <3>2. IsHeap(l) /\ KeysOf(l) = cache
        BY <2>2, <3>1 DEF Filled
    <3> HIDE DEF l, n
    <3>3. ~Overflows(Shrink(l, KeysOf(l), Bytes(l)).nbytes)
        BY <3>2, ShrinkEffect
    <3>4. QED BY <3>1, <3>2, <3>3 DEF LoopEnds, l, n
  <2>3. QED BY <2>1, <2>2
<1>2. QED BY <1>1, InvInit, InvNext, PTL DEF Spec

-----------------------------------------------------------------------------
(* An entry that the loop of Put evicts was among those filled in, and no  *)
(* more often referenced, or later, than any that stays.                   *)
LEMMA InvEvictsLeastFrequent == Inv => EvictsLeastFrequent
<1> SUFFICES ASSUME Inv, NEW k \in Keys, NEW v \in Values, Put(k, v),
                    NEW i \in DOMAIN pq, NEW j \in DOMAIN pq',
                    pq[i].key \notin cache' \cup {k}
             PROVE  ~Less(pq'[j], pq[i])
    BY DEF EvictsLeastFrequent
<1>1. PICK l, t : /\ Filled(k, v, l)
                  /\ t \in EvictStates(l) /\ ~Overflows(t.nbytes)
                  /\ pq' = t.pq /\ cache' = t.cache /\ nbytes' = t.nbytes
    BY PutOutcome
<1> DEFINE r == t.pq
           d == pq[i]
           e == r[j]
<1>2. /\ IsHeap(r) /\ cache' = KeysOf(r)
      /\ \A x \in Bares(l) \ Bares(r), y \in Bares(r) : Rank(x) <= Rank(y)
    BY <1>1 DEF EvictStates, Kept
<1>3. IsHeap(pq) /\ i \in 1..Len(pq) /\ d \in Entry /\ d.key \notin KeysOf(r) \cup {k}
    BY <1>2, InvKept, KeptTypes DEF Kept
<1>4. j \in DOMAIN r /\ r \in Seq(Entry) /\ j \in 1..Len(r) /\ e \in Entry
    BY <1>1, <1>2, KeptTypes
<1> HIDE DEF d, e
<1>5. Bare(d) \in Bares(l)
    BY <1>1, <1>3 DEF Filled, d
<1>6. Bare(d) \notin Bares(r)
  <2>1. Bare(d).key = d.key
    BY DEF Bare
  <2>2. KeysOf(r) = {b.key : b \in Bares(r)}
    BY <1>4, KeysOfBares
  <2>3. QED BY <1>3, <2>1, <2>2
<1>7. Bare(e) \in Bares(r)
    BY <1>4 DEF Bares, e
<1>8. Rank(d) <= Rank(e)
  <2>1. Rank(Bare(d)) <= Rank(Bare(e))
    BY <1>2, <1>5, <1>6, <1>7
  <2>2. Rank(Bare(d)) = Rank(d) /\ Rank(Bare(e)) = Rank(e)
    BY DEF Rank, Bare
  <2>3. QED BY <2>1, <2>2
<1>9. ~Less(e, d)
  <2>1. Rank(d) \in Nat /\ Rank(e) \in Nat /\ (Less(e, d) <=> Rank(e) < Rank(d))
    BY <1>3, <1>4, LessIsRank
  <2>2. QED BY <1>8, <2>1
<1>10. QED BY <1>1, <1>9 DEF d, e

(* Least frequently used: a Put never evicts an entry that was referenced  *)
(* more often, or as often and later, than one that it keeps.              *)
THEOREM LfuAlwaysEvictsLeastFrequent == Spec => [][EvictsLeastFrequent]_vars
BY InvInit, InvNext, InvEvictsLeastFrequent, PTL DEF Spec

(* What CleanUp takes away had expired in the heap as it was.              *)
LEMMA InvCleanUpSparesFresh == Inv => CleanUpSparesFresh
<1> SUFFICES ASSUME Inv, CleanUp, NEW i \in DOMAIN pq
             PROVE  Expired(pq[i], now) \/ pq[i].key \in cache'
    BY DEF CleanUpSparesFresh
<1>1. PICK t : /\ t \in CleanStates /\ ~Overflows(t.nbytes)
               /\ pq' = t.pq /\ cache' = t.cache /\ nbytes' = t.nbytes
               /\ panicked' = ~t.ok /\ UNCHANGED <<now, latest>>
    BY CleanUpOutcome
<1>2. /\ t.pq \in Seq(Entry) /\ cache' = KeysOf(t.pq)
      /\ \A d \in Bares(pq) \ Bares(t.pq) : Expired(d, now)
    BY <1>1 DEF CleanStates, Kept
<1>3. i \in 1..Len(pq)
    BY InvKept, KeptTypes DEF Kept
<1>4. Bare(pq[i]) \in Bares(pq)
    BY <1>3 DEF Bares
<1>5. Bare(pq[i]).key = pq[i].key /\ Bare(pq[i]).at = pq[i].at
    BY DEF Bare
<1>6. CASE Bare(pq[i]) \in Bares(t.pq)
    BY <1>2, <1>5, <1>6, KeysOfBares
<1>7. CASE Bare(pq[i]) \notin Bares(t.pq)
  <2>1. Expired(Bare(pq[i]), now)
    BY <1>2, <1>4, <1>7
  <2>2. QED BY <1>5, <2>1 DEF Expired
<1>8. QED BY <1>6, <1>7

(* CleanUp ranges over slots while its removals move other entries into    *)
(* them, and never removes one that has not expired.                       *)
THEOREM LfuCleanUpAlwaysSparesFresh == Spec => [][CleanUpSparesFresh]_vars
BY InvInit, InvNext, InvCleanUpSparesFresh, PTL DEF Spec

-----------------------------------------------------------------------------
(* What CacheStrategy sums over the keys is what is counted.               *)
LEMMA UsedIsBytes ==
    ASSUME NEW q \in Seq(Entry), KeysDiffer(q)
    PROVE  Strategy!Used(ContentsOf(q)) = Bytes(q)
<1> DEFINE a == ContentsOf(q)
           S == {k \in Keys : a[k] # None}
<1>1. Strategy!Used(a) = (CHOOSE f : f = ValueSum(f, a, S, LfuOverhead))[S]
    BY DEF Strategy!Used, Strategy!MapThenSumSet, Strategy!MapThenFoldSet, Cost, ValueSum
<1>2. (CHOOSE f : f = ValueSum(f, a, S, LfuOverhead))[S] = BytesOf(q, LfuOverhead)
    BY EntriesPriced, ContentsSum
<1>3. QED BY <1>1, <1>2 DEF Bytes

(* A heap fits the abstract budget exactly if its count does not overflow. *)
LEMMA FitsAsCounted ==
    ASSUME NEW q, IsHeap(q)
    PROVE  Strategy!Fits(ContentsOf(q)) <=> ~Overflows(Bytes(q))
<1>1. Strategy!Used(ContentsOf(q)) = Bytes(q)
    BY KeptTypes, UsedIsBytes
<1>2. Bytes(q) \in Nat /\ MaxBytes \in Nat
    BY KeptTypes, CacheConstants
<1>3. QED BY <1>1, <1>2 DEF Strategy!Fits, Overflows

(* A heap with some of the entries of another has its contents without the *)
(* other keys.                                                             *)
LEMMA ContentsOfPart ==
    ASSUME NEW q, IsHeap(q), NEW r, IsHeap(r), Bares(q) \subseteq Bares(r)
    PROVE  /\ KeysOf(q) \subseteq KeysOf(r)
           /\ ContentsOf(q) = Strategy!Without(ContentsOf(r), KeysOf(r) \ KeysOf(q))
<1> DEFINE gone == KeysOf(r) \ KeysOf(q)
           c == Strategy!Without(ContentsOf(r), gone)
<1>1. q \in Seq(Entry) /\ KeysDiffer(q) /\ r \in Seq(Entry) /\ KeysDiffer(r)
    BY KeptTypes
<1>2. /\ KeysOf(q) \subseteq KeysOf(r)
      /\ \A k \in Keys : ContentsOf(q)[k] = IF k \in gone THEN None ELSE ContentsOf(r)[k]
    BY <1>1, ContentsOfBares
<1>3. c = [k \in Keys |-> IF k \in gone THEN None ELSE ContentsOf(r)[k]]
    BY DEF Strategy!Without
<1>4. ContentsOf(q) = [k \in Keys |-> ContentsOf(q)[k]]
    BY DEF ContentsOf
<1> HIDE DEF gone, c
<1>5. ContentsOf(q) = c
    BY <1>2, <1>3, <1>4
<1>6. QED BY <1>2, <1>5 DEF c, gone

(* The empty heap has the abstract initial contents.                       *)
LEMMA InitMaps == Init => Strategy!Init
<1> SUFFICES ASSUME Init PROVE Strategy!Init
    OBVIOUS
<1>1. pq = << >> /\ latest = [k \in Keys |-> None] /\ DOMAIN << >> = {}
    BY DEF Init
<1>2. ContentsOf(pq) = [k \in Keys |-> None]
    BY <1>1 DEF ContentsOf, KeysOf
<1>3. QED BY <1>1, <1>2 DEF Strategy!Init

(* The entries that the loop of Put pops are the evicted ones; before the  *)
(* last of them was popped the rest did not fit.                           *)
LEMMA PutMaps ==
    ASSUME Inv, NEW k \in Keys, NEW v \in Values, Put(k, v)
    PROVE  Strategy!Put(k, v)
<1>1. PICK l, t : /\ Filled(k, v, l)
                  /\ t \in EvictStates(l) /\ ~Overflows(t.nbytes)
                  /\ pq' = t.pq /\ cache' = t.cache /\ nbytes' = t.nbytes
    BY PutOutcome
<1> DEFINE r == t.pq
           evicted == KeysOf(l) \ KeysOf(r)
           filled == [ContentsOf(pq) EXCEPT ![k] = v]
<1>2. IsHeap(l) /\ ContentsOf(l) = filled
    BY <1>1 DEF Filled
<1>3. /\ IsHeap(r) /\ Bares(r) \subseteq Bares(l) /\ ~Overflows(Bytes(r))
      /\ \/ r = l
         \/ \E h \in Seq(Entry) :
               /\ IsHeap(h) /\ Bares(h) \subseteq Bares(l) /\ Overflows(Bytes(h))
               /\ \E i \in 1..Len(h) : Bares(r) = Bares(h) \ {Bare(h[i])}
    BY <1>1 DEF EvictStates, Kept
<1> HIDE DEF r
<1>4. ContentsOf(r) = Strategy!Without(filled, evicted)
  <2>1. ContentsOf(r) = Strategy!Without(ContentsOf(l), evicted)
    BY <1>2, <1>3, ContentsOfPart
  <2> HIDE DEF evicted, filled
  <2>2. QED BY <1>2, <2>1
<1>5. evicted \in SUBSET {j \in Keys : filled[j] # None}
  <2>1. KeysOf(l) = {j \in Keys : ContentsOf(l)[j] # None}
    BY <1>2, KeptTypes, ContentsAt, EntriesPriced
  <2>2. QED BY <1>2, <2>1
<1>6. Strategy!Fits(ContentsOf(r))
    BY <1>3, FitsAsCounted
<1>7. ASSUME evicted # {}
      PROVE  \E last \in evicted : ~Strategy!Fits(Strategy!Without(filled, evicted \ {last}))
  <2>1. PICK h \in Seq(Entry) :
            /\ IsHeap(h) /\ Bares(h) \subseteq Bares(l) /\ Overflows(Bytes(h))
            /\ \E i \in 1..Len(h) : Bares(r) = Bares(h) \ {Bare(h[i])}
    BY <1>3, <1>7
  <2>2. PICK i \in 1..Len(h) : Bares(r) = Bares(h) \ {Bare(h[i])}
    BY <2>1
  <2> DEFINE last == h[i].key
  <2>3. last \in KeysOf(h) /\ KeysOf(r) = KeysOf(h) \ {last}
    BY <1>3, <2>1, <2>2, OneEntryLess DEF IsHeap
  <2>4. /\ KeysOf(h) \subseteq KeysOf(l)
        /\ ContentsOf(h) = Strategy!Without(ContentsOf(l), KeysOf(l) \ KeysOf(h))
    BY <1>2, <2>1, ContentsOfPart
  <2> HIDE DEF last
  <2>5. last \in evicted /\ evicted \ {last} = KeysOf(l) \ KeysOf(h)
    BY <2>3, <2>4
  <2> HIDE DEF evicted, filled
  <2>6. ContentsOf(h) = Strategy!Without(filled, evicted \ {last})
    BY <1>2, <2>4, <2>5
  <2>7. ~Strategy!Fits(ContentsOf(h))
    BY <2>1, FitsAsCounted
  <2>8. QED BY <2>5, <2>6, <2>7
<1>8. latest' = [latest EXCEPT ![k] = v]
    BY DEF Put
<1>9. ContentsOf(pq)' = ContentsOf(r)
    BY <1>1 DEF ContentsOf, r
<1> HIDE DEF evicted
<1>10. QED BY <1>4, <1>5, <1>6, <1>7, <1>8, <1>9 DEF Strategy!Put

(* CleanUp removes some keys.                                              *)
LEMMA CleanUpMaps ==
    ASSUME Inv, CleanUp
    PROVE  Strategy!CleanUp
<1>1. PICK t : /\ t \in CleanStates /\ ~Overflows(t.nbytes)
               /\ pq' = t.pq /\ cache' = t.cache /\ nbytes' = t.nbytes
               /\ panicked' = ~t.ok /\ UNCHANGED <<now, latest>>
    BY CleanUpOutcome
<1>2. IsHeap(pq) /\ IsHeap(t.pq) /\ Bares(t.pq) \subseteq Bares(pq)
    BY <1>1, InvKept DEF CleanStates, Kept
<1> DEFINE gone == KeysOf(pq) \ KeysOf(t.pq)
<1>3. ContentsOf(t.pq) = Strategy!Without(ContentsOf(pq), gone)
    BY <1>2, ContentsOfPart
<1>4. gone \in SUBSET Keys
    BY <1>2, KeptTypes
<1>5. ContentsOf(pq)' = ContentsOf(t.pq)
    BY <1>1 DEF ContentsOf
<1> HIDE DEF gone
<1>6. QED BY <1>1, <1>3, <1>4, <1>5 DEF Strategy!CleanUp

(* Every step maps to a step of the abstract specification or a stutter.   *)
LEMMA NextMaps == Inv /\ [Next]_vars => [Strategy!Next]_(Strategy!vars)
<1> SUFFICES ASSUME Inv, [Next]_vars PROVE [Strategy!Next]_(Strategy!vars)
    OBVIOUS
<1>1. ASSUME NEW k \in Keys, Get(k) PROVE UNCHANGED Strategy!vars
  <2>1. ContentsOf(pq') = ContentsOf(pq) /\ latest' = latest
    BY <1>1, GetOutcome
  <2>2. ContentsOf(pq)' = ContentsOf(pq')
    BY DEF ContentsOf
  <2>3. QED BY <2>1, <2>2 DEF Strategy!vars
<1>2. ASSUME NEW k \in Keys, NEW v \in Values, Put(k, v) PROVE Strategy!Next
    BY <1>2, PutMaps DEF Strategy!Next
<1>3. CASE CleanUp
    BY <1>3, CleanUpMaps DEF Strategy!Next
<1>4. CASE Tick
    BY <1>4 DEF Tick, Strategy!vars, ContentsOf
<1>5. CASE UNCHANGED vars
    BY <1>5 DEF vars, Strategy!vars, ContentsOf
<1>6. QED BY <1>1, <1>2, <1>3, <1>4, <1>5 DEF Next

(* The lfu implements the cache strategy: what is kept for a key is what   *)
(* was put last, a Put evicts only what does not fit with the new value,   *)
(* and no more than is needed, and a Get changes nothing of it.            *)
THEOREM LfuImplementsStrategy == Spec => KeepsStrategy
BY InvInit, InvNext, InitMaps, NextMaps, PTL DEF Spec, KeepsStrategy, Strategy!Spec
=============================================================================
