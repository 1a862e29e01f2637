-------------------------- MODULE CacheDataProofs --------------------------
(***************************************************************************)
(* Lemmas about the operators of CacheData, by induction over intervals of *)
(* numbers: what BytesOf counts when entries join and leave a sequence.    *)
(***************************************************************************)
EXTENDS CacheData, TLAPS, SequenceTheorems, WellFoundedInduction,
        FiniteSetTheorems

(* A non-empty set of numbers has a least one.                             *)
LEMMA LeastExists ==
    ASSUME NEW S \in SUBSET Nat, S # {}
    PROVE  \E i \in S : \A j \in S : i <= j
<1>1. IsWellFoundedOn(OpToRel(<, Nat), Nat)
    BY NatLessThanWellFounded
<1>2. PICK i \in S : \A j \in S : <<j, i>> \notin OpToRel(<, Nat)
    BY <1>1, WFMin, Zenon
<1>3. \A j \in S : ~(j < i)
    BY <1>2, Zenon DEF OpToRel
<1>4. QED BY <1>3

(* Induction up to n.                                                      *)
LEMMA IntervalInduction ==
    ASSUME NEW n \in Nat, NEW T, 0 \in T,
           \A i \in 0..n : i + 1 \in 0..n /\ i \in T => i + 1 \in T
    PROVE  0..n \subseteq T
<1> SUFFICES ASSUME ~(0..n \subseteq T) PROVE FALSE
    OBVIOUS
<1> DEFINE S == (0..n) \ T
<1>0. S \in SUBSET Nat /\ S # {}
    OBVIOUS
<1>1. PICK i \in S : \A j \in S : i <= j
    BY <1>0, LeastExists, Zenon
<1>2. i # 0 /\ i - 1 \in 0..n /\ i = (i - 1) + 1
    OBVIOUS
<1>3. i - 1 \in T
    BY <1>1, <1>2
<1>4. QED BY <1>2, <1>3

-----------------------------------------------------------------------------
(* The entries of S have a cost.                                           *)
Priced(S) == \A e \in S : e.key \in Keys /\ e.value \in Values

CostOf(e, overhead) == KeyLen[e.key] + ValueLen[e.value] + overhead

(* Prices are natural numbers,                                             *)
LEMMA CostType ==
    ASSUME NEW S, Priced(S), NEW e \in S, NEW o \in Nat
    PROVE  CostOf(e, o) \in Nat
<1>1. KeyLen[e.key] \in Nat /\ ValueLen[e.value] \in Nat
    BY CacheConstants DEF Priced
<1>2. QED BY <1>1 DEF CostOf

(* The recursion of BytesUpTo defines a function.                          *)
LEMMA PartialSums ==
    ASSUME NEW n \in Nat, NEW c \in [1..n -> Nat]
    PROVE  \E f \in [0..n -> Nat] : f[0] = 0 /\ \A i \in 1..n : f[i] = f[i - 1] + c[i]
<1> DEFINE Sums(m) == {f \in [0..m -> Nat] : f[0] = 0 /\ \A i \in 1..m : f[i] = f[i - 1] + c[i]}
           T == {m \in 0..n : Sums(m) # {}}
<1>1. 0 \in T
  <2>1. [i \in 0..0 |-> 0] \in Sums(0)
    OBVIOUS
  <2>2. QED BY <2>1
<1>2. ASSUME NEW m \in 0..n, m + 1 \in 0..n, m \in T PROVE m + 1 \in T
  <2>1. PICK f \in [0..m -> Nat] : f[0] = 0 /\ \A i \in 1..m : f[i] = f[i - 1] + c[i]
    BY <1>2
  <2> DEFINE g == [i \in 0..(m + 1) |-> IF i = m + 1 THEN f[m] + c[m + 1] ELSE f[i]]
  <2>2. g \in [0..(m + 1) -> Nat]
    <3>1. m \in 0..m /\ m + 1 \in 1..n /\ \A i \in 0..(m + 1) : i = m + 1 \/ i \in 0..m
        BY <1>2
    <3>2. f[m] + c[m + 1] \in Nat
        BY <3>1
    <3>3. QED BY <3>1, <3>2
  <2>3. g[0] = 0
    BY <1>2, <2>1
  <2>4. ASSUME NEW i \in 1..(m + 1) PROVE g[i] = g[i - 1] + c[i]
    <3>1. i \in 0..(m + 1) /\ i - 1 \in 0..(m + 1) /\ i - 1 # m + 1 /\ g[i - 1] = f[i - 1]
        BY <1>2
    <3>2. CASE i = m + 1
        BY <1>2, <3>1, <3>2
    <3>3. CASE i # m + 1
        <4>1. i \in 1..m /\ g[i] = f[i]
            BY <1>2, <3>1, <3>3
        <4>2. QED BY <2>1, <3>1, <4>1
    <3>4. QED BY <3>2, <3>3
  <2> HIDE DEF g
  <2>5. g \in Sums(m + 1)
    BY <2>2, <2>3, <2>4
  <2>6. QED BY <1>2, <2>5
<1> HIDE DEF T
<1>3. 0..n \subseteq T
    BY <1>1, <1>2, IntervalInduction
<1>4. n \in T
    BY <1>3
<1>5. QED BY <1>4 DEF T

(* What the recursion computes.                                            *)
LEMMA BytesSteps ==
    ASSUME NEW S, Priced(S), NEW s \in Seq(S), NEW o \in Nat
    PROVE  /\ BytesUpTo(s, o) \in [0..Len(s) -> Nat]
           /\ BytesUpTo(s, o)[0] = 0
           /\ \A i \in 1..Len(s) :
                  BytesUpTo(s, o)[i] = BytesUpTo(s, o)[i - 1] + CostOf(s[i], o)
<1> DEFINE n == Len(s)
           b == BytesUpTo(s, o)
           c == [i \in 1..n |-> CostOf(s[i], o)]
           Next(x, i) == x + KeyLen[s[i].key] + ValueLen[s[i].value] + o
           Body(f) == [i \in 0..n |-> IF i = 0 THEN 0 ELSE Next(f[i - 1], i)]
<1>1. n \in Nat /\ \A i \in 1..n : s[i] \in S
    BY LenProperties, ElementOfSeq
<1>2. c \in [1..n -> Nat]
    BY <1>1, CostType
<1>3. ASSUME NEW i \in 1..n, NEW x \in Nat PROVE Next(x, i) = x + c[i]
  <2>1. KeyLen[s[i].key] \in Nat /\ ValueLen[s[i].value] \in Nat
    BY <1>1, CacheConstants DEF Priced
  <2> DEFINE k == KeyLen[s[i].key]
             v == ValueLen[s[i].value]
  <2>2. Next(x, i) = x + k + v + o /\ c[i] = k + v + o
    BY DEF CostOf
  <2>3. k \in Nat /\ v \in Nat
    BY <2>1
  <2> HIDE DEF k, v, c, Next
  <2>4. QED BY <2>2, <2>3
<1>4. b = CHOOSE g : g = Body(g)
    BY DEF BytesUpTo
<1> HIDE DEF n, c, Next, b
<1>5. PICK f \in [0..n -> Nat] : f[0] = 0 /\ \A i \in 1..n : f[i] = f[i - 1] + c[i]
    BY <1>1, <1>2, PartialSums
<1>6. ASSUME NEW i \in 0..n, i # 0 PROVE f[i] = Next(f[i - 1], i)
  <2>1. i \in 1..n /\ i - 1 \in 0..n
    BY <1>1, <1>6
  <2>2. f[i - 1] \in Nat
    BY <2>1
  <2>3. QED BY <1>3, <1>5, <2>1, <2>2
<1>7. f = Body(f)
    BY <1>5, <1>6
<1>8. b = Body(b)
    BY <1>4, <1>7
<1>9. b[0] = 0 /\ \A i \in 1..n : b[i] = Next(b[i - 1], i)
    BY <1>1, <1>8
<1>10. 0..n \subseteq {i \in 0..n : b[i] \in Nat}
  <2> DEFINE T == {i \in 0..n : b[i] \in Nat}
  <2>1. 0 \in T
    BY <1>1, <1>9
  <2>2. ASSUME NEW i \in 0..n, i + 1 \in 0..n, i \in T PROVE i + 1 \in T
    <3>1. i + 1 \in 1..n /\ (i + 1) - 1 = i
        BY <1>1, <2>2
    <3>2. b[i + 1] = b[i] + c[i + 1] /\ c[i + 1] \in Nat
        BY <1>2, <1>3, <1>9, <2>2, <3>1
    <3>3. QED BY <2>2, <3>2
  <2> HIDE DEF T
  <2>3. 0..n \subseteq T
    BY <1>1, <2>1, <2>2, IntervalInduction
  <2>4. QED BY <2>3 DEF T
<1>11. b \in [0..n -> Nat]
    BY <1>8, <1>10
<1>12. ASSUME NEW i \in 1..n PROVE b[i] = b[i - 1] + CostOf(s[i], o)
  <2>1. i - 1 \in 0..n
    BY <1>1
  <2>2. b[i - 1] \in Nat
    BY <1>10, <2>1
  <2>3. c[i] = CostOf(s[i], o)
    BY DEF c
  <2>4. QED BY <1>3, <1>9, <2>2, <2>3
<1>13. QED BY <1>9, <1>11, <1>12 DEF n, b

(* s after a and t after b agree for m entries.                            *)
Agree(s, a, t, b, m) ==
    /\ {a, b, m} \subseteq Nat
    /\ a + m <= Len(s) /\ b + m <= Len(t)
    /\ \A i \in 1..m : s[a + i] = t[b + i]

(* Where two sequences agree, the same bytes are added.                    *)
LEMMA BytesShift ==
    ASSUME NEW S, Priced(S), NEW s \in Seq(S), NEW t \in Seq(S), NEW o \in Nat,
           NEW a, NEW b, NEW m, Agree(s, a, t, b, m)
    PROVE  BytesUpTo(s, o)[a + m] + BytesUpTo(t, o)[b]
               = BytesUpTo(t, o)[b + m] + BytesUpTo(s, o)[a]
<1> DEFINE f == BytesUpTo(s, o)
           g == BytesUpTo(t, o)
           T == {i \in 0..m : f[a + i] + g[b] = g[b + i] + f[a]}
<1>0. /\ a \in Nat /\ b \in Nat /\ m \in Nat
      /\ a + m <= Len(s) /\ b + m <= Len(t)
      /\ \A i \in 1..m : s[a + i] = t[b + i]
    BY DEF Agree
<1> USE <1>0
<1>1. Len(s) \in Nat /\ Len(t) \in Nat
    BY LenProperties
<1>2. /\ f \in [0..Len(s) -> Nat]
      /\ g \in [0..Len(t) -> Nat]
      /\ \A i \in 1..Len(s) : f[i] = f[i - 1] + CostOf(s[i], o)
      /\ \A i \in 1..Len(t) : g[i] = g[i - 1] + CostOf(t[i], o)
    BY BytesSteps
<1> HIDE DEF f, g
<1>3. \A i \in 0..m : a + i \in 0..Len(s) /\ b + i \in 0..Len(t)
    BY <1>1
<1>4. \A i \in 0..m : f[a + i] \in Nat /\ g[b + i] \in Nat
    BY <1>2, <1>3
<1>5. f[a] \in Nat /\ g[b] \in Nat /\ 0 \in T
  <2>1. a + 0 = a /\ b + 0 = b /\ 0 \in 0..m
    OBVIOUS
  <2>2. f[a] \in Nat /\ g[b] \in Nat
    BY <1>4, <2>1
  <2>3. QED BY <2>1, <2>2
<1>6. ASSUME NEW i \in 0..m, i + 1 \in 0..m, i \in T PROVE i + 1 \in T
  <2>1. /\ a + (i + 1) \in 1..Len(s) /\ b + (i + 1) \in 1..Len(t) /\ i + 1 \in 1..m
        /\ (a + (i + 1)) - 1 = a + i /\ (b + (i + 1)) - 1 = b + i
    BY <1>3, <1>6
  <2>2. /\ f[a + (i + 1)] = f[a + i] + CostOf(s[a + (i + 1)], o)
        /\ g[b + (i + 1)] = g[b + i] + CostOf(t[b + (i + 1)], o)
    BY <1>2, <2>1
  <2>3. s[a + (i + 1)] = t[b + (i + 1)] /\ s[a + (i + 1)] \in S
    BY <2>1, ElementOfSeq
  <2>4. CostOf(s[a + (i + 1)], o) \in Nat
    BY <2>3, CostType
  <2> DEFINE c == CostOf(s[a + (i + 1)], o)
  <2>5. c \in Nat /\ f[a + (i + 1)] = f[a + i] + c /\ g[b + (i + 1)] = g[b + i] + c
    BY <2>2, <2>3, <2>4
  <2> HIDE DEF c
  <2>6. f[a + i] \in Nat /\ g[b + i] \in Nat /\ f[a + i] + g[b] = g[b + i] + f[a]
    BY <1>4, <1>6
  <2>7. f[a] \in Nat /\ g[b] \in Nat
    BY <1>5
  <2>8. f[a + (i + 1)] + g[b] = g[b + (i + 1)] + f[a]
    <3> DEFINE x == f[a + i]
               y == g[b + i]
               u == f[a]
               v == g[b]
    <3>1. x \in Nat /\ y \in Nat /\ u \in Nat /\ v \in Nat /\ x + v = y + u
        BY <2>6, <2>7
    <3>2. f[a + (i + 1)] = x + c /\ g[b + (i + 1)] = y + c
        BY <2>5
    <3> HIDE DEF x, y, u, v
    <3>3. (x + c) + v = (y + c) + u
        BY <2>5, <3>1
    <3>4. QED BY <3>2, <3>3 DEF u, v
  <2>9. QED BY <1>6, <2>8
<1> HIDE DEF T
<1>7. 0..m \subseteq T
    BY <1>5, <1>6, IntervalInduction
<1>8. m \in T
    BY <1>7
<1>9. QED BY <1>8 DEF T, f, g

(* The two parts of a sequence, and their elements.                        *)
LEMMA Parts ==
    ASSUME NEW S, NEW s \in Seq(S), NEW i \in 0..Len(s)
    PROVE  /\ SubSeq(s, 1, i) \in Seq(S)
           /\ Len(SubSeq(s, 1, i)) = i
           /\ \A j \in 1..i : SubSeq(s, 1, i)[j] = s[j]
           /\ SubSeq(s, i + 1, Len(s)) \in Seq(S)
           /\ Len(SubSeq(s, i + 1, Len(s))) = Len(s) - i
           /\ \A j \in 1..(Len(s) - i) : SubSeq(s, i + 1, Len(s))[j] = s[i + j]
<1> DEFINE n == Len(s)
           l == SubSeq(s, 1, i)
           r == SubSeq(s, i + 1, n)
<1>1. n \in Nat /\ i \in Nat /\ i <= n /\ \A j \in 1..n : s[j] \in S
    BY LenProperties, ElementOfSeq
<1>2. l \in Seq(S) /\ Len(l) = i /\ \A j \in 1..i : l[j] = s[j]
  <2>1. \A j \in 1..i : s[j] \in S /\ 1 + j - 1 = j
    BY <1>1
  <2>2. /\ l \in Seq(S) /\ Len(l) = (IF 1 <= i THEN i - 1 + 1 ELSE 0)
        /\ \A j \in 1..(i - 1 + 1) : l[j] = s[1 + j - 1]
    BY <1>1, <2>1, SubSeqProperties
  <2>3. QED BY <1>1, <2>1, <2>2
<1>3. r \in Seq(S) /\ Len(r) = n - i /\ \A j \in 1..(n - i) : r[j] = s[i + j]
  <2>1. \A j \in (i + 1)..n : s[j] \in S
    BY <1>1
  <2>2. /\ r \in Seq(S) /\ Len(r) = (IF i + 1 <= n THEN n - (i + 1) + 1 ELSE 0)
        /\ \A j \in 1..(n - (i + 1) + 1) : r[j] = s[(i + 1) + j - 1]
    BY <1>1, <2>1, SubSeqProperties
  <2>3. n - (i + 1) + 1 = n - i /\ \A j \in 1..(n - i) : (i + 1) + j - 1 = i + j
    BY <1>1
  <2> HIDE DEF n, r
  <2>4. Len(r) = n - i
    <3>1. CASE i = n
        BY <1>1, <2>2, <3>1
    <3>2. CASE i # n
        BY <1>1, <2>2, <2>3, <3>2
    <3>3. QED BY <3>1, <3>2
  <2>5. QED BY <2>2, <2>3, <2>4, Zenon
<1>4. QED BY <1>2, <1>3 DEF l, r, n

(* and so are the bytes of a sequence,                                     *)
LEMMA BytesType ==
    ASSUME NEW S, Priced(S), NEW s \in Seq(S), NEW o \in Nat
    PROVE  BytesOf(s, o) \in Nat
<1>1. Len(s) \in 0..Len(s)
    BY LenProperties
<1>2. QED BY <1>1, BytesSteps DEF BytesOf

(* which are none for the empty one,                                       *)
LEMMA BytesEmpty ==
    ASSUME NEW S, Priced(S), NEW o \in Nat
    PROVE  BytesOf(<< >>, o) = 0
BY EmptySeq, BytesSteps DEF BytesOf

(* The bytes of a sequence are those of its two parts.                     *)
LEMMA BytesSplit ==
    ASSUME NEW S, Priced(S), NEW s \in Seq(S), NEW o \in Nat, NEW i \in 0..Len(s)
    PROVE  /\ BytesOf(SubSeq(s, 1, i), o) = BytesUpTo(s, o)[i]
           /\ BytesOf(s, o) = BytesOf(SubSeq(s, 1, i), o) + BytesOf(SubSeq(s, i + 1, Len(s)), o)
<1> DEFINE n == Len(s)
           l == SubSeq(s, 1, i)
           r == SubSeq(s, i + 1, n)
<1>1. n \in Nat /\ i \in Nat /\ i <= n /\ \A j \in 1..n : s[j] \in S
    BY LenProperties, ElementOfSeq
<1>2. l \in Seq(S) /\ Len(l) = i /\ \A j \in 1..i : l[j] = s[j]
    BY Parts
<1>3. r \in Seq(S) /\ Len(r) = n - i /\ \A j \in 1..(n - i) : r[j] = s[i + j]
    BY Parts
<1> DEFINE f == BytesUpTo(s, o)
           fl == BytesUpTo(l, o)
           fr == BytesUpTo(r, o)
<1>4. /\ f \in [0..n -> Nat] /\ f[0] = 0
      /\ fl \in [0..i -> Nat] /\ fl[0] = 0
      /\ fr \in [0..(n - i) -> Nat] /\ fr[0] = 0
    BY <1>2, <1>3, BytesSteps
<1>5. BytesOf(s, o) = f[n] /\ BytesOf(l, o) = fl[i] /\ BytesOf(r, o) = fr[n - i]
    BY <1>2, <1>3 DEF BytesOf
<1> HIDE DEF l, r, n
<1>6. f[i] \in Nat /\ f[n] \in Nat /\ fl[i] \in Nat /\ fr[n - i] \in Nat
  <2>1. i \in 0..n /\ n \in 0..n /\ i \in 0..i /\ n - i \in 0..(n - i)
    BY <1>1
  <2>2. QED BY <1>4, <2>1
<1>7. f[0 + i] + fl[0] = fl[0 + i] + f[0]
  <2>1. Agree(s, 0, l, 0, i)
    BY <1>1, <1>2 DEF Agree, n
  <2>2. QED BY <1>2, <2>1, BytesShift
<1>8. f[i + (n - i)] + fr[0] = fr[0 + (n - i)] + f[i]
  <2>1. Agree(s, i, r, 0, n - i)
    BY <1>1, <1>3 DEF Agree, n
  <2>2. QED BY <1>3, <2>1, BytesShift
<1> HIDE DEF f, fl, fr
<1>9. 0 + i = i /\ i + (n - i) = n /\ 0 + (n - i) = n - i
    BY <1>1
<1>10. fl[i] = f[i]
    BY <1>4, <1>6, <1>7, <1>9
<1>11. f[n] = f[i] + fr[n - i]
    BY <1>4, <1>6, <1>8, <1>9
<1>12. QED BY <1>5, <1>10, <1>11 DEF f, l, r, n

(* Bytes of a concatenation, and of what the strategies do to a list.      *)
LEMMA BytesConcat ==
    ASSUME NEW S, Priced(S), NEW s \in Seq(S), NEW t \in Seq(S), NEW o \in Nat
    PROVE  BytesOf(s \o t, o) = BytesOf(s, o) + BytesOf(t, o)
<1> DEFINE u == s \o t
           m == Len(s)
           n == Len(t)
<1>1. /\ m \in Nat /\ n \in Nat
      /\ u \in Seq(S) /\ Len(u) = m + n
      /\ \A i \in 1..m : u[i] = s[i]
      /\ \A i \in 1..n : u[m + i] = t[i]
  <2>1. /\ u \in Seq(S) /\ Len(u) = m + n
        /\ \A i \in 1..(m + n) : u[i] = IF i <= m THEN s[i] ELSE t[i - m]
    BY ConcatProperties
  <2>2. m \in Nat /\ n \in Nat
    BY LenProperties
  <2> HIDE DEF u, m, n
  <2>3. ASSUME NEW i \in 1..n PROVE u[m + i] = t[i]
    <3>1. m + i \in 1..(m + n) /\ ~(m + i <= m) /\ (m + i) - m = i
        BY <2>2
    <3>2. QED BY <2>1, <3>1
  <2>4. QED BY <2>1, <2>2, <2>3
<1> DEFINE f == BytesUpTo(u, o)
           g == BytesUpTo(s, o)
           h == BytesUpTo(t, o)
<1>2. /\ f \in [0..(m + n) -> Nat] /\ f[0] = 0
      /\ g \in [0..m -> Nat] /\ g[0] = 0
      /\ h \in [0..n -> Nat] /\ h[0] = 0
    BY <1>1, BytesSteps
<1> HIDE DEF u, m, n
<1>3. f[0 + m] + g[0] = g[0 + m] + f[0]
  <2>1. Agree(u, 0, s, 0, m)
    BY <1>1 DEF Agree, m
  <2>2. QED BY <1>1, <2>1, BytesShift
<1>4. f[m + n] + h[0] = h[0 + n] + f[m]
  <2>1. Agree(u, m, t, 0, n)
    BY <1>1 DEF Agree, n
  <2>2. QED BY <1>1, <2>1, BytesShift
<1>5. BytesOf(u, o) = f[m + n] /\ BytesOf(s, o) = g[m] /\ BytesOf(t, o) = h[n]
    BY <1>1 DEF BytesOf, m, n
<1> HIDE DEF f, g, h
<1>6. /\ f[m] \in Nat /\ f[m + n] \in Nat /\ g[m] \in Nat /\ h[n] \in Nat
      /\ 0 + m = m /\ 0 + n = n
  <2>1. m \in 0..(m + n) /\ m + n \in 0..(m + n) /\ m \in 0..m /\ n \in 0..n
    BY <1>1
  <2>2. QED BY <1>1, <1>2, <2>1
<1>7. f[m + n] = g[m] + h[n]
    BY <1>2, <1>3, <1>4, <1>6
<1>8. QED BY <1>5, <1>7 DEF u

(* the price of the entry if there is one only,                            *)
LEMMA BytesSingle ==
    ASSUME NEW S, Priced(S), NEW e \in S, NEW o \in Nat
    PROVE  BytesOf(<<e>>, o) = CostOf(e, o)
<1>1. <<e>> \in Seq(S) /\ Len(<<e>>) = 1 /\ <<e>>[1] = e
    OBVIOUS
<1>2. BytesUpTo(<<e>>, o)[0] = 0 /\ BytesUpTo(<<e>>, o)[1] = BytesUpTo(<<e>>, o)[0] + CostOf(e, o)
  <2>1. 1 \in 1..1 /\ 1 - 1 = 0
    OBVIOUS
  <2>2. /\ BytesUpTo(<<e>>, o)[0] = 0
        /\ \A i \in 1..1 : BytesUpTo(<<e>>, o)[i] = BytesUpTo(<<e>>, o)[i - 1] + CostOf(<<e>>[i], o)
    BY <1>1, BytesSteps
  <2>3. QED BY <1>1, <2>1, <2>2
<1>3. CostOf(e, o) \in Nat
    BY CostType
<1>4. QED BY <1>1, <1>2, <1>3 DEF BytesOf

(* and the price more for an entry at the back                             *)
LEMMA BytesAppend ==
    ASSUME NEW S, Priced(S), NEW s \in Seq(S), NEW e \in S, NEW o \in Nat
    PROVE  BytesOf(Append(s, e), o) = BytesOf(s, o) + CostOf(e, o)
<1>1. Append(s, e) = s \o <<e>> /\ <<e>> \in Seq(S)
    BY AppendIsConcat
<1>2. BytesOf(s \o <<e>>, o) = BytesOf(s, o) + BytesOf(<<e>>, o)
    BY <1>1, BytesConcat
<1>3. QED BY <1>1, <1>2, BytesSingle, Zenon

(* or in front.                                                            *)
LEMMA BytesCons ==
    ASSUME NEW S, Priced(S), NEW s \in Seq(S), NEW e \in S, NEW o \in Nat
    PROVE  BytesOf(<<e>> \o s, o) = BytesOf(s, o) + CostOf(e, o)
<1>1. <<e>> \in Seq(S)
    OBVIOUS
<1>2. BytesOf(<<e>> \o s, o) = CostOf(e, o) + BytesOf(s, o)
  <2>1. BytesOf(<<e>> \o s, o) = BytesOf(<<e>>, o) + BytesOf(s, o)
    BY <1>1, BytesConcat
  <2>2. QED BY <2>1, BytesSingle
<1>3. BytesOf(s, o) \in Nat /\ CostOf(e, o) \in Nat
    BY BytesType, CostType
<1>4. QED BY <1>2, <1>3

-----------------------------------------------------------------------------
(* What RemoveAt leaves.                                                   *)
LEMMA RemoveAtProperties ==
    ASSUME NEW S, NEW s \in Seq(S), NEW i \in 1..Len(s)
    PROVE  /\ SubSeq(s, 1, i - 1) \in Seq(S) /\ SubSeq(s, i + 1, Len(s)) \in Seq(S)
           /\ RemoveAt(s, i) \in Seq(S)
           /\ Len(RemoveAt(s, i)) = Len(s) - 1
           /\ \A j \in 1..(Len(s) - 1) : RemoveAt(s, i)[j] = IF j < i THEN s[j] ELSE s[j + 1]
<1> DEFINE n == Len(s)
           l == SubSeq(s, 1, i - 1)
           r == SubSeq(s, i + 1, n)
<1>1. n \in Nat /\ i \in Nat /\ 1 <= i /\ i <= n /\ \A j \in 1..n : s[j] \in S
    BY LenProperties, ElementOfSeq
<1>2. l \in Seq(S) /\ Len(l) = i - 1 /\ \A j \in 1..(i - 1) : l[j] = s[j]
  <2>1. i - 1 \in 0..Len(s)
    BY <1>1
  <2>2. QED BY <2>1, Parts
<1>3. r \in Seq(S) /\ Len(r) = n - i /\ \A j \in 1..(n - i) : r[j] = s[i + j]
  <2>1. i \in 0..Len(s)
    BY <1>1
  <2>2. QED BY <2>1, Parts
<1>4. /\ l \o r \in Seq(S) /\ Len(l \o r) = Len(l) + Len(r)
      /\ \A j \in 1..(Len(l) + Len(r)) : (l \o r)[j] = IF j <= Len(l) THEN l[j] ELSE r[j - Len(l)]
    BY <1>2, <1>3, ConcatProperties
<1>5. RemoveAt(s, i) = l \o r
    BY DEF RemoveAt
<1> HIDE DEF n, l, r
<1>6. Len(l) + Len(r) = n - 1
    BY <1>1, <1>2, <1>3
<1>7. ASSUME NEW j \in 1..(n - 1) PROVE (l \o r)[j] = IF j < i THEN s[j] ELSE s[j + 1]
  <2>1. (l \o r)[j] = IF j <= i - 1 THEN l[j] ELSE r[j - (i - 1)]
    BY <1>2, <1>4, <1>6
  <2>2. CASE j < i
    <3>1. j \in 1..(i - 1)
        BY <1>1, <2>2
    <3>2. QED BY <1>2, <2>1, <2>2, <3>1
  <2>3. CASE ~(j < i)
    <3>1. ~(j <= i - 1) /\ j - (i - 1) \in 1..(n - i) /\ i + (j - (i - 1)) = j + 1
        BY <1>1, <2>3
    <3>2. QED BY <1>3, <2>1, <2>3, <3>1
  <2>4. QED BY <2>2, <2>3
<1>8. QED BY <1>2, <1>3, <1>4, <1>5, <1>6, <1>7 DEF l, r, n

(* The bytes that an entry takes with it when it is removed.               *)
LEMMA BytesRemoveAt ==
    ASSUME NEW S, Priced(S), NEW s \in Seq(S), NEW i \in 1..Len(s), NEW o \in Nat
    PROVE  BytesOf(s, o) = BytesOf(RemoveAt(s, i), o) + CostOf(s[i], o)
<1> DEFINE n == Len(s)
           l == SubSeq(s, 1, i - 1)
           m == SubSeq(s, 1, i)
           r == SubSeq(s, i + 1, n)
           f == BytesUpTo(s, o)
<1>1. n \in Nat /\ i - 1 \in 0..n /\ i \in 0..n /\ s[i] \in S
    BY LenProperties, ElementOfSeq
<1>2. l \in Seq(S) /\ r \in Seq(S)
    BY RemoveAtProperties
<1>3. BytesOf(RemoveAt(s, i), o) = BytesOf(l, o) + BytesOf(r, o)
    BY <1>2, BytesConcat DEF RemoveAt
<1>4. BytesOf(l, o) = f[i - 1] /\ BytesOf(s, o) = BytesOf(m, o) + BytesOf(r, o) /\ BytesOf(m, o) = f[i]
    BY <1>1, BytesSplit
<1>5. f[i] = f[i - 1] + CostOf(s[i], o) /\ f[i - 1] \in Nat
    BY <1>1, BytesSteps
<1>6. BytesOf(r, o) \in Nat /\ CostOf(s[i], o) \in Nat
    BY <1>1, <1>2, BytesType, CostType
<1> DEFINE c == CostOf(s[i], o)
           b == BytesOf(r, o)
           x == f[i - 1]
<1>7. BytesOf(s, o) = (x + c) + b /\ BytesOf(RemoveAt(s, i), o) = x + b
    BY <1>3, <1>4, <1>5
<1>8. x \in Nat /\ c \in Nat /\ b \in Nat
    BY <1>5, <1>6
<1> HIDE DEF c, b, x
<1>9. QED BY <1>7, <1>8 DEF c

(* An entry is replaced in its place.                                      *)
LEMMA BytesReplace ==
    ASSUME NEW S, Priced(S), NEW s \in Seq(S), NEW i \in 1..Len(s), NEW e \in S, NEW o \in Nat
    PROVE  BytesOf([s EXCEPT ![i] = e], o) = BytesOf(RemoveAt(s, i), o) + CostOf(e, o)
<1> DEFINE t == [s EXCEPT ![i] = e]
<1>1. /\ t \in Seq(S) /\ Len(t) = Len(s)
      /\ \A j \in 1..Len(s) : t[j] = IF j = i THEN e ELSE s[j]
    BY ExceptSeq
<1> HIDE DEF t
<1>2. i \in 1..Len(t) /\ Len(s) \in Nat /\ t[i] = e
    BY <1>1, LenProperties
<1>3. /\ RemoveAt(s, i) \in Seq(S) /\ Len(RemoveAt(s, i)) = Len(s) - 1
      /\ \A j \in 1..(Len(s) - 1) : RemoveAt(s, i)[j] = IF j < i THEN s[j] ELSE s[j + 1]
    BY RemoveAtProperties
<1>4. /\ RemoveAt(t, i) \in Seq(S) /\ Len(RemoveAt(t, i)) = Len(t) - 1
      /\ \A j \in 1..(Len(t) - 1) : RemoveAt(t, i)[j] = IF j < i THEN t[j] ELSE t[j + 1]
    BY <1>1, <1>2, RemoveAtProperties
<1>5. ASSUME NEW j \in 1..(Len(s) - 1) PROVE RemoveAt(s, i)[j] = RemoveAt(t, i)[j]
  <2>1. j \in 1..Len(s) /\ j + 1 \in 1..Len(s) /\ (j < i => j # i) /\ (~(j < i) => j + 1 # i)
    BY <1>2
  <2>2. QED BY <1>1, <1>3, <1>4, <2>1
<1>6. RemoveAt(s, i) = RemoveAt(t, i)
    BY <1>1, <1>3, <1>4, <1>5, SeqEqual
<1>7. BytesOf(t, o) = BytesOf(RemoveAt(t, i), o) + CostOf(t[i], o)
    BY <1>1, <1>2, BytesRemoveAt
<1>8. QED BY <1>2, <1>6, <1>7 DEF t

-----------------------------------------------------------------------------
(* No key is twice in s.                                                   *)
KeysDiffer(s) == \A i, j \in DOMAIN s : s[i].key = s[j].key => i = j

(* The position chosen for a key is one that has it.                       *)
LEMMA PositionFound ==
    ASSUME NEW S, NEW s \in Seq(S), NEW k \in KeysOf(s)
    PROVE  PositionOf(k, s) \in 1..Len(s) /\ s[PositionOf(k, s)].key = k
<1>1. DOMAIN s = 1..Len(s)
    BY LenProperties
<1>2. \E i \in DOMAIN s : s[i].key = k
    BY DEF KeysOf
<1>3. QED BY <1>1, <1>2 DEF PositionOf

(* Keys that differ still do without one entry, with a new one at the back *)
(* or in front, or with one replaced under its key.                        *)
LEMMA RemoveKeys ==
    ASSUME NEW S, NEW s \in Seq(S), KeysDiffer(s), NEW i \in 1..Len(s)
    PROVE  /\ KeysDiffer(RemoveAt(s, i))
           /\ KeysOf(RemoveAt(s, i)) = KeysOf(s) \ {s[i].key}
<1> DEFINE n == Len(s)
           t == RemoveAt(s, i)
           Old(j) == IF j < i THEN j ELSE j + 1
<1>1. /\ n \in Nat /\ i \in Nat /\ DOMAIN s = 1..n /\ DOMAIN t = 1..(n - 1)
      /\ \A j \in 1..(n - 1) : t[j] = IF j < i THEN s[j] ELSE s[j + 1]
    BY LenProperties, RemoveAtProperties
<1> HIDE DEF n, t
<1>2. \A j \in 1..(n - 1) : t[j] = s[Old(j)] /\ Old(j) \in (1..n) \ {i}
    BY <1>1 DEF n
<1>3. \A j, k \in 1..(n - 1) : Old(j) = Old(k) => j = k
    BY <1>1
<1>4. ASSUME NEW m \in (1..n) \ {i} PROVE \E j \in 1..(n - 1) : m = Old(j)
  <2>1. CASE m < i
    <3>1. m \in 1..(n - 1) /\ m = Old(m)
        BY <1>1, <2>1 DEF n
    <3>2. QED BY <3>1
  <2>2. CASE ~(m < i)
    <3>1. m - 1 \in 1..(n - 1) /\ m = Old(m - 1)
        BY <1>1, <1>4, <2>2 DEF n
    <3>2. QED BY <3>1
  <2>3. QED BY <2>1, <2>2
<1> HIDE DEF Old
<1>5. KeysDiffer(t)
    BY <1>1, <1>2, <1>3 DEF KeysDiffer
<1>6. \A m \in (1..n) \ {i} : s[m].key # s[i].key
    BY <1>1 DEF KeysDiffer, n
<1>7. KeysOf(t) = {s[m].key : m \in (1..n) \ {i}}
  <2> DEFINE K == {s[m].key : m \in (1..n) \ {i}}
  <2>1. KeysOf(t) = {t[j].key : j \in 1..(n - 1)}
    BY <1>1 DEF KeysOf
  <2>2. \A j \in 1..(n - 1) : t[j].key \in K
    BY <1>2
  <2>3. ASSUME NEW m \in (1..n) \ {i} PROVE s[m].key \in KeysOf(t)
    <3>1. PICK j \in 1..(n - 1) : m = Old(j)
        BY <1>4
    <3>2. s[m].key = t[j].key
        BY <1>2, <3>1
    <3>3. QED BY <2>1, <3>2
  <2>4. QED BY <2>1, <2>2, <2>3
<1>8. KeysOf(s) = {s[m].key : m \in 1..n}
    BY <1>1 DEF KeysOf
<1>9. QED BY <1>5, <1>6, <1>7, <1>8 DEF t, n

LEMMA AppendKeys ==
    ASSUME NEW S, NEW s \in Seq(S), KeysDiffer(s), NEW e \in S, e.key \notin KeysOf(s)
    PROVE  KeysDiffer(Append(s, e)) /\ KeysOf(Append(s, e)) = KeysOf(s) \cup {e.key}
<1> DEFINE t == Append(s, e)
           n == Len(s)
<1>1. /\ n \in Nat /\ DOMAIN s = 1..n /\ DOMAIN t = 1..(n + 1)
      /\ t[n + 1] = e /\ \A j \in 1..n : t[j] = s[j]
    BY LenProperties, AppendProperties
<1> HIDE DEF n, t
<1>2. 1..(n + 1) = (1..n) \cup {n + 1}
    BY <1>1
<1>3. \A j \in 1..n : s[j].key # e.key
    BY <1>1 DEF KeysOf
<1>4. KeysDiffer(t)
    BY <1>1, <1>2, <1>3 DEF KeysDiffer
<1>5. KeysOf(t) = {t[j].key : j \in (1..n) \cup {n + 1}}
    BY <1>1, <1>2 DEF KeysOf
<1>6. KeysOf(t) = KeysOf(s) \cup {e.key}
    BY <1>1, <1>5 DEF KeysOf
<1>7. QED BY <1>4, <1>6 DEF t

LEMMA ConsKeys ==
    ASSUME NEW S, NEW s \in Seq(S), KeysDiffer(s), NEW e \in S, e.key \notin KeysOf(s)
    PROVE  KeysDiffer(<<e>> \o s) /\ KeysOf(<<e>> \o s) = KeysOf(s) \cup {e.key}
<1> DEFINE t == <<e>> \o s
           n == Len(s)
<1>1. <<e>> \in Seq(S) /\ Len(<<e>>) = 1 /\ <<e>>[1] = e
    OBVIOUS
<1>2. /\ n \in Nat /\ DOMAIN s = 1..n /\ DOMAIN t = 1..(1 + n)
      /\ \A j \in 1..(1 + n) : t[j] = IF j <= 1 THEN <<e>>[j] ELSE s[j - 1]
  <2>1. /\ t \in Seq(S) /\ Len(t) = 1 + n
        /\ \A j \in 1..(1 + n) : t[j] = IF j <= 1 THEN <<e>>[j] ELSE s[j - 1]
    BY <1>1, ConcatProperties
  <2>2. QED BY <2>1, LenProperties
<1> HIDE DEF n, t
<1>3. t[1] = e /\ \A j \in 1..n : t[j + 1] = s[j] /\ j + 1 \in 1..(1 + n)
  <2>1. t[1] = e
    BY <1>1, <1>2
  <2>2. ASSUME NEW j \in 1..n PROVE t[j + 1] = s[j] /\ j + 1 \in 1..(1 + n)
    <3>1. j + 1 \in 1..(1 + n) /\ ~(j + 1 <= 1) /\ (j + 1) - 1 = j
        BY <1>2
    <3>2. QED BY <1>2, <3>1
  <2>3. QED BY <2>1, <2>2
<1>4. \A i \in 1..(1 + n) : i = 1 \/ \E j \in 1..n : i = j + 1
  <2>1. ASSUME NEW i \in 1..(1 + n), i # 1 PROVE i - 1 \in 1..n /\ i = (i - 1) + 1
    BY <1>2, <2>1
  <2>2. QED BY <2>1
<1>5. \A j \in 1..n : s[j].key # e.key
    BY <1>2 DEF KeysOf
<1>6. KeysDiffer(t)
  <2> SUFFICES ASSUME NEW i \in 1..(1 + n), NEW j \in 1..(1 + n), t[i].key = t[j].key
               PROVE  i = j
    BY <1>2 DEF KeysDiffer
  <2>1. CASE i = 1 \/ j = 1
    BY <1>3, <1>4, <1>5, <2>1
  <2>2. CASE i # 1 /\ j # 1
    <3>1. PICK x \in 1..n, y \in 1..n : i = x + 1 /\ j = y + 1
        BY <1>4, <2>2
    <3>2. s[x].key = s[y].key
        BY <1>3, <3>1
    <3>3. QED BY <1>2, <3>1, <3>2 DEF KeysDiffer
  <2>3. QED BY <2>1, <2>2
<1>7. 1 \in DOMAIN t
    BY <1>2
<1>8. KeysOf(t) = KeysOf(s) \cup {e.key}
  <2>1. KeysOf(t) = {t[i].key : i \in 1..(1 + n)} /\ KeysOf(s) = {s[i].key : i \in 1..n}
    BY <1>2 DEF KeysOf
  <2>2. ASSUME NEW i \in 1..(1 + n) PROVE t[i].key \in KeysOf(s) \cup {e.key}
    <3>1. CASE i = 1
        BY <1>3, <3>1
    <3>2. CASE i # 1
        BY <1>3, <1>4, <2>1, <3>2
    <3>3. QED BY <3>1, <3>2
  <2>3. ASSUME NEW j \in 1..n PROVE s[j].key \in KeysOf(t)
    <3>1. t[j + 1].key \in KeysOf(t)
        BY <1>3, <2>1
    <3>2. QED BY <1>3, <3>1
  <2>4. e.key \in KeysOf(t)
    BY <1>2, <1>3, <1>7, <2>1
  <2>5. QED BY <2>1, <2>2, <2>3, <2>4
<1>9. QED BY <1>6, <1>8 DEF t

LEMMA ReplaceKeys ==
    ASSUME NEW S, NEW s \in Seq(S), KeysDiffer(s), NEW i \in 1..Len(s),
           NEW e \in S, e.key = s[i].key
    PROVE  KeysDiffer([s EXCEPT ![i] = e]) /\ KeysOf([s EXCEPT ![i] = e]) = KeysOf(s)
<1> DEFINE t == [s EXCEPT ![i] = e]
<1>1. /\ DOMAIN s = 1..Len(s) /\ DOMAIN t = 1..Len(s)
      /\ \A j \in 1..Len(s) : t[j] = IF j = i THEN e ELSE s[j]
    BY LenProperties, ExceptSeq
<1> HIDE DEF t
<1>2. \A j \in 1..Len(s) : t[j].key = s[j].key
    BY <1>1
<1>3. QED BY <1>1, <1>2 DEF KeysDiffer, KeysOf, t

(* Of a sequence without duplicates, the rest has the other keys.          *)
LEMMA SplitKeys ==
    ASSUME NEW S, NEW s \in Seq(S), KeysDiffer(s), NEW i \in 0..Len(s)
    PROVE  /\ KeysDiffer(SubSeq(s, i + 1, Len(s)))
           /\ KeysOf(SubSeq(s, i + 1, Len(s))) = KeysOf(s) \ KeysOf(SubSeq(s, 1, i))
<1> DEFINE n == Len(s)
           l == SubSeq(s, 1, i)
           r == SubSeq(s, i + 1, n)
<1>1. /\ n \in Nat /\ i \in Nat /\ i <= n
      /\ DOMAIN s = 1..n /\ DOMAIN l = 1..i /\ DOMAIN r = 1..(n - i)
      /\ \A j \in 1..i : l[j] = s[j]
      /\ \A j \in 1..(n - i) : r[j] = s[i + j]
    BY LenProperties, Parts
<1> HIDE DEF n, l, r
<1>2. \A j \in 1..(n - i) : i + j \in 1..n /\ i + j \notin 1..i
    BY <1>1
<1>3. \A m \in 1..n : m \in 1..i \/ \E j \in 1..(n - i) : m = i + j
  <2>1. ASSUME NEW m \in 1..n, m \notin 1..i PROVE m - i \in 1..(n - i) /\ m = i + (m - i)
    BY <1>1, <2>1
  <2>2. QED BY <2>1
<1>4. \A m \in 1..i : m \in 1..n
    BY <1>1
<1>5. KeysDiffer(r)
  <2> SUFFICES ASSUME NEW x \in 1..(n - i), NEW y \in 1..(n - i), r[x].key = r[y].key
               PROVE  x = y
    BY <1>1 DEF KeysDiffer
  <2>1. s[i + x].key = s[i + y].key /\ i + x \in 1..n /\ i + y \in 1..n
    BY <1>1, <1>2
  <2>2. i + x = i + y
    BY <1>1, <2>1 DEF KeysDiffer
  <2>3. QED BY <1>1, <2>2
<1>6. KeysOf(r) \subseteq KeysOf(s) \ KeysOf(l)
  <2> SUFFICES ASSUME NEW j \in 1..(n - i)
               PROVE  r[j].key \in KeysOf(s) /\ r[j].key \notin KeysOf(l)
    BY <1>1 DEF KeysOf
  <2>1. r[j].key \in KeysOf(s)
    BY <1>1, <1>2 DEF KeysOf
  <2>2. ASSUME NEW m \in 1..i, r[j].key = l[m].key PROVE FALSE
    <3>1. s[i + j].key = s[m].key
        BY <1>1, <2>2
    <3>2. i + j = m
        BY <1>1, <1>2, <1>4, <3>1 DEF KeysDiffer
    <3>3. QED BY <1>2, <3>2
  <2>3. QED BY <1>1, <2>1, <2>2 DEF KeysOf
<1>7. KeysOf(s) \ KeysOf(l) \subseteq KeysOf(r)
  <2> SUFFICES ASSUME NEW m \in 1..n, s[m].key \notin KeysOf(l)
               PROVE  s[m].key \in KeysOf(r)
    BY <1>1 DEF KeysOf
  <2>1. m \notin 1..i
    BY <1>1 DEF KeysOf
  <2>2. PICK j \in 1..(n - i) : m = i + j
    BY <1>3, <2>1
  <2>3. QED BY <1>1, <2>2 DEF KeysOf
<1>8. QED BY <1>5, <1>6, <1>7 DEF l, r, n

-----------------------------------------------------------------------------
(* The sum of c over the subsets of a finite set S, as MapThenSumSet       *)
(* defines it, an element at a time.                                       *)
Pick(s) == CHOOSE x \in s : TRUE

SumStep(f, c, s) == IF s = {} THEN 0 ELSE c[Pick(s)] + f[s \ {Pick(s)}]

IsSum(f, c, S) == f \in [SUBSET S -> Nat] /\ \A s \in SUBSET S : f[s] = SumStep(f, c, s)

(* The element that CHOOSE takes is one; a set is smaller without it.      *)
LEMMA PickRemoves ==
    ASSUME NEW S, IsFiniteSet(S), NEW s \in SUBSET S, NEW x \in s
    PROVE  /\ s \ {x} \in SUBSET S
           /\ Pick(s) \in s
           /\ Cardinality(s) \in Nat /\ Cardinality(s) # 0
           /\ Cardinality(s \ {x}) = Cardinality(s) - 1
<1>1. IsFiniteSet(s) /\ s # {}
    BY FS_Subset
<1>2. Cardinality(s) \in Nat /\ Cardinality(s) # 0
    BY <1>1, FS_CardinalityType, FS_EmptySet
<1>3. Cardinality(s \ {x}) = Cardinality(s) - 1
    BY <1>1, FS_RemoveElement
<1>4. QED BY <1>2, <1>3 DEF Pick

(* There is a function that sums over sets as MapThenSumSet does,          *)
LEMMA SumExists ==
    ASSUME NEW S, IsFiniteSet(S), NEW c \in [S -> Nat]
    PROVE  \E f : IsSum(f, c, S)
<1> DEFINE n == Cardinality(S)
           Small(m) == {s \in SUBSET S : Cardinality(s) <= m}
           Sums(m) == {f \in [Small(m) -> Nat] : \A s \in Small(m) : f[s] = SumStep(f, c, s)}
           T == {m \in 0..n : Sums(m) # {}}
<1>1. n \in Nat /\ \A s \in SUBSET S : IsFiniteSet(s) /\ Cardinality(s) \in 0..n
    BY FS_CardinalityType, FS_Subset
<1> HIDE DEF n
<1>2. 0 \in T
  <2>1. \A s \in Small(0) : s = {}
    BY <1>1, FS_EmptySet
  <2> DEFINE g == [s \in Small(0) |-> 0]
  <2>2. g \in [Small(0) -> Nat] /\ \A s \in Small(0) : g[s] = SumStep(g, c, s)
    BY <2>1 DEF SumStep
  <2> HIDE DEF g, Small
  <2>3. g \in Sums(0)
    BY <2>2
  <2>4. 0 \in 0..n
    BY <1>1
  <2>5. QED BY <2>3, <2>4
<1>3. ASSUME NEW m \in 0..n, m + 1 \in 0..n, m \in T PROVE m + 1 \in T
  <2>1. PICK f \in [Small(m) -> Nat] : \A s \in Small(m) : f[s] = SumStep(f, c, s)
    BY <1>3
  <2> DEFINE g == [s \in Small(m + 1) |-> SumStep(f, c, s)]
  <2>2. ASSUME NEW s \in Small(m + 1), s # {}
        PROVE  Pick(s) \in S /\ s \ {Pick(s)} \in Small(m) /\ s \ {Pick(s)} \in Small(m + 1)
    <3>1. PICK x \in s : TRUE
        BY <2>2
    <3>2. Pick(s) \in s
        BY <3>1, PickRemoves
    <3>3. /\ s \ {Pick(s)} \in SUBSET S /\ Cardinality(s) \in Nat
          /\ Cardinality(s \ {Pick(s)}) = Cardinality(s) - 1
        BY <3>2, PickRemoves
    <3>4. Cardinality(s) - 1 <= m /\ Cardinality(s) - 1 <= m + 1
        BY <1>1, <3>3
    <3>5. QED BY <3>2, <3>3, <3>4
  <2>3. g \in [Small(m + 1) -> Nat]
    <3>1. ASSUME NEW s \in Small(m + 1) PROVE SumStep(f, c, s) \in Nat
      <4>1. CASE s = {}
        BY <4>1 DEF SumStep
      <4>2. CASE s # {}
        <5>1. c[Pick(s)] \in Nat /\ f[s \ {Pick(s)}] \in Nat
            BY <2>2, <4>2
        <5>2. QED BY <4>2, <5>1 DEF SumStep
      <4>3. QED BY <4>1, <4>2
    <3>2. QED BY <3>1
  <2>4. ASSUME NEW s \in Small(m + 1) PROVE g[s] = SumStep(g, c, s)
    <3>1. CASE s = {}
        BY <3>1 DEF SumStep
    <3>2. CASE s # {}
      <4>1. g[s \ {Pick(s)}] = f[s \ {Pick(s)}]
        BY <2>1, <2>2, <3>2
      <4>2. QED BY <3>2, <4>1 DEF SumStep
    <3>3. QED BY <3>1, <3>2
  <2> HIDE DEF g, Small
  <2>5. g \in Sums(m + 1)
    BY <2>3, <2>4
  <2>6. QED BY <1>3, <2>5
<1> HIDE DEF T
<1>4. n \in T
  <2>1. 0..n \subseteq T
    BY <1>1, <1>2, <1>3, IntervalInduction
  <2>2. QED BY <1>1, <2>1
<1>5. Small(n) = SUBSET S
    BY <1>1
<1> HIDE DEF Small
<1>6. QED BY <1>4, <1>5 DEF T, IsSum

(* and any such function sums to natural numbers.                          *)
LEMMA SumIsNat ==
    ASSUME NEW S, IsFiniteSet(S), NEW c \in [S -> Nat],
           NEW f, f = [s \in SUBSET S |-> SumStep(f, c, s)]
    PROVE  IsSum(f, c, S)
<1> DEFINE n == Cardinality(S)
           T == {m \in 0..n : \A t \in SUBSET S : Cardinality(t) <= m => f[t] \in Nat}
<1>1. n \in Nat /\ \A t \in SUBSET S : IsFiniteSet(t) /\ Cardinality(t) \in 0..n
    BY FS_CardinalityType, FS_Subset
<1>2. \A s \in SUBSET S : f[s] = SumStep(f, c, s)
    OBVIOUS
<1> HIDE DEF n
<1>3. 0 \in T
  <2>1. ASSUME NEW t \in SUBSET S, Cardinality(t) <= 0 PROVE f[t] \in Nat
    <3>1. t = {}
        BY <1>1, <2>1, FS_EmptySet
    <3>2. QED BY <1>2, <3>1 DEF SumStep
  <2>2. 0 \in 0..n
    BY <1>1
  <2>3. QED BY <2>1, <2>2
<1>4. ASSUME NEW m \in 0..n, m + 1 \in 0..n, m \in T PROVE m + 1 \in T
  <2>1. ASSUME NEW t \in SUBSET S, Cardinality(t) <= m + 1 PROVE f[t] \in Nat
    <3>1. CASE t = {}
        BY <1>2, <3>1 DEF SumStep
    <3>2. CASE t # {}
      <4>1. PICK y \in t : TRUE
        BY <3>2
      <4>2. Pick(t) \in t
        BY <4>1, PickRemoves
      <4>3. /\ t \ {Pick(t)} \in SUBSET S /\ Cardinality(t) \in Nat
            /\ Cardinality(t \ {Pick(t)}) = Cardinality(t) - 1
        BY <4>2, PickRemoves
      <4>4. Cardinality(t \ {Pick(t)}) <= m
        BY <1>1, <2>1, <4>3
      <4>5. f[t \ {Pick(t)}] \in Nat /\ c[Pick(t)] \in Nat
        BY <1>4, <4>2, <4>3, <4>4
      <4>6. f[t] = c[Pick(t)] + f[t \ {Pick(t)}]
        BY <1>2, <3>2 DEF SumStep
      <4>7. QED BY <4>5, <4>6
    <3>3. QED BY <3>1, <3>2
  <2>2. QED BY <1>4, <2>1
<1> HIDE DEF T
<1>5. n \in T
  <2>1. 0..n \subseteq T
    BY <1>1, <1>3, <1>4, IntervalInduction
  <2>2. QED BY <1>1, <2>1
<1>6. ASSUME NEW t \in SUBSET S PROVE f[t] \in Nat
  <2>1. Cardinality(t) <= n
    BY <1>1
  <2>2. QED BY <1>5, <2>1 DEF T
<1>7. f \in [SUBSET S -> Nat]
    BY <1>6
<1>8. QED BY <1>2, <1>7 DEF IsSum

(* The order in which elements are taken does not matter.                  *)
LEMMA SumTakes ==
    ASSUME NEW S, IsFiniteSet(S), NEW c \in [S -> Nat], NEW f, IsSum(f, c, S),
           NEW s \in SUBSET S, NEW x \in s
    PROVE  f[s] = c[x] + f[s \ {x}]
<1> DEFINE n == Cardinality(S)
           Takes(t) == \A y \in t : f[t] = c[y] + f[t \ {y}]
           T == {m \in 0..n : \A t \in SUBSET S : Cardinality(t) <= m => Takes(t)}
<1>1. n \in Nat /\ \A t \in SUBSET S : IsFiniteSet(t) /\ Cardinality(t) \in 0..n
    BY FS_CardinalityType, FS_Subset
<1>2. /\ \A t \in SUBSET S : f[t] \in Nat
      /\ \A t \in SUBSET S : t # {} => f[t] = c[Pick(t)] + f[t \ {Pick(t)}]
    BY DEF IsSum, SumStep
<1> HIDE DEF n
<1>3. 0 \in T
  <2>1. ASSUME NEW t \in SUBSET S, Cardinality(t) <= 0 PROVE Takes(t)
    <3>1. t = {}
        BY <1>1, <2>1, FS_EmptySet
    <3>2. QED BY <3>1
  <2> HIDE DEF Takes
  <2>2. QED BY <1>1, <2>1
<1>4. ASSUME NEW m \in 0..n, m + 1 \in 0..n, m \in T PROVE m + 1 \in T
  <2>1. ASSUME NEW t \in SUBSET S, Cardinality(t) <= m + 1, NEW y \in t
        PROVE  f[t] = c[y] + f[t \ {y}]
    <3> DEFINE z == Pick(t)
    <3>1. z \in t /\ f[t] = c[z] + f[t \ {z}]
        BY <1>2, PickRemoves
    <3> HIDE DEF z
    <3>2. CASE z = y
        BY <3>1, <3>2
    <3>3. CASE z # y
      <4>1. /\ t \ {z} \in SUBSET S /\ t \ {y} \in SUBSET S /\ Cardinality(t) \in Nat
            /\ Cardinality(t \ {z}) = Cardinality(t) - 1
            /\ Cardinality(t \ {y}) = Cardinality(t) - 1
        BY <3>1, PickRemoves
      <4>2. Cardinality(t \ {z}) <= m /\ Cardinality(t \ {y}) <= m
        BY <1>1, <2>1, <4>1
      <4>3. Takes(t \ {z}) /\ Takes(t \ {y})
        BY <1>4, <4>1, <4>2
      <4> DEFINE u == (t \ {y}) \ {z}
      <4>4. u = (t \ {z}) \ {y} /\ u \in SUBSET S
        OBVIOUS
      <4>5. f[t \ {z}] = c[y] + f[u]
        BY <3>3, <4>3, <4>4
      <4>6. f[t \ {y}] = c[z] + f[u]
        BY <3>1, <3>3, <4>3
      <4>7. c[y] \in Nat /\ c[z] \in Nat /\ f[u] \in Nat
        BY <1>2, <3>1, <4>4
      <4> HIDE DEF u
      <4>8. c[z] + (c[y] + f[u]) = c[y] + (c[z] + f[u])
        BY <4>7
      <4>9. QED BY <3>1, <4>5, <4>6, <4>8
    <3>4. QED BY <3>2, <3>3
  <2>2. QED BY <1>4, <2>1
<1> HIDE DEF T
<1>5. n \in T
  <2>1. 0..n \subseteq T
    BY <1>1, <1>3, <1>4, IntervalInduction
  <2>2. QED BY <1>1, <2>1
<1>6. Takes(s)
    BY <1>1, <1>5 DEF T
<1>7. QED BY <1>6

(* Summed over its keys, the entries of a sequence cost its bytes.         *)
LEMMA SumIsBytes ==
    ASSUME NEW E, Priced(E), NEW l \in Seq(E), KeysDiffer(l), NEW o \in Nat,
           NEW c, \A i \in 1..Len(l) : c[l[i].key] = CostOf(l[i], o),
           NEW f, c \in [KeysOf(l) -> Nat], IsSum(f, c, KeysOf(l))
    PROVE  f[KeysOf(l)] = BytesOf(l, o)
<1> DEFINE n == Len(l)
           S == KeysOf(l)
           b == BytesUpTo(l, o)
           First(i) == {l[j].key : j \in 1..i}
           T == {i \in 0..n : f[First(i)] = b[i]}
<1>1. n \in Nat /\ DOMAIN l = 1..n /\ S = First(n)
    BY LenProperties DEF KeysOf
<1>2. b[0] = 0 /\ b \in [0..n -> Nat] /\ \A i \in 1..n : b[i] = b[i - 1] + CostOf(l[i], o)
    BY BytesSteps
<1> HIDE DEF b, n
<1>3. IsFiniteSet(S)
  <2>1. IsFiniteSet(1..n)
    BY <1>1, FS_Interval
  <2> DEFINE g == [i \in 1..n |-> l[i].key]
  <2>2. g \in Surjection(1..n, S)
    BY <1>1 DEF Surjection
  <2>3. QED BY <2>1, <2>2, FS_Surjection
<1> HIDE DEF S
<1>4. 0 \in T
  <2>1. First(0) = {} /\ {} \in SUBSET S
    OBVIOUS
  <2>2. f[{}] = 0
    BY <2>1 DEF IsSum, SumStep, S
  <2>3. f[First(0)] = b[0]
    BY <1>2, <2>1, <2>2, Zenon
  <2>4. 0 \in 0..n
    BY <1>1
  <2> HIDE DEF First
  <2>5. QED BY <2>3, <2>4
<1>5. ASSUME NEW i \in 0..n, i + 1 \in 0..n, i \in T PROVE i + 1 \in T
  <2> DEFINE k == l[i + 1].key
  <2>1. i + 1 \in 1..n /\ (i + 1) - 1 = i /\ i \in Nat /\ 1..(i + 1) = (1..i) \cup {i + 1}
    BY <1>1, <1>5
  <2>2. First(i + 1) = First(i) \cup {k}
    BY <2>1
  <2>3. k \notin First(i)
    <3>1. ASSUME NEW j \in 1..i, l[j].key = k PROVE FALSE
      <4>1. j \in 1..n /\ j # i + 1
        BY <1>1, <2>1
      <4>2. QED BY <1>1, <2>1, <3>1, <4>1 DEF KeysDiffer
    <3>2. QED BY <3>1
  <2>4. First(i + 1) \in SUBSET S
    <3>1. \A j \in 1..(i + 1) : j \in 1..n
        BY <1>1, <2>1
    <3>2. QED BY <1>1, <3>1
  <2>5. k \in First(i + 1) /\ First(i + 1) \ {k} = First(i)
    BY <2>2, <2>3
  <2>6. c \in [S -> Nat] /\ IsSum(f, c, S)
    BY DEF S
  <2> DEFINE F == First(i + 1)
  <2>7. F \in SUBSET S /\ k \in F
    BY <2>4, <2>5
  <2> HIDE DEF F, k
  <2>8. f[F] = c[k] + f[F \ {k}]
    BY <1>3, <2>6, <2>7, SumTakes
  <2>9. c[k] = CostOf(l[i + 1], o) /\ c[k] \in Nat
    BY <2>1, <2>6, <2>7 DEF k, n
  <2>10. b[i + 1] = b[i] + c[k] /\ b[i] \in Nat /\ f[First(i)] = b[i]
    <3>1. f[First(i)] = b[i]
        BY <1>5
    <3>2. b[i] \in Nat
        BY <1>2
    <3>3. b[i + 1] = b[i] + CostOf(l[i + 1], o)
        BY <1>2, <2>1
    <3>4. QED BY <2>9, <3>1, <3>2, <3>3
  <2>11. f[F] = b[i + 1]
    <3>1. F \ {k} = First(i)
        BY <2>5 DEF F
    <3> HIDE DEF First
    <3>2. f[F] = c[k] + b[i]
        BY <2>8, <2>10, <3>1
    <3>3. QED BY <2>9, <2>10, <3>2
  <2>12. QED BY <1>5, <2>11 DEF F
<1> HIDE DEF T
<1>6. 0..n \subseteq T
    BY <1>1, <1>4, <1>5, IntervalInduction
<1>7. n \in T
    BY <1>1, <1>6
<1>8. QED BY <1>1, <1>7 DEF T, BytesOf, b, n, S

-----------------------------------------------------------------------------
(* The contents that a sequence stands for.                                *)
LEMMA ContentsAt ==
    ASSUME NEW E, Priced(E), NEW l \in Seq(E), KeysDiffer(l)
    PROVE  /\ \A i \in 1..Len(l) : l[i].key \in Keys /\ ContentsOf(l)[l[i].key] = l[i].value
           /\ \A k \in Keys : k \notin KeysOf(l) => ContentsOf(l)[k] = None
           /\ \A k \in Keys : k \in KeysOf(l) => ContentsOf(l)[k] \in Values
           /\ KeysOf(l) = {k \in Keys : ContentsOf(l)[k] # None}
<1>1. DOMAIN l = 1..Len(l) /\ \A i \in 1..Len(l) : l[i] \in E
    BY LenProperties, ElementOfSeq
<1>2. \A i \in 1..Len(l) : l[i].key \in Keys /\ l[i].value \in Values /\ l[i].key \in KeysOf(l)
    BY <1>1 DEF Priced, KeysOf
<1>3. \A k \in KeysOf(l) : PositionOf(k, l) \in 1..Len(l) /\ l[PositionOf(k, l)].key = k
    BY PositionFound
<1>4. \A i \in 1..Len(l) : PositionOf(l[i].key, l) = i
    BY <1>1, <1>2, <1>3 DEF KeysDiffer
<1>5. ASSUME NEW i \in 1..Len(l) PROVE ContentsOf(l)[l[i].key] = l[i].value
    BY <1>2, <1>4 DEF ContentsOf
<1>6. \A k \in Keys : k \notin KeysOf(l) => ContentsOf(l)[k] = None
    BY DEF ContentsOf
<1>7. \A k \in Keys : k \in KeysOf(l) => ContentsOf(l)[k] \in Values
    BY <1>2, <1>3 DEF ContentsOf
<1>8. KeysOf(l) \subseteq Keys
    BY <1>2, <1>3
<1>9. None \notin Values
    BY CacheConstants
<1>10. KeysOf(l) = {k \in Keys : ContentsOf(l)[k] # None}
    BY <1>6, <1>7, <1>8, <1>9
<1>11. QED BY <1>2, <1>5, <1>6, <1>7, <1>10

(* What identifies the contents of a sequence.                             *)
LEMMA SameContents ==
    ASSUME NEW E, Priced(E), NEW l \in Seq(E), KeysDiffer(l), NEW c, c = [k \in Keys |-> c[k]],
           \A i \in 1..Len(l) : c[l[i].key] = l[i].value,
           \A k \in Keys : k \notin KeysOf(l) => c[k] = None
    PROVE  ContentsOf(l) = c
<1>1. ASSUME NEW k \in Keys PROVE ContentsOf(l)[k] = c[k]
  <2>1. CASE k \notin KeysOf(l)
    BY <2>1, ContentsAt
  <2>2. CASE k \in KeysOf(l)
    <3>1. PICK i \in 1..Len(l) : l[i].key = k
        BY <2>2, LenProperties DEF KeysOf
    <3>2. QED BY <3>1, ContentsAt
  <2>3. QED BY <2>1, <2>2
<1>2. ContentsOf(l) = [k \in Keys |-> ContentsOf(l)[k]]
    BY DEF ContentsOf
<1>3. QED BY <1>1, <1>2

(* A sequence that has v for k, and entries of s for the other keys of s.  *)
LEMMA ContentsWith ==
    ASSUME NEW E, Priced(E), NEW s \in Seq(E), KeysDiffer(s), NEW l \in Seq(E), KeysDiffer(l),
           NEW k \in Keys, NEW v \in Values, KeysOf(l) = KeysOf(s) \cup {k},
           \A i \in 1..Len(l) : \/ l[i].key = k /\ l[i].value = v
                                \/ l[i].key # k /\ \E j \in 1..Len(s) : l[i] = s[j]
    PROVE  ContentsOf(l) = [ContentsOf(s) EXCEPT ![k] = v]
<1> DEFINE c == [ContentsOf(s) EXCEPT ![k] = v]
<1>1. c = [j \in Keys |-> IF j = k THEN v ELSE ContentsOf(s)[j]]
    BY DEF ContentsOf
<1> HIDE DEF c
<1>2. ASSUME NEW i \in 1..Len(l) PROVE c[l[i].key] = l[i].value
  <2>1. l[i].key \in Keys
    BY ContentsAt
  <2>2. CASE l[i].key = k /\ l[i].value = v
    BY <1>1, <2>1, <2>2
  <2>3. CASE l[i].key # k /\ \E j \in 1..Len(s) : l[i] = s[j]
    <3>1. ContentsOf(s)[l[i].key] = l[i].value
        BY <2>3, ContentsAt
    <3>2. QED BY <1>1, <2>1, <2>3, <3>1
  <2>4. QED BY <2>2, <2>3
<1>3. ASSUME NEW j \in Keys, j \notin KeysOf(l) PROVE c[j] = None
    BY <1>1, <1>3, ContentsAt
<1>4. c = [j \in Keys |-> c[j]]
    BY <1>1
<1>5. ContentsOf(l) = c
    BY <1>2, <1>3, <1>4, SameContents
<1>6. QED BY <1>5 DEF c

(* The sum that CacheStrategy takes over the keys of the contents a,       *)
ValueSum(f, a, S, overhead) ==
    [s \in SUBSET S |->
        IF s = {} THEN 0
        ELSE KeyLen[CHOOSE x \in s : TRUE] + ValueLen[a[CHOOSE x \in s : TRUE]] + overhead
                 + f[s \ {CHOOSE x \in s : TRUE}]]

(* is what BytesOf counts along the sequence.                              *)
LEMMA ContentsSum ==
    ASSUME NEW E, Priced(E), NEW l \in Seq(E), KeysDiffer(l), NEW o \in Nat
    PROVE  LET a == ContentsOf(l)
               S == {k \in Keys : a[k] # None}
           IN (CHOOSE f : f = ValueSum(f, a, S, o))[S] = BytesOf(l, o)
<1> DEFINE a == ContentsOf(l)
           S == {k \in Keys : a[k] # None}
           c == [k \in S |-> KeyLen[k] + ValueLen[a[k]] + o]
           Step(f) == ValueSum(f, a, S, o)
<1>2. /\ S = KeysOf(l) /\ S \subseteq Keys /\ \A k \in S : a[k] \in Values
      /\ \A i \in 1..Len(l) : l[i].key \in S /\ a[l[i].key] = l[i].value
  <2>1. DOMAIN l = 1..Len(l)
    BY LenProperties
  <2>2. S = KeysOf(l)
    BY ContentsAt
  <2>3. \A i \in 1..Len(l) : l[i].key \in KeysOf(l)
    BY <2>1 DEF KeysOf
  <2>4. QED BY <2>2, <2>3, ContentsAt
<1> HIDE DEF a, S
<1>3. c \in [S -> Nat]
  <2>1. ASSUME NEW k \in S PROVE KeyLen[k] + ValueLen[a[k]] + o \in Nat
    <3>1. KeyLen[k] \in Nat /\ ValueLen[a[k]] \in Nat
        BY <1>2, CacheConstants
    <3>2. QED BY <3>1
  <2>2. QED BY <2>1
<1>4. \A i \in 1..Len(l) : c[l[i].key] = CostOf(l[i], o)
    BY <1>2 DEF CostOf
<1>5. IsFiniteSet(S)
  <2>1. IsFiniteSet(1..Len(l)) /\ DOMAIN l = 1..Len(l)
    BY LenProperties, FS_Interval
  <2> DEFINE g == [i \in 1..Len(l) |-> l[i].key]
  <2>2. g \in Surjection(1..Len(l), S)
    BY <1>2, <2>1 DEF Surjection, KeysOf
  <2>3. QED BY <2>1, <2>2, FS_Surjection
<1>6. ASSUME NEW f PROVE Step(f) = [s \in SUBSET S |-> SumStep(f, c, s)]
  <2>1. ASSUME NEW s \in SUBSET S PROVE SumStep(f, c, s) = Step(f)[s]
    <3>1. CASE s = {}
        BY <3>1 DEF SumStep, ValueSum
    <3>2. CASE s # {}
      <4>1. Pick(s) \in s
        BY <3>2 DEF Pick
      <4>2. c[Pick(s)] = KeyLen[Pick(s)] + ValueLen[a[Pick(s)]] + o
        BY <4>1
      <4>3. QED BY <3>2, <4>2 DEF SumStep, ValueSum, Pick
    <3>3. QED BY <3>1, <3>2
  <2> HIDE DEF c
  <2>2. QED BY <2>1 DEF ValueSum
<1> HIDE DEF c, Step
<1>7. \E f : f = Step(f)
  <2>1. PICK f : IsSum(f, c, S)
    BY <1>3, <1>5, SumExists
  <2>2. f = [s \in SUBSET S |-> SumStep(f, c, s)]
    BY <2>1 DEF IsSum
  <2>3. QED BY <1>6, <2>2
<1>8. ASSUME NEW f, f = Step(f) PROVE f[S] = BytesOf(l, o)
  <2>1. f = [s \in SUBSET S |-> SumStep(f, c, s)]
    BY <1>6, <1>8
  <2>2. IsSum(f, c, S)
    BY <1>3, <1>5, <2>1, SumIsNat
  <2>3. f[KeysOf(l)] = BytesOf(l, o)
    BY <1>2, <1>3, <1>4, <2>2, SumIsBytes
  <2>4. QED BY <1>2, <2>3
<1>9. (CHOOSE f : f = Step(f))[S] = BytesOf(l, o)
    BY <1>7, <1>8
<1>10. QED BY <1>9 DEF a, S, Step
=============================================================================
