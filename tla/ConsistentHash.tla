--------------------------- MODULE ConsistentHash ---------------------------
(***************************************************************************)
(* internal/service/consistenthash/consistenthash.go: the ring of virtual  *)
(* nodes that tells which node owns a key.                                 *)
(*                                                                         *)
(* The hash function is any function of HashFunctions, from virtual nodes  *)
(* to 0..MaxHash, chosen at the start; a key is the hash it has, and every *)
(* hash is asked for.  (The empty key has none: GetTruthNode("") is "".)   *)
(***************************************************************************)
EXTENDS Naturals, Sequences, FiniteSets, SequencesExt

CONSTANTS Nodes,         \* the real nodes
          Replicas,      \* virtual nodes per real node
          MaxHash,       \* the greatest hash
          HashFunctions, \* the hash functions considered
          MaxRing,       \* bound on the length of the ring
          Nobody,        \* "", what an absent entry of hashMap reads as
          Panic          \* what a lookup comes to that panics

Hashes == 0..MaxHash
Virtual == Nodes \X (0..Replicas - 1)

ASSUME RingConstants ==
    /\ Nobody \notin Nodes
    /\ Panic \notin Nodes \cup {Nobody}
    /\ Replicas \in Nat \ {0}
    /\ {MaxHash, MaxRing} \subseteq Nat
    /\ HashFunctions \subseteq [Virtual -> Hashes]

VARIABLES hash,      \* hash[<<n, i>>]: the hash of the virtual node i of n
          keys,      \* m.keys: the hashes on the ring, sorted
          hashMap,   \* m.hashMap: the real node of each hash
          nodes,     \* history: the nodes added and not removed since
          readded,   \* history: whether a node was added while it was there
          panicked   \* whether RemovePeer sliced keys out of bounds

vars == <<hash, keys, hashMap, nodes, readded, panicked>>

Init ==
    /\ hash \in HashFunctions
    /\ keys = << >>
    /\ hashMap = [h \in Hashes |-> Nobody]
    /\ nodes = {}
    /\ readded = FALSE
    /\ panicked = FALSE

-----------------------------------------------------------------------------
(* sort.Ints: at place i comes the number that fewer than i are less than, *)
(* and no fewer than i are at most.                                        *)
Sorted(s) ==
    [i \in DOMAIN s |-> CHOOSE v \in ToSet(s) :
        /\ Cardinality({j \in DOMAIN s : s[j] < v}) < i
        /\ i <= Cardinality({j \in DOMAIN s : s[j] <= v})]

HashesOf(n) == [i \in 1..Replicas |-> hash[<<n, i - 1>>]]

(* Fault variant of AddNode: the ring is not sorted again.                 *)
AddNodeUnsorted(ns) ==
    /\ ~panicked
    /\ Len(keys) + Replicas * Len(ns) <= MaxRing
    /\ keys' = keys \o FlattenSeq([j \in DOMAIN ns |-> HashesOf(ns[j])])
    /\ hashMap' = [h \in Hashes |->
          LET at == {j \in DOMAIN ns : h \in ToSet(HashesOf(ns[j]))}
          IN IF at = {} THEN hashMap[h] ELSE ns[CHOOSE j \in at : \A i \in at : i <= j]]
    /\ nodes' = nodes \cup ToSet(ns)
    /\ readded' = (readded \/ ~IsInjective(ns) \/ ToSet(ns) \cap nodes # {})
    /\ UNCHANGED <<hash, panicked>>

(* Fault variant of AddNode: hashMap is made anew.                         *)
AddNodeRemakingMap(ns) ==
    /\ ~panicked
    /\ Len(keys) + Replicas * Len(ns) <= MaxRing
    /\ keys' = Sorted(keys \o FlattenSeq([j \in DOMAIN ns |-> HashesOf(ns[j])]))
    /\ hashMap' = [h \in Hashes |->
          LET at == {j \in DOMAIN ns : h \in ToSet(HashesOf(ns[j]))}
          IN IF at = {} THEN Nobody ELSE ns[CHOOSE j \in at : \A i \in at : i <= j]]
    /\ nodes' = nodes \cup ToSet(ns)
    /\ readded' = (readded \/ ~IsInjective(ns) \/ ToSet(ns) \cap nodes # {})
    /\ UNCHANGED <<hash, panicked>>

(* The hashes of every virtual node join the ring, the last one to have a  *)
(* hash takes it over, and the ring is sorted.                             *)
AddNode(ns) ==
    /\ ~panicked
    /\ Len(keys) + Replicas * Len(ns) <= MaxRing
    /\ keys' = Sorted(keys \o FlattenSeq([j \in DOMAIN ns |-> HashesOf(ns[j])]))
    /\ hashMap' = [h \in Hashes |->
          LET at == {j \in DOMAIN ns : h \in ToSet(HashesOf(ns[j]))}
          IN IF at = {} THEN hashMap[h] ELSE ns[CHOOSE j \in at : \A i \in at : i <= j]]
    /\ nodes' = nodes \cup ToSet(ns)
    /\ readded' = (readded \/ ~IsInjective(ns) \/ ToSet(ns) \cap nodes # {})
    /\ UNCHANGED <<hash, panicked>>

(* sort.Search: the first index whose hash is no less than h; taken modulo *)
(* the length, the first of the ring if there is none.                     *)
Index(h) ==
    LET ahead == {i \in DOMAIN keys : keys[i] >= h}
    IN IF ahead = {} THEN 1 ELSE CHOOSE i \in ahead : \A j \in ahead : i <= j

(* The real node that owns the keys of hash h; on an empty ring the modulo *)
(* panics.                                                                 *)
GetTruthNode(h) == IF keys = << >> THEN Panic ELSE hashMap[keys[Index(h)]]

(* One step of the loop that removes value from keys: the loop ranges over *)
(* the array as it was, of which only the first len are still in keys, and *)
(* every removal shifts its elements under the loop.                       *)
Scan(s, i, value) ==
    IF ~s.ok \/ s.array[i] # value THEN s
    ELSE IF i > s.len THEN [s EXCEPT !.ok = FALSE]
    ELSE [s EXCEPT !.len = @ - 1,
                   !.array = [j \in DOMAIN @ |-> IF i <= j /\ j < s.len THEN @[j + 1] ELSE @[j]]]

RemoveHash(s, value) ==
    IF ~s.ok THEN s
    ELSE LET scan[i \in 0..s.len] ==
                IF i = 0 THEN [s EXCEPT !.array = SubSeq(@, 1, s.len)]
                ELSE Scan(scan[i - 1], i, value)
         IN scan[s.len]

(* The loop over the hashes to remove.                                     *)
RemoveHashes(s, virtualKeys) ==
    LET removed[i \in 0..Len(virtualKeys)] ==
            IF i = 0 THEN s ELSE RemoveHash(removed[i - 1], virtualKeys[i])
    IN removed[Len(virtualKeys)]

(* Fault variant of RemovePeer: the ring keeps the hashes.                 *)
RemovePeerFromMap(peer) ==
    /\ ~panicked
    /\ peer \in nodes
    /\ hashMap' = [h \in Hashes |-> IF hashMap[h] = peer THEN Nobody ELSE hashMap[h]]
    /\ nodes' = nodes \ {peer}
    /\ UNCHANGED <<hash, keys, readded, panicked>>

(* The hashes mapped to peer leave hashMap and then, in the order the map  *)
(* gave them, the ring.                                                    *)
RemovePeer(peer) ==
    /\ ~panicked
    /\ peer \in nodes
    /\ hashMap' = [h \in Hashes |-> IF hashMap[h] = peer THEN Nobody ELSE hashMap[h]]
    /\ \E virtualKeys \in SetToSeqs({h \in Hashes : hashMap[h] = peer}) :
          LET s == RemoveHashes([array |-> keys, len |-> Len(keys), ok |-> TRUE], virtualKeys)
          IN /\ keys' = SubSeq(s.array, 1, s.len)
             /\ panicked' = ~s.ok
    /\ nodes' = nodes \ {peer}
    /\ UNCHANGED <<hash, readded>>

(* AddNode is variadic: lists of one and two nodes.                        *)
NodeLists == {<<n>> : n \in Nodes} \cup Nodes \X Nodes

Next ==
    \/ \E ns \in NodeLists : AddNode(ns)
    \/ \E n \in Nodes : RemovePeer(n)

Spec == Init /\ [][Next]_vars

-----------------------------------------------------------------------------
TypeOK ==
    /\ keys \in Seq(Hashes)
    /\ IsSorted(keys, <=)
    /\ hashMap \in [Hashes -> Nodes \cup {Nobody}]
    /\ nodes \subseteq Nodes
    /\ {readded, panicked} \subseteq BOOLEAN

(* The owner of h by the definition of consistent hashing, from the set of *)
(* nodes alone: whose virtual node comes first, clockwise from h.  Without *)
(* nodes there is none, and to ask for it is a panic.                      *)
Clockwise(h, p) == IF hash[p] >= h THEN hash[p] - h ELSE (MaxHash + 1 - h) + hash[p]

Owner(h) ==
    LET ring == nodes \X (0..Replicas - 1)
        first == CHOOSE p \in ring : \A q \in ring : Clockwise(h, p) <= Clockwise(h, q)
    IN IF nodes = {} THEN Panic ELSE first[1]

(* No two virtual nodes have one hash, and none is on the ring twice.      *)
NoCollision == IsInjective(hash) /\ ~readded

(* Which node owns a key depends on the set of nodes only: servers that    *)
(* built their rings in different orders, in one call or in several, with  *)
(* nodes added and removed in between, agree on every key, and the keys of *)
(* a removed node go to the nodes that follow.  A lookup panics when the   *)
(* last node is gone, and never before.                                    *)
OwnersAgree ==
    NoCollision => ~panicked /\ \A h \in Hashes : GetTruthNode(h) = Owner(h)

(* Adding nodes moves keys to the nodes added only, never from one old     *)
(* node to another, and not even when hashes collide or a node is added    *)
(* again.                                                                  *)
AddMovesOnlyToNew ==
    [][\A ns \in NodeLists : AddNode(ns) =>
          \A h \in Hashes : GetTruthNode(h)' \in {GetTruthNode(h)} \cup ToSet(ns)]_vars
=============================================================================
