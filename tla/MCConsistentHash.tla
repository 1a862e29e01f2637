-------------------------- MODULE MCConsistentHash --------------------------
(* Instances of ConsistentHash for TLC: every hash function without        *)
(* collisions, and every one that has at most three hashes.                *)
EXTENDS ConsistentHash, TLC

MCHashFunctions == Injection(Virtual, Hashes) \cup [Virtual -> 0..2]

Symmetry == Permutations(Nodes)
=============================================================================
