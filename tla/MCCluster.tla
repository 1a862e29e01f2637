----------------------------- MODULE MCCluster -----------------------------
(* Instances of Cluster for TLC: names without a space, which the wire     *)
(* leaves alone.                                                           *)
EXTENDS Cluster, TLC

MCKeys == Nodes \X Names
MCWire == [n \in Names |-> n]

(* Requests are interchangeable.  The run of safety properties only tells  *)
(* TLC so; for liveness that is unsound, and the requests come in order.   *)
AnyOf(S) == S
FirstOf(S) == IF S = {} THEN {} ELSE {CHOOSE r \in S : TRUE}

Symmetry == Permutations(Requests) \cup Permutations(Nodes)
=============================================================================
