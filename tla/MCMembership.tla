---------------------------- MODULE MCMembership ----------------------------
(* Instances of Membership for TLC: the endpoints other than Self are      *)
(* interchangeable.                                                        *)
EXTENDS Membership, TLC

Symmetry == Permutations(Nodes \ {Self})
=============================================================================
