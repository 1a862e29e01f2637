--------------------------- MODULE MCSingleFlight ---------------------------
(* Instances of SingleFlight for TLC.                                      *)
EXTENDS SingleFlight, TLC

(* Requests and keys only matter up to renaming in the safety runs.        *)
Symmetry == Permutations(Requests) \cup Permutations(Keys)
=============================================================================
