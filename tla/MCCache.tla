------------------------------ MODULE MCCache -------------------------------
(* Instances of Cache for TLC: keys of one and two bytes, an empty value   *)
(* (a negative entry) and one of two bytes.                                *)
EXTENDS Cache

MCKeys == {"a", "b", "cc", "d"}
MCValues == {"", "xx"}
MCKeyLen == [k \in MCKeys |-> IF k = "cc" THEN 2 ELSE 1]
MCValueLen == [v \in MCValues |-> IF v = "" THEN 0 ELSE 2]
=============================================================================
