---------------------------- MODULE CacheStrategy ----------------------------
(***************************************************************************)
(* What internal/service/policy/interfaces/strategy.go promises of a cache *)
(* strategy, whatever the policy: a finite map under a budget of bytes.    *)
(* Only a Put that would overflow the budget, or CleanUp, makes an entry   *)
(* disappear; evictions stop as soon as the rest fits; what is kept for a  *)
(* key is what was put last; Get changes nothing here.                     *)
(***************************************************************************)
EXTENDS Naturals, FiniteSetsExt

CONSTANTS Keys, Values, None,
          MaxBytes,    \* the budget, 0 for none
          Cost(_, _)   \* Cost(k, v): the bytes an entry is counted for

VARIABLES contents,   \* contents[k]: the value kept for k, or None
          latest      \* latest[k]: the value last put for k, or None

vars == <<contents, latest>>

Used(c) == MapThenSumSet(LAMBDA k : Cost(k, c[k]), {k \in Keys : c[k] # None})
Fits(c) == MaxBytes = 0 \/ Used(c) <= MaxBytes

Init ==
    /\ contents = [k \in Keys |-> None]
    /\ latest = [k \in Keys |-> None]

Without(c, S) == [k \in Keys |-> IF k \in S THEN None ELSE c[k]]

Put(k, v) ==
    LET filled == [contents EXCEPT ![k] = v] IN
    /\ latest' = [latest EXCEPT ![k] = v]
    /\ \E evicted \in SUBSET {j \in Keys : filled[j] # None} :
          /\ contents' = Without(filled, evicted)
          /\ Fits(contents')
          /\ evicted # {} =>
                \E last \in evicted : ~Fits(Without(filled, evicted \ {last}))

CleanUp ==
    /\ \E S \in SUBSET Keys : contents' = Without(contents, S)
    /\ UNCHANGED latest

Next == (\E k \in Keys, v \in Values : Put(k, v)) \/ CleanUp

Spec == Init /\ [][Next]_vars
=============================================================================
