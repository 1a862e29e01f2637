--------------------------- MODULE FlightContract ---------------------------
(***************************************************************************)
(* What SingleFlight.Do promises its callers, with no map of calls in      *)
(* flight, no cache and no lock: every Do runs its function at most once   *)
(* and returns                                                             *)
(*   - the outcome of its own run, or                                      *)
(*   - the outcome of another caller's run for the same key that was still *)
(*     in progress when this Do was called, or                             *)
(*   - the value, as a success, of a FAILED run for the same key that was  *)
(*     over by then (the flight cache keeps failures only).                *)
(*                                                                         *)
(* It does not promise a single run per key: the code does not keep that   *)
(* (SingleFlight!AtMostOneFlight).                                         *)
(***************************************************************************)

CONSTANTS Requests, Keys, Nil, Empty, None

VARIABLES phase,    \* phase[r]: "new", "open" inside Do, "closed" after it
          key,      \* key[r]: the key r asked for
          produced, \* produced[r]: outcome of the run of r, None if it has none
          retired,  \* the requests whose own run is over
          before,   \* before[r]: the runs that were over when r called Do
          ret       \* ret[r]: what Do returned to r

vars == <<phase, key, produced, retired, before, ret>>

Success(r) == [value |-> r, err |-> Nil]
Failure(r) == [value |-> Empty, err |-> r]

Init ==
    /\ phase = [r \in Requests |-> "new"]
    /\ key = [r \in Requests |-> None]
    /\ produced = [r \in Requests |-> None]
    /\ retired = {}
    /\ before = [r \in Requests |-> {}]
    /\ ret = [r \in Requests |-> None]

Call(r, k) ==
    /\ phase[r] = "new"
    /\ phase' = [phase EXCEPT ![r] = "open"]
    /\ key' = [key EXCEPT ![r] = k]
    /\ before' = [before EXCEPT ![r] = retired]
    /\ UNCHANGED <<produced, retired, ret>>

Execute(r) ==
    /\ phase[r] = "open"
    /\ produced[r] = None
    /\ \E o \in {Success(r), Failure(r)} : produced' = [produced EXCEPT ![r] = o]
    /\ UNCHANGED <<phase, key, retired, before, ret>>

Close(r, o) ==
    /\ phase[r] = "open"
    /\ phase' = [phase EXCEPT ![r] = "closed"]
    /\ ret' = [ret EXCEPT ![r] = o]
    /\ UNCHANGED <<key, produced, before>>

ReturnOwn(r) ==
    /\ produced[r] # None
    /\ Close(r, produced[r])
    /\ retired' = retired \cup {r}

ReturnShared(r) ==
    /\ produced[r] = None
    /\ \E s \in Requests \ before[r] :
          /\ key[s] = key[r]
          /\ produced[s] # None
          /\ Close(r, produced[s])
    /\ UNCHANGED retired

ReturnMasked(r) ==
    /\ produced[r] = None
    /\ \E s \in retired :
          /\ key[s] = key[r]
          /\ produced[s].err # Nil
          /\ Close(r, [value |-> produced[s].value, err |-> Nil])
    /\ UNCHANGED retired

Next ==
    \E r \in Requests :
        \/ \E k \in Keys : Call(r, k)
        \/ Execute(r)
        \/ ReturnOwn(r)
        \/ ReturnShared(r)
        \/ ReturnMasked(r)

Spec == Init /\ [][Next]_vars
=============================================================================
