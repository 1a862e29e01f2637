---------------------------- MODULE ClusterProofs ----------------------------
(***************************************************************************)
(* Proofs about SingleFlight, Group and Cluster, each of which extends the *)
(* one before, as their proofs do.  They hold for any number of requests,  *)
(* keys, nodes, names and versions.                                        *)
(***************************************************************************)
EXTENDS Cluster, TLAPS

-----------------------------------------------------------------------------
(***************************************************************************)
(* SingleFlight, whether or not fn may panic.                              *)
(***************************************************************************)

(* What TypeOK needs to be inductive: a request past the steps that assign *)
(* its key or its call has one.                                            *)
Assigned ==
    \A r \in Requests :
        /\ pc[r] \in {"lookup", "wait", "claim", "run", "publish", "retire", "panicked"}
              => key[r] \in Keys
        /\ pc[r] \in {"publish", "retire"} => call[r] \in Outcome
        /\ pc[r] = "wait" => joined[r] \in Requests
        /\ r \in wgDone => call[r] \in Outcome

TypeInv == TypeOK /\ Assigned

(* TypeInv holds initially.                                                *)
LEMMA TypeInvInit == Init => TypeInv
BY ConstantsDiffer DEF Init, TypeInv, TypeOK, Assigned, PCs

(* Every step of every request, and of the flight cache, preserves it.     *)
LEMMA TypeInvNext == TypeInv /\ [Next]_vars => TypeInv'
<1> SUFFICES ASSUME TypeInv, [Next]_vars PROVE TypeInv'
    OBVIOUS
<1> USE ConstantsDiffer DEF TypeInv, TypeOK, Assigned, PCs
<1>1. ASSUME NEW r \in Requests, NEW k \in Keys, Do(r, k) PROVE TypeInv'
    <2>1. Retired \subseteq Requests BY DEF Retired
    <2>2. QED BY <1>1, <2>1 DEF Do
<1>2. ASSUME NEW r \in Requests, CacheHit(r) PROVE TypeInv'
    <2>1. /\ key[r] \in Keys
          /\ cache[key[r]] \in Entry
        BY <1>2 DEF CacheHit, Cached
    <2>2. [value |-> cache[key[r]].value, err |-> Nil] \in Outcome
        BY <2>1 DEF Entry, Outcome
    <2>3. QED BY <1>2, <2>1, <2>2 DEF CacheHit, Outcome
<1>3. ASSUME NEW r \in Requests, Join(r) PROVE TypeInv'
    BY <1>3 DEF Join
<1>4. ASSUME NEW r \in Requests, Miss(r) PROVE TypeInv'
    BY <1>4 DEF Miss
<1>5. ASSUME NEW r \in Requests, Claim(r) PROVE TypeInv'
    BY <1>5 DEF Claim
<1>6. ASSUME NEW r \in Requests, NEW o \in {Success(r), Failure(r)}, FnReturns(r, o)
      PROVE TypeInv'
    <2>1. o \in Outcome BY DEF Success, Failure, Outcome
    <2>2. QED BY <1>6, <2>1 DEF FnReturns
<1>7. ASSUME NEW r \in Requests, FnPanics(r) PROVE TypeInv'
    BY <1>7 DEF FnPanics
<1>8. ASSUME NEW r \in Requests, Publish(r) PROVE TypeInv'
    BY <1>8 DEF Publish
<1>9. ASSUME NEW r \in Requests, Retire(r) PROVE TypeInv'
    <2>1. /\ key[r] \in Keys
          /\ call[r] \in Outcome
          /\ [value |-> call[r].value, live |-> TRUE] \in Entry
        BY <1>9 DEF Retire, Outcome, Entry
    <2>2. cache' \in [Keys -> Entry \cup {None}] BY <1>9, <2>1 DEF Retire
    <2>3. call[r] # None BY <2>1 DEF Outcome
    <2>4. QED BY <1>9, <2>1, <2>2, <2>3 DEF Retire
<1>10. ASSUME NEW r \in Requests, Wake(r) PROVE TypeInv'
    <2>1. call[joined[r]] \in Outcome BY <1>10 DEF Wake
    <2>2. call[joined[r]] # None BY <2>1 DEF Outcome
    <2>3. QED BY <1>10, <2>1, <2>2 DEF Wake
<1>11. ASSUME NEW k \in Keys, Expire(k) PROVE TypeInv'
    <2>1. cache[k] \in Entry BY <1>11 DEF Expire, Cached
    <2>2. cache' \in [Keys -> Entry \cup {None}] BY <1>11, <2>1 DEF Expire, Entry
    <2>3. QED BY <1>11, <2>2 DEF Expire
<1>12. CASE Sweep
    BY <1>12 DEF Sweep
<1>13. CASE UNCHANGED vars
    BY <1>13 DEF vars
<1>14. QED
    BY <1>1, <1>2, <1>3, <1>4, <1>5, <1>6, <1>7, <1>8, <1>9, <1>10, <1>11, <1>12, <1>13
       DEF Next, DoStep

(* Type correctness: in particular, exactly the requests that are back     *)
(* from Do have a result.                                                  *)
THEOREM TypeCorrect == Spec => []TypeOK
<1>1. TypeInv => TypeOK BY DEF TypeInv
<1>2. QED BY TypeInvInit, TypeInvNext, <1>1, PTL DEF Spec

-----------------------------------------------------------------------------
(* A call is done before its leader retires it, and then for good.         *)
DoneBeforeRetired ==
    \A r \in Requests :
        /\ pc[r] = "retire" => r \in wgDone
        /\ r \in wgDone => pc[r] \in {"retire", "returned"}

(* The part of the inductive invariant that is about who waits for whom.   *)
WaitInv == TypeInv /\ DoneBeforeRetired /\ RegisteredCallIsUnretired /\ WaitIsJustified

LEMMA WaitInvInit == Init => WaitInv
<1>1. Init => DoneBeforeRetired /\ WaitIsJustified
    BY DEF Init, DoneBeforeRetired, WaitIsJustified
<1>2. Init => RegisteredCallIsUnretired
    BY DEF Init, RegisteredCallIsUnretired
<1>3. QED BY <1>1, <1>2, TypeInvInit DEF WaitInv

LEMMA WaitInvNext == WaitInv /\ [Next]_vars => WaitInv'
<1> SUFFICES ASSUME WaitInv, [Next]_vars PROVE WaitInv'
    OBVIOUS
<1> USE DEF WaitInv
<1>0. TypeInv /\ TypeInv'
    BY TypeInvNext
<1> USE <1>0, ConstantsDiffer
      DEF TypeInv, TypeOK, Assigned, PCs, DoneBeforeRetired,
          RegisteredCallIsUnretired, WaitIsJustified
<1>1. ASSUME NEW r \in Requests, NEW k \in Keys, Do(r, k) PROVE WaitInv'
    <2>1. RegisteredCallIsUnretired' BY <1>1 DEF Do
    <2>2. WaitIsJustified' BY <1>1 DEF Do
    <2>3. DoneBeforeRetired' BY <1>1 DEF Do
    <2>4. QED BY <2>1, <2>2, <2>3
<1>2. ASSUME NEW r \in Requests, CacheHit(r) PROVE WaitInv'
    BY <1>2 DEF CacheHit
<1>14. ASSUME NEW r \in Requests, Miss(r) PROVE WaitInv'
    BY <1>14 DEF Miss
<1>3. ASSUME NEW r \in Requests, Join(r) PROVE WaitInv'
    <2>1. /\ m[key[r]] \in Requests \ {r}
          /\ key[m[key[r]]] = key[r]
          /\ m[key[r]] \in wgDone \/ pc[m[key[r]]] \in {"run", "publish", "panicked"}
        BY <1>3 DEF Join
    <2>2. WaitIsJustified' BY <1>3, <2>1 DEF Join
    <2>3. RegisteredCallIsUnretired' /\ DoneBeforeRetired' BY <1>3 DEF Join
    <2>4. QED BY <2>2, <2>3
<1>4. ASSUME NEW r \in Requests, Claim(r) PROVE WaitInv'
    BY <1>4 DEF Claim
<1>5. ASSUME NEW r \in Requests, FnPanics(r) PROVE WaitInv'
    BY <1>5 DEF FnPanics
<1>6. ASSUME NEW r \in Requests, NEW o \in {Success(r), Failure(r)}, FnReturns(r, o)
      PROVE WaitInv'
    BY <1>6 DEF FnReturns
<1>7. ASSUME NEW r \in Requests, Publish(r) PROVE WaitInv'
    BY <1>7 DEF Publish
<1>8. ASSUME NEW r \in Requests, Retire(r) PROVE WaitInv'
    <2>1. RegisteredCallIsUnretired' BY <1>8 DEF Retire
    <2>2. WaitIsJustified' /\ DoneBeforeRetired' BY <1>8 DEF Retire
    <2>3. QED BY <2>1, <2>2
<1>9. ASSUME NEW r \in Requests, Wake(r) PROVE WaitInv'
    BY <1>9 DEF Wake
<1>10. ASSUME NEW k \in Keys, Expire(k) PROVE WaitInv'
    BY <1>10 DEF Expire
<1>11. CASE Sweep
    BY <1>11 DEF Sweep
<1>12. CASE UNCHANGED vars
    BY <1>12 DEF vars
<1> HIDE <1>0, ConstantsDiffer
    DEF WaitInv, TypeInv, TypeOK, Assigned, PCs, DoneBeforeRetired,
        RegisteredCallIsUnretired, WaitIsJustified
<1>13. QED
    BY <1>1, <1>2, <1>14, <1>3, <1>4, <1>5, <1>6, <1>7, <1>8, <1>9, <1>10, <1>11, <1>12
       DEF Next, DoStep

(* No caller ever finds the call of a leader that has left Do, however     *)
(* many leaders overwrite and delete each other's entries of sf.m.         *)
THEOREM RegisteredIsUnretired == Spec => []RegisteredCallIsUnretired
<1>1. WaitInv => RegisteredCallIsUnretired BY DEF WaitInv
<1>2. QED BY WaitInvInit, WaitInvNext, <1>1, PTL DEF Spec

(* No wakeup is lost: whoever waits, waits for a call that is done or      *)
(* whose leader is on its way to wg.Done.                                  *)
THEOREM NoLostWakeup == Spec => []WaitIsJustified
<1>1. WaitInv => WaitIsJustified BY DEF WaitInv
<1>2. QED BY WaitInvInit, WaitInvNext, <1>1, PTL DEF Spec

-----------------------------------------------------------------------------
(* Where results come from: a call holds the outcome of its leader's run,  *)
(* before[r] holds calls that are over for good, the call r waits for is   *)
(* not one of them, and a cached value is that of a failed run that is     *)
(* over.                                                                   *)
CallIsOwnOutcome ==
    \A r \in Requests : call[r] # None =>
        /\ call[r] \in {Success(r), Failure(r)}
        /\ pc[r] \in {"publish", "retire", "returned"}

BeforeIsOver ==
    \A r \in Requests :
        /\ r \notin before[r]
        /\ \A c \in before[r] : pc[c] = "returned"
        /\ pc[r] = "wait" => joined[r] \notin before[r]

CachedIsFailure ==
    \A k \in Keys : cache[k] # None =>
        \E c \in Retired :
            /\ key[c] = k
            /\ call[c] = Failure(c)
            /\ cache[k].value = call[c].value

OriginInv == WaitInv /\ CallIsOwnOutcome /\ BeforeIsOver /\ CachedIsFailure

(* The outcomes of r are outcomes, and only failures carry an error.       *)
LEMMA OutcomeFacts ==
    ASSUME NEW r \in Requests
    PROVE  /\ Success(r) \in Outcome /\ Failure(r) \in Outcome
           /\ Success(r).err = Nil /\ Failure(r).err # Nil
           /\ Success(r) # None /\ Failure(r) # None
           /\ Failure(r).value = Empty
BY ConstantsDiffer DEF Success, Failure, Outcome

LEMMA OriginInvInit == Init => OriginInv
<1>1. Init => CallIsOwnOutcome /\ BeforeIsOver
    BY DEF Init, CallIsOwnOutcome, BeforeIsOver
<1>2. Init => CachedIsFailure
    BY DEF Init, CachedIsFailure
<1>3. QED BY <1>1, <1>2, WaitInvInit DEF OriginInv

(* Runs that are over stay over, with the same key and outcome.            *)
LEMMA RetiredStays ==
    ASSUME OriginInv, [Next]_vars, NEW c \in Retired
    PROVE  c \in Retired' /\ key'[c] = key[c] /\ call'[c] = call[c]
<1> USE DEF OriginInv, WaitInv, TypeInv, TypeOK, Retired
<1>1. ASSUME NEW r \in Requests, NEW k \in Keys, Do(r, k)
      PROVE c \in Retired' /\ key'[c] = key[c] /\ call'[c] = call[c]
    BY <1>1 DEF Do
<1>2. ASSUME NEW r \in Requests, DoStep(r)
      PROVE c \in Retired' /\ key'[c] = key[c] /\ call'[c] = call[c]
    BY <1>2 DEF DoStep, CacheHit, Join, Miss, Claim, FnPanics, Publish, Retire, Wake
<1>3. ASSUME NEW r \in Requests, NEW o \in {Success(r), Failure(r)}, FnReturns(r, o)
      PROVE c \in Retired' /\ key'[c] = key[c] /\ call'[c] = call[c]
    BY <1>3 DEF FnReturns
<1>4. CASE (\E k \in Keys : Expire(k)) \/ Sweep \/ UNCHANGED vars
    BY <1>4 DEF Expire, Sweep, vars
<1>5. QED BY <1>1, <1>2, <1>3, <1>4 DEF Next

LEMMA OriginInvNext == OriginInv /\ [Next]_vars => OriginInv'
<1> SUFFICES ASSUME OriginInv, [Next]_vars PROVE OriginInv'
    OBVIOUS
<1>1. WaitInv'
    BY WaitInvNext DEF OriginInv
<1> USE ConstantsDiffer DEF OriginInv, WaitInv, TypeInv, TypeOK, Assigned, PCs
<1>2. CallIsOwnOutcome'
    <2> USE DEF CallIsOwnOutcome
    <2>1. ASSUME NEW r \in Requests, NEW k \in Keys, Do(r, k) PROVE CallIsOwnOutcome'
        BY <2>1 DEF Do, Success, Failure
    <2>2. ASSUME NEW r \in Requests, DoStep(r) PROVE CallIsOwnOutcome'
        <3>1. /\ call' = call
              /\ pc[r] \notin {"publish", "retire"} => \E x \in PCs : pc' = [pc EXCEPT ![r] = x]
              /\ pc[r] \in {"publish", "retire"} =>
                    \E x \in {"retire", "returned"} : pc' = [pc EXCEPT ![r] = x]
              /\ pc[r] \notin {"returned", "idle"}
            BY <2>2 DEF DoStep, CacheHit, Join, Miss, Claim, FnPanics, Publish, Retire, Wake
        <3>2. QED BY <3>1 DEF Success, Failure
    <2>3. ASSUME NEW r \in Requests, NEW o \in {Success(r), Failure(r)}, FnReturns(r, o)
          PROVE CallIsOwnOutcome'
        BY <2>3 DEF FnReturns, Success, Failure
    <2>4. CASE (\E k \in Keys : Expire(k)) \/ Sweep \/ UNCHANGED vars
        BY <2>4 DEF Expire, Sweep, vars, Success, Failure
    <2>5. QED BY <2>1, <2>2, <2>3, <2>4 DEF Next
<1>3. BeforeIsOver'
    <2> USE DEF BeforeIsOver
    <2>1. ASSUME NEW r \in Requests, NEW k \in Keys, Do(r, k) PROVE BeforeIsOver'
        BY <2>1 DEF Do, Retired
    <2>2. ASSUME NEW r \in Requests, Join(r) PROVE BeforeIsOver'
        BY <2>2 DEF Join, RegisteredCallIsUnretired
    <2>3. ASSUME NEW r \in Requests,
                 CacheHit(r) \/ Miss(r) \/ Claim(r) \/ FnPanics(r) \/ Publish(r)
                 \/ Retire(r) \/ Wake(r)
          PROVE BeforeIsOver'
        <3>1. /\ before' = before
              /\ joined' = joined
              /\ pc[r] # "returned"
              /\ \E x \in PCs \ {"wait"} : pc' = [pc EXCEPT ![r] = x]
            BY <2>3 DEF CacheHit, Miss, Claim, FnPanics, Publish, Retire, Wake
        <3>2. QED BY <3>1
    <2>4. ASSUME NEW r \in Requests, NEW o \in {Success(r), Failure(r)}, FnReturns(r, o)
          PROVE BeforeIsOver'
        BY <2>4 DEF FnReturns
    <2>5. CASE (\E k \in Keys : Expire(k)) \/ Sweep \/ UNCHANGED vars
        BY <2>5 DEF Expire, Sweep, vars
    <2>6. QED BY <2>1, <2>2, <2>3, <2>4, <2>5 DEF Next, DoStep
<1>4. CachedIsFailure'
    <2>1. ASSUME NEW k \in Keys, cache'[k] # None, cache[k] # None,
                 cache'[k].value = cache[k].value
          PROVE  \E c \in Retired' : /\ key'[c] = k
                                     /\ call'[c] = Failure(c)
                                     /\ cache'[k].value = call'[c].value
        <3>1. PICK c \in Retired : /\ key[c] = k
                                   /\ call[c] = Failure(c)
                                   /\ cache[k].value = call[c].value
            BY <2>1 DEF CachedIsFailure
        <3>2. QED BY <2>1, <3>1, RetiredStays
    <2>2. CASE cache' = cache
        BY <2>1, <2>2 DEF CachedIsFailure
    <2>3. ASSUME NEW r \in Requests, Retire(r), call[r].err # Nil PROVE CachedIsFailure'
        <3>1. /\ call[r] # None
              /\ key[r] \in Keys
            BY <2>3 DEF Retire, Outcome
        <3>2. call[r] = Failure(r)
            BY <2>3, <3>1, OutcomeFacts DEF CallIsOwnOutcome
        <3>3. /\ cache' = [cache EXCEPT ![key[r]] = [value |-> call[r].value, live |-> TRUE]]
              /\ pc'[r] = "returned"
              /\ key' = key
              /\ call' = call
            BY <2>3 DEF Retire
        <3>4. r \in Retired'
            BY <3>1, <3>3 DEF Retired
        <3>5. cache'[key[r]].value = call'[r].value
            BY <3>1, <3>3
        <3>6. \A k \in Keys \ {key[r]} : cache'[k] = cache[k]
            BY <3>1, <3>3
        <3>7. QED BY <2>1, <3>1, <3>2, <3>3, <3>4, <3>5, <3>6 DEF CachedIsFailure
    <2>4. ASSUME NEW j \in Keys, Expire(j) PROVE CachedIsFailure'
        <3>1. cache[j] \in Entry
            BY <2>4 DEF Expire, Cached
        <3>2. /\ cache'[j].value = cache[j].value
              /\ \A k \in Keys \ {j} : cache'[k] = cache[k]
              /\ cache[j] # None
            BY <2>4, <3>1 DEF Expire, Entry, Cached
        <3>3. QED BY <2>1, <3>2 DEF CachedIsFailure
    <2>5. CASE Sweep
        <3>1. \A k \in Keys : cache'[k] \in {cache[k], None}
            BY <2>5 DEF Sweep
        <3>2. QED BY <2>1, <3>1 DEF CachedIsFailure
    <2>6. cache' = cache \/ Sweep \/ (\E j \in Keys : Expire(j))
            \/ \E r \in Requests : Retire(r) /\ call[r].err # Nil
        BY DEF Next, DoStep, vars, Do, CacheHit, Join, Miss, Claim, FnPanics, FnReturns,
               Publish, Retire, Wake
    <2>7. QED BY <2>2, <2>3, <2>4, <2>5, <2>6
<1>5. QED BY <1>1, <1>2, <1>3, <1>4

-----------------------------------------------------------------------------
(* Once fn has returned, the outcome of a call does not change, nor does   *)
(* the key it is for.                                                      *)
LEMMA OutcomeStays ==
    ASSUME OriginInv, [Next]_vars, NEW c \in Requests, call[c] # None
    PROVE  call'[c] = call[c] /\ key'[c] = key[c]
<1> USE DEF OriginInv, WaitInv, TypeInv, TypeOK, CallIsOwnOutcome
<1>1. ASSUME NEW r \in Requests, NEW k \in Keys, Do(r, k)
      PROVE call'[c] = call[c] /\ key'[c] = key[c]
    BY <1>1 DEF Do
<1>2. ASSUME NEW r \in Requests, NEW o \in {Success(r), Failure(r)}, FnReturns(r, o)
      PROVE call'[c] = call[c] /\ key'[c] = key[c]
    BY <1>2 DEF FnReturns
<1>3. ASSUME NEW r \in Requests, DoStep(r)
      PROVE call'[c] = call[c] /\ key'[c] = key[c]
    BY <1>3 DEF DoStep, CacheHit, Join, Miss, Claim, FnPanics, Publish, Retire, Wake
<1>4. CASE (\E k \in Keys : Expire(k)) \/ Sweep \/ UNCHANGED vars
    BY <1>4 DEF Expire, Sweep, vars
<1>5. QED BY <1>1, <1>2, <1>3, <1>4 DEF Next

(* A request that is back from Do keeps its history and its result.        *)
LEMMA ReturnedStays ==
    ASSUME OriginInv, [Next]_vars, NEW r \in Requests, pc[r] = "returned"
    PROVE  ret'[r] = ret[r] /\ before'[r] = before[r] /\ key'[r] = key[r]
<1> USE DEF OriginInv, WaitInv, TypeInv, TypeOK
<1>1. ASSUME NEW s \in Requests, NEW k \in Keys, Do(s, k)
      PROVE ret'[r] = ret[r] /\ before'[r] = before[r] /\ key'[r] = key[r]
    BY <1>1 DEF Do
<1>2. ASSUME NEW s \in Requests, NEW o \in {Success(s), Failure(s)}, FnReturns(s, o)
      PROVE ret'[r] = ret[r] /\ before'[r] = before[r] /\ key'[r] = key[r]
    BY <1>2 DEF FnReturns
<1>3. ASSUME NEW s \in Requests, DoStep(s)
      PROVE ret'[r] = ret[r] /\ before'[r] = before[r] /\ key'[r] = key[r]
    BY <1>3 DEF DoStep, CacheHit, Join, Miss, Claim, FnPanics, Publish, Retire, Wake
<1>4. CASE (\E k \in Keys : Expire(k)) \/ Sweep \/ UNCHANGED vars
    BY <1>4 DEF Expire, Sweep, vars
<1>5. QED BY <1>1, <1>2, <1>3, <1>4 DEF Next

LEMMA ResultIsFreshNext ==
    OriginInv /\ ResultIsFresh /\ [Next]_vars => ResultIsFresh'
<1> SUFFICES ASSUME OriginInv, ResultIsFresh, [Next]_vars,
                    NEW r \in Requests, pc'[r] = "returned",
                    ret'[r] # [value |-> Empty, err |-> Nil]
             PROVE  \E c \in Requests \ before'[r] :
                        key'[c] = key'[r] /\ ret'[r] = call'[c]
    BY DEF ResultIsFresh
<1> USE ConstantsDiffer DEF OriginInv, WaitInv, TypeInv, TypeOK, Assigned, PCs
<1>1. CASE pc[r] = "returned"
    <2>1. PICK c \in Requests \ before[r] : key[c] = key[r] /\ ret[r] = call[c]
        BY <1>1, ReturnedStays DEF ResultIsFresh
    <2>2. call[c] # None
        BY <1>1, <2>1
    <2>3. QED BY <1>1, <2>1, <2>2, ReturnedStays, OutcomeStays
<1>2. CASE pc[r] # "returned"
    <2>1. Retire(r) \/ Wake(r) \/ CacheHit(r)
        <3>1. ASSUME NEW s \in Requests, NEW k \in Keys, Do(s, k) PROVE FALSE
            BY <1>2, <3>1 DEF Do
        <3>2. ASSUME NEW s \in Requests, NEW o \in {Success(s), Failure(s)}, FnReturns(s, o)
              PROVE FALSE
            BY <1>2, <3>2 DEF FnReturns
        <3>3. ASSUME NEW s \in Requests, Join(s) \/ Miss(s) \/ Claim(s) \/ FnPanics(s) \/ Publish(s)
              PROVE FALSE
            BY <1>2, <3>3 DEF Join, Miss, Claim, FnPanics, Publish
        <3>4. ASSUME NEW s \in Requests, Retire(s) \/ Wake(s) \/ CacheHit(s) PROVE s = r
            BY <1>2, <3>4 DEF Retire, Wake, CacheHit
        <3>5. ~((\E k \in Keys : Expire(k)) \/ Sweep \/ UNCHANGED vars)
            BY <1>2 DEF Expire, Sweep, vars
        <3>6. QED BY <3>1, <3>2, <3>3, <3>4, <3>5 DEF Next, DoStep
    <2>2. CASE Retire(r)
        <3>1. r \notin before[r] BY DEF BeforeIsOver
        <3>2. QED BY <2>2, <3>1 DEF Retire
    <2>3. CASE Wake(r)
        <3>1. /\ joined[r] \in Requests \ before[r]
              /\ key[joined[r]] = key[r]
            BY <2>3 DEF Wake, BeforeIsOver, WaitIsJustified
        <3>2. QED BY <2>3, <3>1 DEF Wake
    <2>4. CASE CacheHit(r)
        <3>1. key[r] \in Keys /\ cache[key[r]] # None
            BY <2>4 DEF CacheHit, Cached
        <3>2. PICK c \in Retired : cache[key[r]].value = call[c].value /\ call[c] = Failure(c)
            BY <3>1 DEF CachedIsFailure
        <3>3. cache[key[r]].value = Empty
            BY <3>2, OutcomeFacts DEF Retired
        <3>4. ret'[r] = [value |-> Empty, err |-> Nil]
            BY <2>4, <3>3 DEF CacheHit
        <3>5. QED BY <3>4
    <2>5. QED BY <2>1, <2>2, <2>3, <2>4
<1>3. QED BY <1>1, <1>2

(* No stale result but the empty one: whatever else Do returns is the      *)
(* outcome of a run for the same key that was not over when Do was called. *)
THEOREM NoStaleResult == Spec => []ResultIsFresh
<1>1. Init => OriginInv /\ ResultIsFresh
    BY OriginInvInit DEF Init, ResultIsFresh
<1>2. OriginInv /\ ResultIsFresh /\ [Next]_vars => (OriginInv /\ ResultIsFresh)'
    BY OriginInvNext, ResultIsFreshNext
<1>3. QED BY <1>1, <1>2, PTL DEF Spec

-----------------------------------------------------------------------------
(* The contract: every step of SingleFlight is a step of FlightContract,   *)
(* or changes none of its variables.                                       *)

LEMMA ContractInit == Init => Contract!Init
<1> SUFFICES ASSUME Init PROVE Contract!Init
    OBVIOUS
<1>1. [r \in Requests |-> Phase(r)] = [r \in Requests |-> "new"]
    BY DEF Init, Phase
<1>2. Retired = {}
    BY DEF Init, Retired
<1>3. QED BY <1>1, <1>2 DEF Init, Contract!Init

(* The phases, from the program counters.                                  *)
LEMMA PhaseFacts ==
    ASSUME TypeOK, NEW r \in Requests
    PROVE  /\ pc[r] = "idle" <=> Phase(r) = "new"
           /\ pc[r] = "returned" <=> Phase(r) = "closed"
           /\ pc[r] \notin {"idle", "returned"} <=> Phase(r) = "open"
BY DEF TypeOK, PCs, Phase

Phases == [r \in Requests |-> Phase(r)]

(* A step of r that takes pc[r] to x takes only the phase of r along.      *)
LEMMA PhaseMoves ==
    ASSUME TypeOK, NEW r \in Requests, NEW x \in PCs, pc' = [pc EXCEPT ![r] = x]
    PROVE  /\ Phases' = [Phases EXCEPT ![r] = Phase(r)']
           /\ x = "returned" => Phase(r)' = "closed"
           /\ x \notin {"idle", "returned"} => Phase(r)' = "open"
BY DEF TypeOK, PCs, Phase, Phases

(* A step inside Do before the return leaves the phases and the retired    *)
(* calls alone.                                                            *)
LEMMA OpenStays ==
    ASSUME TypeOK, TypeOK', NEW r \in Requests, NEW x \in PCs \ {"idle", "returned"},
           pc[r] \notin {"idle", "returned"},
           pc' = [pc EXCEPT ![r] = x]
    PROVE  /\ Phases' = Phases
           /\ (\A c \in Requests \ {r} : call'[c] = call[c]) => Retired' = Retired
<1>1. Phase(r)' = "open" /\ Phase(r) = "open"
    BY DEF Phase, TypeOK, PCs
<1>2. Phases' = Phases
    BY <1>1, PhaseMoves DEF Phases
<1>3. ASSUME \A c \in Requests \ {r} : call'[c] = call[c] PROVE Retired' = Retired
    BY <1>3 DEF Retired, TypeOK, PCs
<1>4. QED BY <1>2, <1>3

LEMMA ContractNext == OriginInv /\ [Next]_vars => [Contract!Next]_(Contract!vars)
<1> SUFFICES ASSUME OriginInv, [Next]_vars PROVE [Contract!Next]_(Contract!vars)
    OBVIOUS
<1>0. TypeOK /\ TypeOK'
    BY OriginInvNext DEF OriginInv, WaitInv, TypeInv
<1>a. Contract!vars = <<Phases, key, call, Retired, before, ret>>
    BY DEF Contract!vars, Phases
<1> USE <1>0, ConstantsDiffer DEF OriginInv, WaitInv, TypeInv, Assigned
<1>1. ASSUME NEW r \in Requests, NEW k \in Keys, Do(r, k) PROVE Contract!Call(r, k)
    <2>1. /\ Phases[r] = "new"
          /\ Phases' = [Phases EXCEPT ![r] = "open"]
        BY <1>1, PhaseFacts, PhaseMoves DEF Do, PCs, Phases
    <2>2. Retired' = Retired
        BY <1>1 DEF Do, Retired, TypeOK
    <2>3. QED BY <1>1, <2>1, <2>2 DEF Do, Contract!Call, Phases
<1>2. ASSUME NEW r \in Requests, CacheHit(r) PROVE Contract!ReturnMasked(r)
    <2>1. /\ Phases[r] = "open"
          /\ Phases' = [Phases EXCEPT ![r] = "closed"]
        BY <1>2, PhaseFacts, PhaseMoves DEF CacheHit, PCs, Phases
    <2>2. call[r] = None
        BY <1>2 DEF CacheHit, CallIsOwnOutcome
    <2>3. Retired' = Retired
        BY <1>2, <2>2 DEF CacheHit, Retired, TypeOK
    <2>4. key[r] \in Keys /\ cache[key[r]] # None
        BY <1>2 DEF CacheHit, Cached
    <2>5. PICK s \in Retired : /\ key[s] = key[r]
                               /\ call[s] = Failure(s)
                               /\ cache[key[r]].value = call[s].value
        BY <2>4 DEF CachedIsFailure
    <2>6. call[s].err # Nil
        BY <2>5, OutcomeFacts DEF Retired
    <2>7. Contract!Close(r, [value |-> call[s].value, err |-> Nil])
        BY <1>2, <2>1, <2>5 DEF CacheHit, Contract!Close, Phases
    <2>8. QED BY <2>2, <2>3, <2>5, <2>6, <2>7 DEF Contract!ReturnMasked
<1>3. ASSUME NEW r \in Requests,
             Join(r) \/ Miss(r) \/ Claim(r) \/ FnPanics(r) \/ Publish(r)
      PROVE  UNCHANGED Contract!vars
    <2>1. /\ pc[r] \notin {"idle", "returned"}
          /\ \E x \in PCs \ {"idle", "returned"} : pc' = [pc EXCEPT ![r] = x]
          /\ UNCHANGED <<key, call, before, ret>>
        BY <1>3 DEF Join, Miss, Claim, FnPanics, Publish, PCs
    <2>2. Phases' = Phases /\ Retired' = Retired
        BY <2>1, OpenStays
    <2>3. QED BY <1>a, <2>1, <2>2 DEF Contract!vars, Phases
<1>4. ASSUME NEW r \in Requests, NEW o \in {Success(r), Failure(r)}, FnReturns(r, o)
      PROVE  Contract!Execute(r)
    <2>a. /\ pc[r] = "run"
          /\ pc' = [pc EXCEPT ![r] = "publish"]
          /\ \A c \in Requests \ {r} : call'[c] = call[c]
        BY <1>4 DEF FnReturns, TypeOK
    <2>b. Phases[r] = "open"
        BY <2>a, PhaseFacts DEF Phases
    <2>1. Phases' = Phases /\ Retired' = Retired
        BY <2>a, OpenStays DEF PCs
    <2>2. call[r] = None
        BY <1>4 DEF FnReturns, CallIsOwnOutcome
    <2>3. o \in {Contract!Success(r), Contract!Failure(r)}
        BY DEF Success, Failure, Contract!Success, Contract!Failure
    <2>4. QED BY <1>4, <2>b, <2>1, <2>2, <2>3 DEF FnReturns, Contract!Execute, Phases
<1>5. ASSUME NEW r \in Requests, Retire(r) PROVE Contract!ReturnOwn(r)
    <2>1. /\ Phases[r] = "open"
          /\ Phases' = [Phases EXCEPT ![r] = "closed"]
        BY <1>5, PhaseFacts, PhaseMoves DEF Retire, PCs, Phases
    <2>2. call[r] # None
        BY <1>5 DEF Retire, Outcome
    <2>3. Retired' = Retired \cup {r}
        BY <1>5, <2>2 DEF Retire, Retired, TypeOK
    <2>4. QED BY <1>5, <2>1, <2>2, <2>3 DEF Retire, Contract!ReturnOwn, Contract!Close, Phases
<1>6. ASSUME NEW r \in Requests, Wake(r) PROVE Contract!ReturnShared(r)
    <2>1. /\ Phases[r] = "open"
          /\ Phases' = [Phases EXCEPT ![r] = "closed"]
        BY <1>6, PhaseFacts, PhaseMoves DEF Wake, PCs, Phases
    <2>2. call[r] = None
        BY <1>6 DEF Wake, CallIsOwnOutcome
    <2>3. Retired' = Retired
        BY <1>6, <2>2 DEF Wake, Retired, TypeOK
    <2>4. /\ joined[r] \in Requests \ before[r]
          /\ key[joined[r]] = key[r]
          /\ call[joined[r]] # None
        BY <1>6 DEF Wake, WaitIsJustified, BeforeIsOver, Outcome
    <2>5. QED BY <1>6, <2>1, <2>2, <2>3, <2>4
              DEF Wake, Contract!ReturnShared, Contract!Close, Phases
<1>7. CASE (\E k \in Keys : Expire(k)) \/ Sweep \/ UNCHANGED vars
    <2>1. UNCHANGED <<pc, key, call, before, ret>>
        BY <1>7 DEF Expire, Sweep, vars
    <2>2. Phases' = Phases /\ Retired' = Retired
        BY <2>1 DEF Phases, Phase, Retired
    <2>3. QED BY <1>a, <2>1, <2>2 DEF Contract!vars, Phases
<1>8. QED
    BY <1>1, <1>2, <1>3, <1>4, <1>5, <1>6, <1>7 DEF Next, DoStep, Contract!Next

(* Do implements its contract, for any number of callers and keys.         *)
THEOREM ImplementsContract == Spec => KeepsContract
<1>1. Init => OriginInv /\ Contract!Init
    BY OriginInvInit, ContractInit
<1>2. OriginInv /\ [Next]_vars => OriginInv' /\ [Contract!Next]_(Contract!vars)
    BY OriginInvNext, ContractNext
<1>3. QED BY <1>1, <1>2, PTL DEF Spec, KeepsContract, Contract!Spec

-----------------------------------------------------------------------------
(***************************************************************************)
(* Group, whatever the peers answer and whether or not the database fails  *)
(* or panics.  The invariants of the flight that do not depend on what its *)
(* function returns are those of SingleFlight above.                       *)
(***************************************************************************)

(* What a run may return.                                                  *)
Produced == {Found(v) : v \in Values} \cup {Failed(e) : e \in {NotFound, DbError}}

GAssigned ==
    \A r \in Requests :
        /\ pc[r] \notin {"idle", "returned"} => key[r] \in Keys
        /\ call[r] # None =>
              key[r] \in Keys /\ pc[r] \in {"publish", "retire", "returned"}
        /\ pc[r] \in {"publish", "retire"} => call[r] # None
        /\ pc[r] = "wait" => joined[r] \in Requests
        /\ r \in wgDone => call[r] # None
        /\ pc[r] = "returned" => ret[r] # None
        /\ read[r] # None <=> at[r] = "store"

(* The types of all variables, and what is assigned when.                  *)
GTypeInv ==
    /\ GTypeOK
    /\ call \in [Requests -> Produced \cup {None}]
    /\ wgDone \subseteq Requests
    /\ joined \in [Requests -> Requests \cup {None}]
    /\ before \in [Requests -> SUBSET Requests]
    /\ over \in [Requests -> SUBSET Requests]
    /\ GAssigned

LEMMA ProducedFacts ==
    /\ \A v \in Values : Found(v) \in Produced
    /\ Failed(NotFound) \in Produced /\ Failed(DbError) \in Produced
    /\ \A o \in Produced :
          /\ o \in GOutcome
          /\ o # None
          /\ o.err = Nil => o.value \in Values
          /\ o.err # Nil => o.value = Empty /\ o.err \in {NotFound, DbError}
<1>1. {NotFound, DbError, KeyRequired} \cap {Nil} = {} /\ None \notin GOutcome
    BY GroupConstants
<1>2. ASSUME NEW v \in Values PROVE Found(v) \in GOutcome /\ Found(v).err = Nil /\ Found(v).value = v
    BY DEF Found, GOutcome
<1>3. ASSUME NEW e \in {NotFound, DbError}
      PROVE  Failed(e) \in GOutcome /\ Failed(e).err = e /\ Failed(e).value = Empty /\ e # Nil
    BY <1>1 DEF Failed, GOutcome, Values
<1>4. QED BY <1>1, <1>2, <1>3 DEF Produced

LEMMA ValueFacts ==
    /\ \A v \in Values : v # None
    /\ \A v \in Versions : v # Empty
    /\ Versions \subseteq Nat
BY GroupConstants DEF Values, Versions

(* A pair of a node and a name is a key.                                   *)
LEMMA KeyFacts ==
    ASSUME NEW k \in Keys
    PROVE  NodeOf(k) \in Nodes /\ NameOf(k) \in Names /\ k # None
<1>1. k \in Nodes \X Names /\ k # None
    BY GroupConstants
<1>2. QED BY <1>1 DEF NodeOf, NameOf

(* A Put takes away some entries and changes no other but its own.         *)
LEMMA PutFacts ==
    ASSUME mainCache \in [Keys -> Values \cup {None}],
           NEW k \in Keys, NEW v \in Values, Put(k, v)
    PROVE  /\ mainCache' \in [Keys -> Values \cup {None}]
           /\ \A j \in Keys : \/ mainCache'[j] \in {None, mainCache[j]}
                              \/ j = k /\ mainCache'[j] = v
<1>1. PICK evicted \in SUBSET KeysAt(NodeOf(k)) :
          mainCache' = [j \in Keys |-> IF j \in evicted THEN None
                                       ELSE [mainCache EXCEPT ![k] = v][j]]
    BY DEF Put
<1>2. \A j \in Keys : [mainCache EXCEPT ![k] = v][j] = IF j = k THEN v ELSE mainCache[j]
    OBVIOUS
<1>3. QED BY <1>1, <1>2

LEMMA GTypeInit == GInit => GTypeInv
<1> SUFFICES ASSUME GInit PROVE GTypeInv
    OBVIOUS
<1>1. db \in [Names -> 0..MaxVersion]
    BY GroupConstants DEF GInit
<1>2. GTypeOK
    BY <1>1 DEF GInit, Init, GTypeOK, PCs
<1>3. GAssigned
    BY DEF GInit, Init, GAssigned
<1>4. QED BY <1>2, <1>3 DEF GTypeInv, GInit, Init

(* Calls of Get, and the flight.                                           *)
LEMMA GTypeFlight ==
    ASSUME GTypeInv, NEW r \in Requests,
           GetRefused(r) \/ (\E k \in Keys : GetHit(r, k) \/ GetMiss(r, k)) \/ FlightStep(r)
    PROVE  GTypeInv'
<1> USE GroupConstants DEF GTypeInv, GTypeOK, GAssigned, PCs, groupVars
<1>1. CASE GetRefused(r)
    <2>1. Failed(KeyRequired) \in GOutcome /\ Failed(KeyRequired) # None
        BY DEF Failed, GOutcome, Values
    <2>2. QED BY <1>1, <2>1 DEF GetRefused, Answer
<1>2. ASSUME NEW k \in Keys, GetHit(r, k) PROVE GTypeInv'
    <2>1. mainCache[k] \in Values
        BY <1>2 DEF GetHit
    <2>2. Found(mainCache[k]) \in GOutcome /\ Found(mainCache[k]) # None
        BY <2>1 DEF Found, GOutcome
    <2>3. call[r] = None /\ r \notin wgDone
        BY <1>2 DEF GetHit
    <2>4. QED BY <1>2, <2>2, <2>3 DEF GetHit, Answer
<1>3. ASSUME NEW k \in Keys, GetMiss(r, k) PROVE GTypeInv'
    <2>1. /\ pc[r] = "idle" /\ pc' = [pc EXCEPT ![r] = "lookup"]
          /\ key' = [key EXCEPT ![r] = k]
          /\ before' = [before EXCEPT ![r] = Retired]
          /\ UNCHANGED <<m, cache, call, wgDone, joined, ret, groupVars>>
        BY <1>3 DEF GetMiss, Do
    <2>2. before' \in [Requests -> SUBSET Requests]
        BY <2>1 DEF Retired
    <2>3. call[r] = None /\ r \notin wgDone
        BY <2>1
    <2>4. QED BY <2>1, <2>2, <2>3
<1>4. ASSUME CacheHit(r), UNCHANGED groupVars PROVE GTypeInv'
    <2>1. cache[key[r]].value = Empty
        BY <1>4 DEF CacheHit, Cached
    <2>2. Found(Empty) \in GOutcome /\ Found(Empty) # None
        BY DEF Found, GOutcome, Values
    <2>3. QED BY <1>4, <2>1, <2>2 DEF CacheHit, Found
<1>5. ASSUME Join(r), UNCHANGED groupVars PROVE GTypeInv'
    BY <1>5 DEF Join
<1>6. ASSUME Miss(r), UNCHANGED groupVars PROVE GTypeInv'
    BY <1>6 DEF Miss
<1>7. ASSUME Claim(r), over' = [over EXCEPT ![r] = Retired],
             UNCHANGED <<db, mainCache, at, read>>
      PROVE  GTypeInv'
    <2>1. Retired \subseteq Requests
        BY DEF Retired
    <2>2. QED BY <1>7, <2>1 DEF Claim
<1>8. ASSUME Publish(r), UNCHANGED groupVars PROVE GTypeInv'
    BY <1>8 DEF Publish
<1>9. ASSUME Retire(r), UNCHANGED groupVars PROVE GTypeInv'
    <2>1. key[r] \in Keys /\ call[r] \in Produced
        BY <1>9 DEF Retire
    <2>2. call[r].err # Nil => [value |-> call[r].value, live |-> TRUE]
                                  \in [value : {Empty}, live : BOOLEAN]
        BY <2>1, ProducedFacts
    <2>3. cache' \in [Keys -> [value : {Empty}, live : BOOLEAN] \cup {None}]
        BY <1>9, <2>1, <2>2 DEF Retire
    <2>4. call[r] \in GOutcome /\ call[r] # None
        BY <2>1, ProducedFacts
    <2>5. QED BY <1>9, <2>1, <2>3, <2>4 DEF Retire
<1>10. ASSUME Wake(r), UNCHANGED groupVars PROVE GTypeInv'
    <2>1. call[joined[r]] \in GOutcome /\ call[joined[r]] # None
        BY <1>10, ProducedFacts DEF Wake
    <2>2. QED BY <1>10, <2>1 DEF Wake
<1>11. QED
    BY <1>1, <1>2, <1>3, <1>4, <1>5, <1>6, <1>7, <1>8, <1>9, <1>10 DEF FlightStep

(* The function given to flight.Do returns o.                              *)
LEMMA GTypeReturn ==
    ASSUME GTypeInv, NEW r \in Requests, NEW o \in Produced, FnReturns(r, o),
           mainCache' \in [Keys -> Values \cup {None}],
           UNCHANGED <<db, at, read, over>>
    PROVE  GTypeInv'
<1> USE DEF GTypeInv, GTypeOK, GAssigned, PCs
<1>1. o \in GOutcome /\ o # None
    BY ProducedFacts
<1>2. key[r] \in Keys
    BY DEF FnReturns
<1>3. QED BY <1>1, <1>2 DEF FnReturns

(* The function given to flight.Do.                                        *)
LEMMA GTypeLoad ==
    ASSUME GTypeInv, NEW r \in Requests,
           LoadStep(r) \/ FetchSucceeds(r) \/ FetchFails(r)
    PROVE  GTypeInv'
<1>1. /\ Running(r, "pick") \/ Running(r, "fetch") \/ Running(r, "retrieve")
            \/ Running(r, "store")
          => key[r] \in Keys /\ NameOf(key[r]) \in Names
      /\ mainCache \in [Keys -> Values \cup {None}]
      /\ db \in [Names -> 0..MaxVersion]
    BY KeyFacts DEF Running, GTypeInv, GTypeOK, GAssigned
<1>2. CASE Pick(r) \/ FetchFails(r)
    <2>1. /\ at[r] # "store"
          /\ \E x \in {"fetch", "retrieve"} : at' = [at EXCEPT ![r] = x]
          /\ UNCHANGED <<vars, db, mainCache, read, over>>
        BY <1>2 DEF Pick, FetchFails, Running
    <2>2. QED BY <2>1 DEF GTypeInv, GTypeOK, GAssigned, vars
<1>3. CASE Retrieve(r)
    <2>1. Row(r) \in 0..MaxVersion
        BY <1>1, <1>3 DEF Retrieve, Row
    <2>2. (IF Row(r) = 0 THEN Empty ELSE Row(r)) \in Values
        BY <2>1, GroupConstants DEF Values, Versions
    <2>3. /\ \E v \in Values : read' = [read EXCEPT ![r] = v]
          /\ at' = [at EXCEPT ![r] = "store"]
          /\ UNCHANGED <<vars, db, mainCache, over>>
        BY <1>3, <2>2 DEF Retrieve
    <2>4. GTypeOK'
        BY <2>3 DEF GTypeInv, GTypeOK, vars
    <2>5. GAssigned'
        <3>1. \A q \in Requests : read'[q] # None <=> at'[q] = "store"
            BY <2>3, ValueFacts DEF GTypeInv, GTypeOK, GAssigned
        <3>2. QED BY <2>3, <3>1 DEF GTypeInv, GAssigned, vars
    <2>6. QED BY <2>3, <2>4, <2>5 DEF GTypeInv, vars
<1>4. CASE RetrieveFails(r)
    BY <1>1, <1>4, ProducedFacts, GTypeReturn DEF RetrieveFails, groupVars
<1>5. CASE RetrievePanics(r)
    <2>1. /\ pc[r] = "run" /\ pc' = [pc EXCEPT ![r] = "panicked"]
          /\ UNCHANGED <<key, m, cache, call, wgDone, joined, ret, before, groupVars>>
        BY <1>5 DEF RetrievePanics, FnPanics
    <2>2. GTypeOK'
        BY <2>1 DEF GTypeInv, GTypeOK, PCs, groupVars
    <2>3. GAssigned'
        BY <1>1, <2>1 DEF GTypeInv, GTypeOK, GAssigned, groupVars
    <2>4. QED BY <2>1, <2>2, <2>3 DEF GTypeInv, groupVars
<1>6. CASE Store(r)
    <2>1. read[r] \in Values
        BY <1>6 DEF Store, Running, GTypeInv, GTypeOK, GAssigned
    <2>2. mainCache' \in [Keys -> Values \cup {None}]
        BY <1>1, <1>6, <2>1, PutFacts DEF Store
    <2>3. (IF read[r] = Empty THEN Failed(NotFound) ELSE Found(read[r])) \in Produced
        BY <2>1, ProducedFacts
    <2>4. QED BY <1>6, <2>2, <2>3, GTypeReturn DEF Store
<1>7. CASE FetchSucceeds(r)
    <2>0. PICK name \in {NameOf(key[r]), Wire[NameOf(key[r])]} :
              \E v \in {Empty} \cup 1..db[name] : FnReturns(r, Found(v))
        BY <1>7 DEF FetchSucceeds
    <2>1. PICK v \in {Empty} \cup 1..db[name] : FnReturns(r, Found(v))
        BY <2>0
    <2>2. name \in Names
        BY <1>1, <1>7, GroupConstants DEF FetchSucceeds
    <2>3. v \in Values
        BY <1>1, <2>2, GroupConstants DEF Values, Versions
    <2>4. UNCHANGED groupVars
        BY <1>7 DEF FetchSucceeds
    <2>5. QED BY <1>1, <2>1, <2>3, <2>4, ProducedFacts, GTypeReturn DEF groupVars
<1>8. QED
    BY <1>2, <1>3, <1>4, <1>5, <1>6, <1>7 DEF LoadStep

(* The rows, and the flight cache.                                         *)
LEMMA GTypeOthers ==
    ASSUME GTypeInv,
           \/ \E n \in Names : CreateStudent(n) \/ Update(n)
           \/ (Sweep \/ \E k \in Keys : Expire(k)) /\ UNCHANGED groupVars
           \/ UNCHANGED allVars
    PROVE  GTypeInv'
<1>1. ASSUME NEW n \in Names, CreateStudent(n) \/ Update(n) PROVE GTypeInv'
    <2>1. db' \in [Names -> 0..MaxVersion]
        BY <1>1, GroupConstants DEF CreateStudent, Update, GTypeInv, GTypeOK
    <2>2. UNCHANGED <<vars, mainCache, at, read, over>>
        BY <1>1 DEF CreateStudent, Update
    <2>3. QED BY <2>1, <2>2 DEF GTypeInv, GTypeOK, GAssigned, vars
<1>2. ASSUME NEW k \in Keys, Expire(k), UNCHANGED groupVars PROVE GTypeInv'
    <2>1. cache[k] \in [value : {Empty}, live : BOOLEAN]
        BY <1>2 DEF Expire, Cached, GTypeInv, GTypeOK
    <2>2. cache' \in [Keys -> [value : {Empty}, live : BOOLEAN] \cup {None}]
        BY <1>2, <2>1 DEF Expire, GTypeInv, GTypeOK
    <2>3. QED BY <1>2, <2>2 DEF Expire, GTypeInv, GTypeOK, GAssigned, groupVars
<1>3. ASSUME Sweep, UNCHANGED groupVars PROVE GTypeInv'
    <2>1. cache' \in [Keys -> [value : {Empty}, live : BOOLEAN] \cup {None}]
        BY <1>3 DEF Sweep, GTypeInv, GTypeOK
    <2>2. QED BY <1>3, <2>1 DEF Sweep, GTypeInv, GTypeOK, GAssigned, groupVars
<1>4. CASE UNCHANGED allVars
    BY <1>4 DEF allVars, vars, groupVars, GTypeInv, GTypeOK, GAssigned
<1>5. QED BY <1>1, <1>2, <1>3, <1>4

LEMMA GTypeNext == GTypeInv /\ [GNext]_allVars => GTypeInv'
BY GTypeFlight, GTypeLoad, GTypeOthers DEF GNext

(* Type correctness: every result is one Get may give, and nothing but the *)
(* empty value is ever in the flight cache.                                *)
THEOREM GroupTypeCorrect == GSpec => []GTypeOK
<1>1. GTypeInv => GTypeOK BY DEF GTypeInv
<1>2. QED BY GTypeInit, GTypeNext, <1>1, PTL DEF GSpec

-----------------------------------------------------------------------------
(* The flight, whatever its function returns.  Every step of Group is to   *)
(* the flight a step of SingleFlight, one of a Get that needs no flight,   *)
(* or none.                                                                *)
AnswersAtOnce(r) ==
    /\ pc[r] = "idle"
    /\ pc' = [pc EXCEPT ![r] = "returned"]
    /\ \/ ret' = [ret EXCEPT ![r] = Failed(KeyRequired)] /\ key' = key
       \/ \E k \in Keys : /\ mainCache[k] # None
                          /\ ret' = [ret EXCEPT ![r] = Found(mainCache[k])]
                          /\ key' = [key EXCEPT ![r] = k]
    /\ UNCHANGED <<m, cache, call, wgDone, joined, before>>

FlightNext ==
    \/ \E r \in Requests :
          \/ \E k \in Keys : Do(r, k)
          \/ DoStep(r)
          \/ \E o \in Produced : FnReturns(r, o)
          \/ AnswersAtOnce(r)
    \/ (\E k \in Keys : Expire(k)) \/ Sweep
    \/ UNCHANGED vars

LEMMA FlightNextSteps == GTypeInv /\ [GNext]_allVars => FlightNext
<1> SUFFICES ASSUME GTypeInv, [GNext]_allVars PROVE FlightNext
    OBVIOUS
<1>1. ASSUME NEW r \in Requests, GetRefused(r) PROVE AnswersAtOnce(r)
    BY <1>1 DEF GetRefused, Answer, AnswersAtOnce
<1>2. ASSUME NEW r \in Requests, NEW k \in Keys, GetHit(r, k) PROVE AnswersAtOnce(r)
    BY <1>2 DEF GetHit, Answer, AnswersAtOnce
<1>3. ASSUME NEW r \in Requests, NEW k \in Keys, GetMiss(r, k) PROVE Do(r, k)
    BY <1>3 DEF GetMiss
<1>4. ASSUME NEW r \in Requests, FlightStep(r) PROVE DoStep(r)
    BY <1>4 DEF FlightStep, DoStep
<1>5. ASSUME NEW r \in Requests, Pick(r) \/ Retrieve(r) \/ FetchFails(r) PROVE UNCHANGED vars
    BY <1>5 DEF Pick, Retrieve, FetchFails, vars
<1>6. ASSUME NEW r \in Requests, RetrieveFails(r) PROVE \E o \in Produced : FnReturns(r, o)
    BY <1>6, ProducedFacts DEF RetrieveFails
<1>7. ASSUME NEW r \in Requests, RetrievePanics(r) PROVE DoStep(r)
    BY <1>7 DEF RetrievePanics, DoStep
<1>8. ASSUME NEW r \in Requests, Store(r) PROVE \E o \in Produced : FnReturns(r, o)
    <2>1. read[r] \in Values
        BY <1>8 DEF Store, Running, GTypeInv, GTypeOK, GAssigned
    <2>2. (IF read[r] = Empty THEN Failed(NotFound) ELSE Found(read[r])) \in Produced
        BY <2>1, ProducedFacts
    <2>3. QED BY <1>8, <2>2 DEF Store
<1>9. ASSUME NEW r \in Requests, FetchSucceeds(r) PROVE \E o \in Produced : FnReturns(r, o)
    <2>1. key[r] \in Keys
        BY <1>9 DEF FetchSucceeds, Running, GTypeInv, GAssigned
    <2>2. PICK name \in {NameOf(key[r]), Wire[NameOf(key[r])]} :
              \E v \in {Empty} \cup 1..db[name] : FnReturns(r, Found(v))
        BY <1>9 DEF FetchSucceeds
    <2>3. db[name] \in 0..MaxVersion
        BY <2>1, KeyFacts, GroupConstants DEF GTypeInv, GTypeOK
    <2>4. {Empty} \cup 1..db[name] \subseteq Values
        BY <2>3, GroupConstants DEF Values, Versions
    <2>5. QED BY <2>2, <2>4, ProducedFacts
<1>10. ASSUME NEW n \in Names, CreateStudent(n) \/ Update(n) PROVE UNCHANGED vars
    BY <1>10 DEF CreateStudent, Update
<1>11. CASE UNCHANGED allVars
    BY <1>11 DEF allVars, FlightNext
<1>12. ASSUME NEW r \in Requests,
              \/ GetRefused(r)
              \/ \E k \in Keys : GetHit(r, k) \/ GetMiss(r, k)
              \/ FlightStep(r) \/ LoadStep(r) \/ FetchSucceeds(r) \/ FetchFails(r)
       PROVE  FlightNext
    BY <1>1, <1>2, <1>3, <1>4, <1>5, <1>6, <1>7, <1>8, <1>9, <1>12 DEF FlightNext, LoadStep
<1>13. QED
    BY <1>10, <1>11, <1>12 DEF FlightNext, GNext

(* Who waits for whom, and which runs were over when a call began.         *)
GFlightInv ==
    /\ GTypeInv
    /\ DoneBeforeRetired
    /\ RegisteredCallIsUnretired
    /\ WaitIsJustified
    /\ BeforeIsOver

LEMMA GFlightInit == GInit => GFlightInv
<1> SUFFICES ASSUME GInit PROVE GFlightInv
    OBVIOUS
<1>1. DoneBeforeRetired /\ WaitIsJustified /\ BeforeIsOver
    BY DEF GInit, Init, DoneBeforeRetired, WaitIsJustified, BeforeIsOver
<1>2. RegisteredCallIsUnretired
    BY DEF GInit, Init, RegisteredCallIsUnretired
<1>3. QED BY <1>1, <1>2, GTypeInit DEF GFlightInv

LEMMA GFlightNext == GFlightInv /\ [GNext]_allVars => GFlightInv'
<1> SUFFICES ASSUME GFlightInv, [GNext]_allVars PROVE GFlightInv'
    OBVIOUS
<1>0. GTypeInv /\ GTypeInv' /\ FlightNext
    BY GTypeNext, FlightNextSteps DEF GFlightInv
<1>t. /\ pc \in [Requests -> PCs] /\ key \in [Requests -> Keys \cup {None}]
      /\ m \in [Keys -> Requests \cup {None}] /\ None \notin Requests
      /\ joined \in [Requests -> Requests \cup {None}]
      /\ before \in [Requests -> SUBSET Requests]
      /\ \A q \in Requests :
            /\ pc[q] \notin {"idle", "returned"} => key[q] \in Keys
            /\ q \in wgDone => call[q] # None
            /\ call[q] # None => pc[q] \in {"publish", "retire", "returned"}
    BY <1>0, ConstantsDiffer DEF GTypeInv, GTypeOK, GAssigned
<1> USE <1>t DEF GFlightInv, DoneBeforeRetired, RegisteredCallIsUnretired, WaitIsJustified,
                 BeforeIsOver, PCs
<1>1. ASSUME NEW r \in Requests, NEW k \in Keys, Do(r, k) PROVE GFlightInv'
    <2>1. RegisteredCallIsUnretired' /\ DoneBeforeRetired'
        BY <1>1 DEF Do
    <2>2. WaitIsJustified'
        BY <1>1 DEF Do
    <2>3. BeforeIsOver'
        BY <1>1 DEF Do, Retired
    <2>4. QED BY <1>0, <2>1, <2>2, <2>3
<1>2. ASSUME NEW r \in Requests, Join(r) PROVE GFlightInv'
    <2>1. /\ m[key[r]] \in Requests \ {r}
          /\ key[m[key[r]]] = key[r]
          /\ m[key[r]] \in wgDone \/ pc[m[key[r]]] \in {"run", "publish", "panicked"}
          /\ pc[m[key[r]]] # "returned"
        BY <1>2 DEF Join
    <2>2. WaitIsJustified'
        BY <1>2, <2>1 DEF Join
    <2>3. RegisteredCallIsUnretired' /\ DoneBeforeRetired'
        BY <1>2 DEF Join
    <2>4. BeforeIsOver'
        BY <1>2, <2>1 DEF Join
    <2>5. QED BY <1>0, <2>2, <2>3, <2>4
<1>3. ASSUME NEW r \in Requests, Claim(r) PROVE GFlightInv'
    <2>1. RegisteredCallIsUnretired' /\ DoneBeforeRetired'
        BY <1>3 DEF Claim
    <2>2. WaitIsJustified' /\ BeforeIsOver'
        BY <1>3 DEF Claim
    <2>3. QED BY <1>0, <2>1, <2>2
<1>4. ASSUME NEW r \in Requests, NEW o \in Produced, FnReturns(r, o) PROVE GFlightInv'
    BY <1>0, <1>4 DEF FnReturns
<1>5. ASSUME NEW r \in Requests, FnPanics(r) PROVE GFlightInv'
    BY <1>0, <1>5 DEF FnPanics
<1>6. ASSUME NEW r \in Requests, Publish(r) PROVE GFlightInv'
    BY <1>0, <1>6 DEF Publish
<1>7. ASSUME NEW r \in Requests, Retire(r) PROVE GFlightInv'
    <2>1. RegisteredCallIsUnretired' /\ DoneBeforeRetired'
        BY <1>7 DEF Retire
    <2>2. WaitIsJustified' /\ BeforeIsOver'
        BY <1>7 DEF Retire
    <2>3. QED BY <1>0, <2>1, <2>2
<1>8. ASSUME NEW r \in Requests, CacheHit(r) \/ Miss(r) \/ Wake(r) PROVE GFlightInv'
    <2>1. /\ \E x \in {"returned", "claim"} : pc' = [pc EXCEPT ![r] = x]
          /\ pc[r] \in {"lookup", "wait"}
          /\ UNCHANGED <<key, m, wgDone, joined, before>>
        BY <1>8 DEF CacheHit, Miss, Wake
    <2>2. QED BY <1>0, <2>1
<1>9. ASSUME NEW r \in Requests, AnswersAtOnce(r) PROVE GFlightInv'
    <2>1. /\ pc[r] = "idle" /\ pc' = [pc EXCEPT ![r] = "returned"]
          /\ \A q \in Requests \ {r} : key'[q] = key[q]
          /\ UNCHANGED <<m, wgDone, joined, before>>
        BY <1>9 DEF AnswersAtOnce
    <2>2. RegisteredCallIsUnretired' /\ DoneBeforeRetired'
        BY <2>1
    <2>3. WaitIsJustified' /\ BeforeIsOver'
        BY <2>1
    <2>4. QED BY <1>0, <2>2, <2>3
<1>10. CASE (\E k \in Keys : Expire(k)) \/ Sweep \/ UNCHANGED vars
    <2>1. UNCHANGED <<pc, key, m, wgDone, joined, before>>
        BY <1>10 DEF Expire, Sweep, vars
    <2>2. QED BY <1>0, <2>1
<1> HIDE <1>t DEF GFlightInv, DoneBeforeRetired, RegisteredCallIsUnretired, WaitIsJustified,
                  BeforeIsOver, PCs
<1>11. QED
    BY <1>0, <1>1, <1>2, <1>3, <1>4, <1>5, <1>6, <1>7, <1>8, <1>9, <1>10 DEF FlightNext, DoStep

-----------------------------------------------------------------------------
(* What does not change once it is there.                                  *)

(* The key of a request that was made.                                     *)
LEMMA KeyStays ==
    ASSUME GTypeInv, [GNext]_allVars, NEW c \in Requests, pc[c] # "idle"
    PROVE  key'[c] = key[c] /\ pc'[c] # "idle"
<1> USE DEF GTypeInv, GTypeOK
<1>0. FlightNext
    BY FlightNextSteps
<1>1. ASSUME NEW r \in Requests, (\E k \in Keys : Do(r, k)) \/ AnswersAtOnce(r)
      PROVE  key'[c] = key[c] /\ pc'[c] # "idle"
    BY <1>1 DEF Do, AnswersAtOnce
<1>2. ASSUME NEW r \in Requests, DoStep(r) \/ \E o \in Produced : FnReturns(r, o)
      PROVE  key'[c] = key[c] /\ pc'[c] # "idle"
    BY <1>2 DEF DoStep, CacheHit, Join, Miss, Claim, FnPanics, Publish, Retire, Wake, FnReturns
<1>3. CASE (\E k \in Keys : Expire(k)) \/ Sweep \/ UNCHANGED vars
    BY <1>3 DEF Expire, Sweep, vars
<1>4. QED BY <1>0, <1>1, <1>2, <1>3 DEF FlightNext

(* The outcome of a run.                                                   *)
LEMMA CallStays ==
    ASSUME GTypeInv, [GNext]_allVars, NEW c \in Requests, call[c] # None
    PROVE  call'[c] = call[c]
<1> USE DEF GTypeInv, GTypeOK
<1>0. FlightNext /\ pc[c] \in {"publish", "retire", "returned"}
    BY FlightNextSteps DEF GAssigned
<1>1. ASSUME NEW r \in Requests, (\E k \in Keys : Do(r, k)) \/ AnswersAtOnce(r) \/ DoStep(r)
      PROVE  call' = call
    BY <1>1 DEF Do, AnswersAtOnce, DoStep, CacheHit, Join, Miss, Claim, FnPanics, Publish,
                Retire, Wake
<1>2. ASSUME NEW r \in Requests, NEW o \in Produced, FnReturns(r, o)
      PROVE  call'[c] = call[c]
    BY <1>0, <1>2 DEF FnReturns
<1>3. CASE (\E k \in Keys : Expire(k)) \/ Sweep \/ UNCHANGED vars
    BY <1>3 DEF Expire, Sweep, vars
<1>4. QED BY <1>0, <1>1, <1>2, <1>3 DEF FlightNext

(* A run has its outcome from the database or from a peer.                 *)
LEMMA CallSteps ==
    ASSUME GTypeInv, [GNext]_allVars, NEW c \in Requests, call'[c] # call[c]
    PROVE  RetrieveFails(c) \/ Store(c) \/ FetchSucceeds(c)
<1>0. call \in [Requests -> GOutcome \cup {None}]
    BY DEF GTypeInv, GTypeOK
<1>1. ASSUME NEW r \in Requests, RetrieveFails(r) \/ Store(r) \/ FetchSucceeds(r)
      PROVE  r = c
    BY <1>0, <1>1 DEF RetrieveFails, Store, FetchSucceeds, FnReturns
<1>2. PICK r \in Requests : RetrieveFails(r) \/ Store(r) \/ FetchSucceeds(r)
    BY DEF GNext, LoadStep, FlightStep, GetRefused, GetHit, GetMiss, Answer, Do,
           CacheHit, Join, Miss, Claim, Publish, Retire, Wake, FnPanics,
           Pick, Retrieve, RetrievePanics, FetchFails, CreateStudent, Update,
           Expire, Sweep, vars, allVars
<1>3. QED BY <1>1, <1>2

(* A request that has returned, its result and what was over before it.    *)
LEMMA GReturnedStays ==
    ASSUME GTypeInv, [GNext]_allVars, NEW r \in Requests, pc[r] = "returned"
    PROVE  pc'[r] = "returned" /\ ret'[r] = ret[r] /\ before'[r] = before[r]
<1> USE DEF GTypeInv, GTypeOK
<1>0. FlightNext
    BY FlightNextSteps
<1>1. ASSUME NEW s \in Requests, (\E k \in Keys : Do(s, k)) \/ AnswersAtOnce(s)
      PROVE  pc'[r] = "returned" /\ ret'[r] = ret[r] /\ before'[r] = before[r]
    BY <1>1 DEF Do, AnswersAtOnce
<1>2. ASSUME NEW s \in Requests, DoStep(s) \/ \E o \in Produced : FnReturns(s, o)
      PROVE  pc'[r] = "returned" /\ ret'[r] = ret[r] /\ before'[r] = before[r]
    BY <1>2 DEF DoStep, CacheHit, Join, Miss, Claim, FnPanics, Publish, Retire, Wake, FnReturns
<1>3. CASE (\E k \in Keys : Expire(k)) \/ Sweep \/ UNCHANGED vars
    BY <1>3 DEF Expire, Sweep, vars
<1>4. QED BY <1>0, <1>1, <1>2, <1>3 DEF FlightNext

(* A call of flight.Do returns from its own run, from the call it waited   *)
(* for or from the flight cache; every other result needed no flight.      *)
LEMMA ReturnSteps ==
    ASSUME GTypeInv, [GNext]_allVars, NEW r \in Requests, pc[r] # "returned",
           pc'[r] = "returned"
    PROVE  Retire(r) \/ Wake(r) \/ CacheHit(r) \/ AnswersAtOnce(r)
<1> USE DEF GTypeInv, GTypeOK
<1>0. FlightNext
    BY FlightNextSteps
<1>1. ASSUME NEW s \in Requests, (\E k \in Keys : Do(s, k)) \/ \E o \in Produced : FnReturns(s, o)
      PROVE  FALSE
    BY <1>1 DEF Do, FnReturns
<1>2. ASSUME NEW s \in Requests, Join(s) \/ Miss(s) \/ Claim(s) \/ FnPanics(s) \/ Publish(s)
      PROVE  FALSE
    BY <1>2 DEF Join, Miss, Claim, FnPanics, Publish
<1>3. ASSUME NEW s \in Requests, Retire(s) \/ Wake(s) \/ CacheHit(s) \/ AnswersAtOnce(s)
      PROVE  s = r
    BY <1>3 DEF Retire, Wake, CacheHit, AnswersAtOnce
<1>4. ~((\E k \in Keys : Expire(k)) \/ Sweep \/ UNCHANGED vars)
    BY DEF Expire, Sweep, vars
<1>5. QED BY <1>0, <1>1, <1>2, <1>3, <1>4 DEF FlightNext, DoStep

(* Of all steps, these change what is stored, read or recorded.            *)
LEMMA LoadSteps ==
    ASSUME [GNext]_allVars
    PROVE  \/ UNCHANGED groupVars
           \/ \E r \in Requests : Claim(r) /\ over' = [over EXCEPT ![r] = Retired]
                                  /\ UNCHANGED <<db, mainCache, at, read>>
           \/ \E r \in Requests : Pick(r) \/ FetchFails(r) \/ Retrieve(r) \/ Store(r)
           \/ \E n \in Names : CreateStudent(n) \/ Update(n)
<1>1. ASSUME NEW r \in Requests, GetRefused(r) \/ \E k \in Keys : GetHit(r, k)
      PROVE  UNCHANGED groupVars
    BY <1>1 DEF GetRefused, GetHit, Answer
<1>2. ASSUME NEW r \in Requests, NEW k \in Keys, GetMiss(r, k) PROVE UNCHANGED groupVars
    BY <1>2 DEF GetMiss
<1>3. ASSUME NEW r \in Requests, RetrieveFails(r) \/ RetrievePanics(r) \/ FetchSucceeds(r)
      PROVE  UNCHANGED groupVars
    BY <1>3 DEF RetrieveFails, RetrievePanics, FetchSucceeds
<1>4. CASE UNCHANGED allVars
    BY <1>4 DEF allVars
<1>5. QED
    BY <1>1, <1>2, <1>3, <1>4 DEF GNext, FlightStep, LoadStep

(* What the retriever returned to a run.                                   *)
LEMMA ReadStays ==
    ASSUME GTypeInv, [GNext]_allVars, NEW c \in Requests, read[c] # None
    PROVE  read'[c] = read[c]
<1> USE DEF GTypeInv, GTypeOK, GAssigned
<1>1. ASSUME NEW r \in Requests, Pick(r) \/ FetchFails(r) \/ Retrieve(r) \/ Store(r)
      PROVE  read'[c] = read[c]
    BY <1>1 DEF Pick, FetchFails, Retrieve, Store, Running
<1>2. ASSUME NEW n \in Names, CreateStudent(n) \/ Update(n) PROVE read'[c] = read[c]
    BY <1>2 DEF CreateStudent, Update
<1>3. QED BY <1>1, <1>2, LoadSteps DEF groupVars

(* Rows are inserted and updated, never deleted.                           *)
LEMMA RowsGrow ==
    ASSUME GTypeInv, [GNext]_allVars, NEW n \in Names
    PROVE  db[n] \in Nat /\ db'[n] \in Nat /\ db[n] <= db'[n]
<1>0. db \in [Names -> 0..MaxVersion] /\ MaxVersion \in Nat
    BY GroupConstants DEF GTypeInv, GTypeOK
<1>1. ASSUME NEW r \in Requests, Pick(r) \/ FetchFails(r) \/ Retrieve(r) \/ Store(r)
      PROVE  db' = db
    BY <1>1 DEF Pick, FetchFails, Retrieve, Store
<1>2. ASSUME NEW s \in Names, CreateStudent(s) \/ Update(s)
      PROVE  db[n] \in Nat /\ db'[n] \in Nat /\ db[n] <= db'[n]
    BY <1>0, <1>2 DEF CreateStudent, Update
<1>3. QED BY <1>0, <1>1, <1>2, LoadSteps DEF groupVars

(* A request in, or past, the function given to flight.Do is not in front  *)
(* of it again.                                                            *)
Begun == {"run", "publish", "retire", "returned", "panicked"}

LEMMA BegunStays ==
    ASSUME GTypeInv, [GNext]_allVars, NEW c \in Requests, pc[c] \in Begun
    PROVE  pc'[c] \in Begun
<1> USE DEF GTypeInv, GTypeOK, Begun
<1>0. FlightNext
    BY FlightNextSteps
<1>1. ASSUME NEW r \in Requests, (\E k \in Keys : Do(r, k)) \/ AnswersAtOnce(r)
      PROVE  pc'[c] \in Begun
    BY <1>1 DEF Do, AnswersAtOnce
<1>2. ASSUME NEW r \in Requests, DoStep(r) \/ \E o \in Produced : FnReturns(r, o)
      PROVE  pc'[c] \in Begun
    BY <1>2 DEF DoStep, CacheHit, Join, Miss, Claim, FnPanics, Publish, Retire, Wake, FnReturns
<1>3. CASE (\E k \in Keys : Expire(k)) \/ Sweep \/ UNCHANGED vars
    BY <1>3 DEF Expire, Sweep, vars
<1>4. QED BY <1>0, <1>1, <1>2, <1>3 DEF FlightNext

(* Only a run reads, what it reads is a version the row has had, and it    *)
(* fails with not-found only if there was no row.                          *)
ReadFacts ==
    \A r \in Requests :
        /\ at[r] # "pick" => pc[r] \in Begun /\ key[r] \in Keys
        /\ read[r] \in Versions => read[r] <= db[NameOf(key[r])]
        /\ call[r] = Failed(NotFound) => read[r] = Empty

LEMMA ReadFactsNext ==
    ASSUME GFlightInv, ReadFacts, [GNext]_allVars
    PROVE  ReadFacts'
<1>0. GTypeInv /\ GTypeInv' /\ pc \in [Requests -> PCs] /\ at \in [Requests -> {"pick", "fetch", "retrieve", "store"}]
      /\ read \in [Requests -> Values \cup {None}] /\ call \in [Requests -> Produced \cup {None}]
    BY GTypeNext DEF GFlightInv, GTypeInv, GTypeOK
<1>s. SUFFICES ASSUME NEW q \in Requests
               PROVE  /\ at'[q] # "pick" => pc'[q] \in Begun /\ key'[q] \in Keys
                      /\ read'[q] \in Versions => read'[q] <= db'[NameOf(key'[q])]
                      /\ call'[q] = Failed(NotFound) => read'[q] = Empty
    BY DEF ReadFacts, NameOf
<1>k. pc[q] \in Begun => key'[q] = key[q] /\ pc'[q] \in Begun
    BY <1>0, KeyStays, BegunStays DEF Begun
<1>1. ASSUME at'[q] # "pick" PROVE pc'[q] \in Begun /\ key'[q] \in Keys
    <2>1. CASE at[q] # "pick"
        BY <1>k, <2>1 DEF ReadFacts
    <2>2. CASE at[q] = "pick"
        <3>1. ASSUME NEW r \in Requests, Pick(r) \/ FetchFails(r) \/ Retrieve(r) \/ Store(r)
              PROVE  pc[q] = "run"
            BY <1>0, <1>1, <2>2, <3>1 DEF Pick, FetchFails, Retrieve, Store, Running
        <3>2. ASSUME NEW n \in Names, CreateStudent(n) \/ Update(n) PROVE FALSE
            BY <1>1, <2>2, <3>2 DEF CreateStudent, Update
        <3>3. pc[q] = "run"
            BY <1>1, <2>2, <3>1, <3>2, LoadSteps DEF groupVars
        <3>4. key[q] \in Keys
            BY <1>0, <3>3 DEF GTypeInv, GAssigned
        <3>5. QED BY <1>k, <3>3, <3>4 DEF Begun
    <2>3. QED BY <2>1, <2>2
<1>2. ASSUME read'[q] \in Versions PROVE read'[q] <= db'[NameOf(key'[q])]
    <2>1. CASE read[q] # None
        <3>1. read'[q] = read[q] /\ at[q] = "store"
            BY <1>0, <2>1, ReadStays DEF GTypeInv, GAssigned
        <3>2. key[q] \in Keys /\ key'[q] = key[q] /\ read[q] <= db[NameOf(key[q])]
            BY <1>2, <1>k, <3>1 DEF ReadFacts
        <3>3. NameOf(key[q]) \in Names /\ read[q] \in Nat
            BY <1>2, <3>1, <3>2, KeyFacts, ValueFacts
        <3>4. db[NameOf(key[q])] <= db'[NameOf(key[q])]
              /\ db[NameOf(key[q])] \in Nat /\ db'[NameOf(key[q])] \in Nat
            BY <1>0, <3>3, RowsGrow
        <3>5. read[q] <= db'[NameOf(key[q])]
            BY <3>2, <3>3, <3>4
        <3>6. QED BY <3>1, <3>2, <3>5
    <2>2. CASE read[q] = None
        <3>1. read'[q] # read[q]
            BY <1>2, <2>2, ValueFacts DEF Values
        <3>2. ASSUME NEW r \in Requests, Pick(r) \/ FetchFails(r) \/ Retrieve(r) \/ Store(r)
              PROVE  Retrieve(q)
            BY <1>0, <3>1, <3>2 DEF Pick, FetchFails, Retrieve, Store
        <3>3. ASSUME NEW n \in Names, CreateStudent(n) \/ Update(n) PROVE FALSE
            BY <3>1, <3>3 DEF CreateStudent, Update
        <3>4. Retrieve(q)
            BY <3>1, <3>2, <3>3, LoadSteps DEF groupVars
        <3>5. read'[q] = Row(q) \/ read'[q] = Empty
            BY <1>0, <3>4 DEF Retrieve
        <3>6. read'[q] = db[NameOf(key[q])] /\ db' = db /\ key' = key
            BY <1>2, <3>4, <3>5, ValueFacts DEF Retrieve, Row, vars
        <3>7. read'[q] \in Nat /\ read'[q] = db'[NameOf(key'[q])]
            BY <1>2, <3>6, ValueFacts
        <3>8. QED BY <3>7
    <2>3. QED BY <2>1, <2>2
<1>3. ASSUME call'[q] = Failed(NotFound) PROVE read'[q] = Empty
    <2>0. Failed(NotFound) # None /\ Empty # None
        BY ProducedFacts, GroupConstants
    <2>1. CASE call[q] # None
        BY <1>0, <1>3, <2>0, <2>1, CallStays, ReadStays DEF ReadFacts
    <2>2. CASE call[q] = None
        <3>2. RetrieveFails(q) \/ Store(q) \/ FetchSucceeds(q)
            BY <1>0, <1>3, <2>0, <2>2, CallSteps
        <3>3. /\ Failed(DbError) # Failed(NotFound)
              /\ \A v : Found(v) # Failed(NotFound)
            <4>1. Failed(NotFound).err = NotFound /\ Failed(DbError).err = DbError
                BY DEF Failed
            <4>2. \A v : Found(v).err = Nil
                BY DEF Found
            <4>3. NotFound # DbError /\ NotFound # Nil
                BY GroupConstants
            <4>4. QED BY <4>1, <4>2, <4>3
        <3>4. PICK o : FnReturns(q, o)
                       /\ (o = Failed(DbError) \/ (\E v : o = Found(v)) \/ Store(q))
            BY <3>2 DEF RetrieveFails, FetchSucceeds, Store
        <3>5. o = Failed(NotFound)
            BY <1>0, <1>3, <3>4 DEF FnReturns
        <3>6. Store(q)
            BY <3>3, <3>4, <3>5
        <3>7. call'[q] = IF read[q] = Empty THEN Failed(NotFound) ELSE Found(read[q])
            BY <1>0, <3>6 DEF Store, FnReturns
        <3>8. read[q] = Empty /\ read' = read
            BY <1>3, <3>3, <3>6, <3>7 DEF Store
        <3>9. QED BY <3>8
    <2>3. QED BY <2>1, <2>2
<1>4. QED BY <1>1, <1>2, <1>3

-----------------------------------------------------------------------------
(* What mainCache holds was read by a run.                                 *)
LEMMA CachedWasReadNext ==
    ASSUME GFlightInv, ReadFacts, CachedWasRead, [GNext]_allVars
    PROVE  CachedWasRead'
<1>0. GTypeInv /\ mainCache \in [Keys -> Values \cup {None}]
      /\ \A r \in Requests : read[r] # None => at[r] = "store"
    BY DEF GFlightInv, GTypeInv, GTypeOK, GAssigned
<1>s. SUFFICES ASSUME NEW k \in Keys, mainCache'[k] # None
               PROVE  \E c \in Requests : key'[c] = k /\ read'[c] = mainCache'[k]
    BY DEF CachedWasRead
<1>1. ASSUME mainCache'[k] = mainCache[k]
      PROVE  \E c \in Requests : key'[c] = k /\ read'[c] = mainCache'[k]
    <2>1. PICK c \in Requests : key[c] = k /\ read[c] = mainCache[k]
        BY <1>s, <1>1 DEF CachedWasRead
    <2>2. read[c] # None /\ pc[c] # "idle"
        BY <1>0, <1>s, <1>1, <2>1 DEF ReadFacts, Begun
    <2>3. key'[c] = key[c] /\ read'[c] = read[c]
        BY <1>0, <2>2, KeyStays, ReadStays
    <2>4. QED BY <1>1, <2>1, <2>3
<1>2. ASSUME NEW r \in Requests, Store(r)
      PROVE  \E c \in Requests : key'[c] = k /\ read'[c] = mainCache'[k]
    <2>1. key[r] \in Keys /\ read[r] \in Values /\ Put(key[r], read[r])
        BY <1>2 DEF Store, Running, GFlightInv, GTypeInv, GTypeOK, GAssigned
    <2>2. \/ mainCache'[k] = mainCache[k]
          \/ k = key[r] /\ mainCache'[k] = read[r]
        BY <1>0, <1>s, <2>1, PutFacts
    <2>3. key' = key /\ read' = read
        BY <1>2 DEF Store, FnReturns
    <2>4. QED BY <1>1, <2>2, <2>3
<1>3. ASSUME NEW r \in Requests, Pick(r) \/ FetchFails(r) \/ Retrieve(r)
      PROVE  mainCache' = mainCache
    BY <1>3 DEF Pick, FetchFails, Retrieve
<1>4. ASSUME NEW n \in Names, CreateStudent(n) \/ Update(n) PROVE mainCache' = mainCache
    BY <1>4 DEF CreateStudent, Update
<1>5. QED BY <1>1, <1>2, <1>3, <1>4, LoadSteps DEF groupVars

(* The runs that were over when a run began are over; what they read for   *)
(* its key is no newer than what it reads.                                 *)
OverFacts ==
    \A r \in Requests : \A c \in over[r] :
        /\ pc[c] = "returned"
        /\ Running(r, "store") /\ key[c] = key[r] => ~Older(read[r], read[c])

LEMMA OverFactsNext ==
    ASSUME GFlightInv, ReadFacts, OverFacts, [GNext]_allVars
    PROVE  OverFacts'
<1>0. /\ GTypeInv /\ pc \in [Requests -> PCs] /\ over \in [Requests -> SUBSET Requests]
      /\ at \in [Requests -> {"pick", "fetch", "retrieve", "store"}]
      /\ read \in [Requests -> Values \cup {None}]
      /\ db \in [Names -> 0..MaxVersion]
    BY DEF GFlightInv, GTypeInv, GTypeOK
<1>1. ASSUME NEW r \in Requests, NEW c \in over[r], over'[r] = over[r]
      PROVE  pc'[c] = "returned"
    <2>1. c \in Requests /\ pc[c] = "returned"
        BY <1>0 DEF OverFacts
    <2>2. QED BY <1>0, <2>1, GReturnedStays
(* r does not begin to store in this step.                                 *)
<1>2. ASSUME NEW r \in Requests, NEW c \in over[r], read' = read, at'[r] = at[r],
             Running(r, "store")', key'[c] = key'[r]
      PROVE  ~Older(read'[r], read'[c])
    <2>1. c \in Requests /\ pc[c] = "returned"
        BY <1>0 DEF OverFacts
    <2>2. pc[r] \in Begun /\ pc[r] # "idle"
        BY <1>2 DEF ReadFacts, Running, Begun
    <2>3. key'[c] = key[c] /\ key'[r] = key[r]
        BY <1>0, <2>1, <2>2, KeyStays
    <2>4. pc'[r] = "run" /\ at[r] = "store"
        BY <1>2 DEF Running
    <2>5. pc[r] = "run"
        <3>1. ASSUME NEW s \in Requests, Claim(s) PROVE pc[r] = "run"
            BY <1>0, <2>2, <2>4, <3>1 DEF Claim, Begun
        <3>2. ASSUME NEW s \in Requests,
                     (\E k \in Keys : Do(s, k)) \/ AnswersAtOnce(s)
                     \/ \E o \in Produced : FnReturns(s, o)
              PROVE  pc[r] = "run"
            BY <1>0, <2>4, <3>2 DEF Do, AnswersAtOnce, FnReturns
        <3>3. ASSUME NEW s \in Requests,
                     CacheHit(s) \/ Join(s) \/ Miss(s) \/ FnPanics(s) \/ Publish(s)
                     \/ Retire(s) \/ Wake(s)
              PROVE  pc[r] = "run"
            BY <1>0, <2>4, <3>3 DEF CacheHit, Join, Miss, FnPanics, Publish, Retire, Wake
        <3>4. CASE (\E k \in Keys : Expire(k)) \/ Sweep \/ UNCHANGED vars
            BY <2>4, <3>4 DEF Expire, Sweep, vars
        <3>5. QED BY <1>0, <3>1, <3>2, <3>3, <3>4, FlightNextSteps DEF FlightNext, DoStep
    <2>6. QED BY <1>2, <2>3, <2>4, <2>5 DEF OverFacts, Running
<1>3. CASE UNCHANGED <<at, read, over>>
    BY <1>1, <1>2, <1>3 DEF OverFacts
<1>4. ASSUME NEW r \in Requests, Claim(r), over' = [over EXCEPT ![r] = Retired],
             UNCHANGED <<db, mainCache, at, read>>
      PROVE  OverFacts'
    <2>1. \A c \in Retired : c \in Requests /\ pc'[c] = "returned"
        BY <1>0, GReturnedStays DEF Retired
    <2>2. at[r] = "pick"
        BY <1>4 DEF Claim, ReadFacts, Begun
    <2>3. over'[r] = Retired /\ \A q \in Requests \ {r} : over'[q] = over[q]
        BY <1>0, <1>4
    <2>4. ~Running(r, "store")'
        BY <1>4, <2>2 DEF Running
    <2>5. QED BY <1>1, <1>2, <1>4, <2>1, <2>3, <2>4 DEF OverFacts
<1>5. ASSUME NEW r \in Requests, Pick(r) \/ FetchFails(r) PROVE OverFacts'
    <2>1. /\ UNCHANGED <<read, over>>
          /\ at'[r] # "store" /\ \A q \in Requests \ {r} : at'[q] = at[q]
        BY <1>0, <1>5 DEF Pick, FetchFails
    <2>2. ~Running(r, "store")'
        BY <2>1 DEF Running
    <2>3. QED BY <1>1, <1>2, <2>1, <2>2 DEF OverFacts
<1>6. ASSUME NEW r \in Requests, Retrieve(r) PROVE OverFacts'
    <2>1. /\ UNCHANGED vars /\ over' = over
          /\ \A q \in Requests \ {r} : at'[q] = at[q] /\ read'[q] = read[q]
          /\ read'[r] = IF Row(r) = 0 THEN Empty ELSE Row(r)
          /\ pc[r] = "run"
        BY <1>0, <1>6 DEF Retrieve, Running
    <2>2. UNCHANGED <<pc, key>>
        BY <2>1 DEF vars
    <2>3. ASSUME NEW q \in Requests, NEW c \in over[q] PROVE c \in Requests \ {r}
        BY <1>0, <2>1, <2>3 DEF OverFacts
    <2>4. ASSUME NEW c \in over[r], key[c] = key[r] PROVE ~Older(read'[r], read[c])
        <3>1. SUFFICES ASSUME read[c] \in Versions PROVE ~Older(read'[r], read[c])
            BY DEF Older
        <3>2. read[c] <= Row(r) /\ key[r] \in Keys
            BY <1>0, <2>1, <2>3, <2>4, <3>1 DEF ReadFacts, Row, GTypeInv, GAssigned
        <3>3. Row(r) \in Nat
            BY <1>0, <3>2, KeyFacts, GroupConstants DEF Row
        <3>4. read[c] \in Nat /\ read[c] > 0
            BY <3>1, GroupConstants DEF Versions
        <3>5. read'[r] = Row(r) /\ ~(Row(r) < read[c]) /\ Row(r) \in Versions
            <4>1. Row(r) <= MaxVersion
                BY <1>0, <3>2, KeyFacts DEF Row
            <4>2. QED BY <2>1, <3>2, <3>3, <3>4, <4>1, GroupConstants DEF Versions
        <3>6. QED BY <3>5, ValueFacts DEF Older
    <2>5. ASSUME NEW q \in Requests, NEW c \in over[q], Running(q, "store")', key'[c] = key'[q]
          PROVE  ~Older(read'[q], read'[c])
        <3>1. read'[c] = read[c] /\ key[c] = key[q]
            BY <2>1, <2>2, <2>3, <2>5
        <3>2. CASE q = r
            BY <2>4, <3>1, <3>2
        <3>3. CASE q # r
            BY <2>1, <2>2, <2>5, <3>1, <3>3 DEF OverFacts, Running
        <3>4. QED BY <3>2, <3>3
    <2>6. QED BY <1>1, <2>1, <2>5 DEF OverFacts
<1>7. ASSUME NEW r \in Requests, Store(r) PROVE UNCHANGED <<at, read, over>>
    BY <1>7 DEF Store
<1>8. ASSUME NEW n \in Names, CreateStudent(n) \/ Update(n) PROVE UNCHANGED <<at, read, over>>
    BY <1>8 DEF CreateStudent, Update
<1>9. QED
    BY <1>3, <1>4, <1>5, <1>6, <1>7, <1>8, LoadSteps DEF groupVars

-----------------------------------------------------------------------------
(* A not-found that was returned is the outcome of a run no sooner than    *)
(* the Get began.                                                          *)
NotFoundHasRun ==
    \A r \in Requests : pc[r] = "returned" /\ ret[r] = Failed(NotFound) =>
        \E c \in Requests \ before[r] : key[c] = key[r] /\ call[c] = Failed(NotFound)

LEMMA NotFoundHasRunNext ==
    ASSUME GFlightInv, NotFoundHasRun, [GNext]_allVars
    PROVE  NotFoundHasRun'
<1>0. /\ GTypeInv /\ pc \in [Requests -> PCs] /\ ret \in [Requests -> GOutcome \cup {None}]
      /\ call \in [Requests -> Produced \cup {None}]
      /\ Failed(NotFound) # None
    BY ProducedFacts DEF GFlightInv, GTypeInv, GTypeOK
<1>s. SUFFICES ASSUME NEW r \in Requests, pc'[r] = "returned", ret'[r] = Failed(NotFound)
               PROVE  \E c \in Requests \ before'[r] :
                          key'[c] = key'[r] /\ call'[c] = Failed(NotFound)
    BY DEF NotFoundHasRun
<1>1. CASE pc[r] = "returned"
    <2>1. ret'[r] = ret[r] /\ before'[r] = before[r] /\ key'[r] = key[r]
        BY <1>0, <1>1, GReturnedStays, KeyStays
    <2>2. PICK c \in Requests \ before[r] : key[c] = key[r] /\ call[c] = Failed(NotFound)
        BY <1>s, <1>1, <2>1 DEF NotFoundHasRun
    <2>3. pc[c] # "idle"
        BY <1>0, <2>2 DEF GTypeInv, GAssigned
    <2>4. key'[c] = key[c] /\ call'[c] = call[c]
        BY <1>0, <2>2, <2>3, CallStays, KeyStays
    <2>5. QED BY <2>1, <2>2, <2>4
<1>2. CASE pc[r] # "returned"
    <2>1. Retire(r) \/ Wake(r) \/ CacheHit(r) \/ AnswersAtOnce(r)
        BY <1>0, <1>s, <1>2, ReturnSteps
    <2>2. CASE Retire(r)
        <3>1. r \notin before[r]
            BY DEF GFlightInv, BeforeIsOver
        <3>2. QED BY <1>0, <1>s, <2>2, <3>1 DEF Retire
    <2>3. CASE Wake(r)
        <3>1. joined[r] \in Requests \ before[r] /\ key[joined[r]] = key[r]
            BY <2>3 DEF Wake, GFlightInv, BeforeIsOver, WaitIsJustified
        <3>2. QED BY <1>0, <1>s, <2>3, <3>1 DEF Wake
    <2>4. NotFound # Nil /\ Failed(NotFound).err = NotFound
        BY GroupConstants DEF Failed
    <2>5. CASE CacheHit(r)
        <3>1. ret'[r].err = Nil
            BY <1>0, <2>5 DEF CacheHit
        <3>2. QED BY <1>s, <2>4, <3>1
    <2>6. CASE AnswersAtOnce(r)
        <3>2. ret'[r] = Failed(KeyRequired) \/ \E v : ret'[r] = Found(v)
            BY <1>0, <2>6 DEF AnswersAtOnce
        <3>3. Failed(KeyRequired).err = KeyRequired /\ \A v : Found(v).err = Nil
            BY DEF Failed, Found
        <3>4. QED BY <1>s, <2>4, <3>2, <3>3, GroupConstants
    <2>7. QED BY <2>1, <2>2, <2>3, <2>5, <2>6
<1>3. QED BY <1>1, <1>2

(* The inductive invariant of the histories.                               *)
HistoryInv ==
    /\ GFlightInv
    /\ ReadFacts
    /\ CachedWasRead
    /\ OverFacts
    /\ NotFoundHasRun

LEMMA HistoryInit == GInit => HistoryInv
<1> SUFFICES ASSUME GInit PROVE HistoryInv
    OBVIOUS
<1>1. ReadFacts
    <2>1. Failed(NotFound) # None
        BY ProducedFacts
    <2>2. None \notin Versions
        BY GroupConstants DEF Versions
    <2>3. QED BY <2>1, <2>2 DEF GInit, Init, ReadFacts
<1>2. CachedWasRead /\ OverFacts
    BY DEF GInit, CachedWasRead, OverFacts
<1>3. NotFoundHasRun
    BY DEF GInit, Init, NotFoundHasRun
<1>4. QED BY <1>1, <1>2, <1>3, GFlightInit DEF HistoryInv

LEMMA HistoryNext == HistoryInv /\ [GNext]_allVars => HistoryInv'
BY GFlightNext, ReadFactsNext, CachedWasReadNext, OverFactsNext, NotFoundHasRunNext
   DEF HistoryInv

(* A Get that reports not-found has it from a run, over no sooner than the *)
(* Get began, that found no row, whatever peers and database do meanwhile. *)
THEOREM NotFoundAlwaysHonest == GSpec => []NotFoundIsHonest
<1>1. HistoryInv => NotFoundIsHonest
    <2>1. Failed(NotFound) # None
        BY ProducedFacts
    <2>2. QED BY <2>1 DEF HistoryInv, NotFoundHasRun, ReadFacts, NotFoundIsHonest, Concurrent
<1>2. QED BY HistoryInit, HistoryNext, <1>1, PTL DEF GSpec

(* What mainCache holds for a key was read from the database for that key  *)
(* by a run of this node, however entries are evicted and overwritten.     *)
THEOREM CachedAlwaysRead == GSpec => []CachedWasRead
<1>1. HistoryInv => CachedWasRead BY DEF HistoryInv
<1>2. QED BY HistoryInit, HistoryNext, <1>1, PTL DEF GSpec

(* A run that stores an older version over a newer one overlaps, as a      *)
(* flight for the same key, the run that read the newer one.               *)
LEMMA StaleStoreStep ==
    ASSUME HistoryInv, NEW r \in Requests, NEW k \in Keys,
           Store(r), Older(mainCache'[k], mainCache[k])
    PROVE  \E c \in Requests \ over[r] : c # r /\ key[c] = k /\ read[c] = mainCache[k]
<1>0. mainCache \in [Keys -> Values \cup {None}]
    BY DEF HistoryInv, GFlightInv, GTypeInv, GTypeOK
<1>1. key[r] \in Keys /\ read[r] \in Values /\ Put(key[r], read[r]) /\ Running(r, "store")
    BY DEF Store, Running, HistoryInv, GFlightInv, GTypeInv, GTypeOK, GAssigned
<1>2. mainCache[k] \in Versions /\ mainCache[k] # None /\ mainCache[k] # Empty
    BY ValueFacts DEF Older, Values
<1>3. mainCache'[k] # None /\ mainCache'[k] # mainCache[k]
    <2>1. None \notin Versions /\ Empty # None
        BY GroupConstants DEF Versions
    <2>2. mainCache[k] \in Nat
        BY <1>2, ValueFacts
    <2>3. \/ mainCache'[k] = Empty
          \/ mainCache'[k] \in Versions /\ mainCache'[k] < mainCache[k]
        BY DEF Older
    <2>4. QED BY <1>2, <2>1, <2>2, <2>3
<1>4. k = key[r] /\ mainCache'[k] = read[r]
    BY <1>0, <1>1, <1>3, PutFacts
<1>5. PICK c \in Requests : key[c] = k /\ read[c] = mainCache[k]
    BY <1>2 DEF HistoryInv, CachedWasRead
<1>6. c # r
    BY <1>3, <1>4, <1>5
<1>7. c \notin over[r]
    BY <1>1, <1>4, <1>5 DEF HistoryInv, OverFacts
<1>8. QED BY <1>5, <1>6, <1>7

(* The gap in Do between looking a call up and registering one is the only *)
(* way to an older mainCache: no eviction, failure or peer makes another.  *)
THEOREM StaleStoreOverlaps == GSpec => StaleStoreNeedsOverlap
<1>1. HistoryInv /\ [GNext]_allVars =>
          [\A r \in Requests, k \in Keys :
              Store(r) /\ Older(mainCache'[k], mainCache[k]) =>
                  \E c \in Requests \ over[r] :
                      c # r /\ key[c] = k /\ read[c] = mainCache[k]]_allVars
    BY StaleStoreStep
<1>2. QED BY HistoryInit, HistoryNext, <1>1, PTL DEF GSpec, StaleStoreNeedsOverlap

-----------------------------------------------------------------------------
(* Versions that are answered exist.                                       *)

(* v is a version that the row asked for under k has had.                  *)
Exists(k, v) ==
    v \in Versions => \E n \in {NameOf(k), Wire[NameOf(k)]} : v <= db[n]

VersionsExist ==
    \A r \in Requests :
        /\ call[r] # None => Exists(key[r], call[r].value)
        /\ pc[r] = "returned" /\ ret[r].err = Nil =>
              key[r] \in Keys /\ Exists(key[r], ret[r].value)

LEMMA ExistsStays ==
    ASSUME GTypeInv, [GNext]_allVars, NEW k \in Keys, NEW v, Exists(k, v)
    PROVE  v \in Versions => \E n \in {NameOf(k), Wire[NameOf(k)]} : v <= db'[n]
<1> SUFFICES ASSUME v \in Versions
             PROVE  \E n \in {NameOf(k), Wire[NameOf(k)]} : v <= db'[n]
    OBVIOUS
<1>1. PICK n \in {NameOf(k), Wire[NameOf(k)]} : v <= db[n]
    BY DEF Exists
<1>2. n \in Names
    BY KeyFacts, GroupConstants
<1>3. v \in Nat /\ db[n] \in Nat /\ db'[n] \in Nat /\ db[n] <= db'[n]
    BY <1>2, RowsGrow, ValueFacts
<1>4. v <= db'[n]
    BY <1>1, <1>3
<1>5. QED BY <1>4

(* A version in mainCache exists: it was read.                             *)
LEMMA CachedExists ==
    ASSUME HistoryInv, NEW k \in Keys, mainCache[k] # None
    PROVE  Exists(k, mainCache[k])
<1>1. PICK c \in Requests : key[c] = k /\ read[c] = mainCache[k]
    BY DEF HistoryInv, CachedWasRead
<1>2. QED BY <1>1 DEF HistoryInv, ReadFacts, Exists

LEMMA VersionsExistNext ==
    ASSUME HistoryInv, VersionsExist, [GNext]_allVars
    PROVE  VersionsExist'
<1>0. /\ GTypeInv /\ pc \in [Requests -> PCs] /\ ret \in [Requests -> GOutcome \cup {None}]
      /\ key \in [Requests -> Keys \cup {None}]
      /\ call \in [Requests -> Produced \cup {None}]
      /\ cache \in [Keys -> [value : {Empty}, live : BOOLEAN] \cup {None}]
      /\ \A c \in Requests : call[c] # None =>
            key[c] \in Keys /\ pc[c] \in {"publish", "retire", "returned"}
      /\ \A c \in Requests : pc[c] \notin {"idle", "returned"} => key[c] \in Keys
    BY DEF HistoryInv, GFlightInv, GTypeInv, GTypeOK, GAssigned
<1>1. ASSUME NEW r \in Requests, call'[r] # None
      PROVE  call'[r].value \in Versions =>
                 \E n \in {NameOf(key'[r]), Wire[NameOf(key'[r])]} : call'[r].value <= db'[n]
    <2>1. CASE call[r] # None
        <3>1. key[r] \in Keys /\ Exists(key[r], call[r].value)
            BY <1>0, <2>1 DEF VersionsExist
        <3>2. call'[r] = call[r] /\ key'[r] = key[r]
            BY <1>0, <2>1, CallStays, KeyStays
        <3>3. QED BY <1>0, <3>1, <3>2, ExistsStays
    <2>2. CASE call[r] = None
        <3>1. RetrieveFails(r) \/ Store(r) \/ FetchSucceeds(r)
            BY <1>0, <1>1, <2>2, CallSteps
        <3>2. /\ key' = key /\ db' = db
              /\ pc[r] = "run" /\ (Store(r) => at[r] = "store")
            BY <3>1 DEF RetrieveFails, Store, FetchSucceeds, FnReturns, Running, groupVars
        <3>3. Empty \notin Versions
            BY ValueFacts
        <3>4. CASE RetrieveFails(r)
            <4>1. call'[r].value = Empty
                BY <1>0, <3>4 DEF RetrieveFails, FnReturns, Failed
            <4>2. QED BY <3>3, <4>1
        <3>5. CASE Store(r)
            <4>1. call'[r].value \in {Empty, read[r]}
                BY <1>0, <3>5 DEF Store, FnReturns, Failed, Found
            <4>2. read[r] \in Versions => read[r] <= db[NameOf(key[r])]
                BY DEF HistoryInv, ReadFacts
            <4>3. QED BY <3>2, <3>3, <4>1, <4>2
        <3>6. CASE FetchSucceeds(r)
            <4>1. PICK name \in {NameOf(key[r]), Wire[NameOf(key[r])]} :
                      \E v \in {Empty} \cup 1..db[name] : FnReturns(r, Found(v))
                BY <3>6 DEF FetchSucceeds
            <4>2. PICK v \in {Empty} \cup 1..db[name] : FnReturns(r, Found(v))
                BY <4>1
            <4>3. call'[r].value = v
                BY <1>0, <4>2 DEF FnReturns, Found
            <4>4. v \in Versions => v <= db[name]
                BY <3>3
            <4>5. QED BY <3>2, <4>3, <4>4
        <3>7. QED BY <3>1, <3>4, <3>5, <3>6
    <2>3. QED BY <2>1, <2>2
<1>2. ASSUME NEW r \in Requests, pc'[r] = "returned", ret'[r].err = Nil
      PROVE  /\ key'[r] \in Keys
             /\ ret'[r].value \in Versions =>
                    \E n \in {NameOf(key'[r]), Wire[NameOf(key'[r])]} : ret'[r].value <= db'[n]
    <2>1. ASSUME NEW k \in Keys, NEW v, Exists(k, v), key'[r] = k, ret'[r].value = v
          PROVE  /\ key'[r] \in Keys
                 /\ ret'[r].value \in Versions =>
                        \E n \in {NameOf(key'[r]), Wire[NameOf(key'[r])]} : ret'[r].value <= db'[n]
        BY <1>0, <2>1, ExistsStays
    <2>2. CASE pc[r] = "returned"
        <3>1. ret'[r] = ret[r] /\ key'[r] = key[r]
            BY <1>0, <2>2, GReturnedStays, KeyStays
        <3>2. key[r] \in Keys /\ Exists(key[r], ret[r].value)
            BY <1>2, <2>2, <3>1 DEF VersionsExist
        <3>3. QED BY <2>1, <3>1, <3>2
    <2>3. CASE pc[r] # "returned"
        <3>1. Retire(r) \/ Wake(r) \/ CacheHit(r) \/ AnswersAtOnce(r)
            BY <1>0, <1>2, <2>3, ReturnSteps
        <3>2. CASE Retire(r)
            <4>1. key[r] \in Keys /\ call[r] # None /\ ret'[r] = call[r] /\ key'[r] = key[r]
                BY <1>0, <3>2 DEF Retire, HistoryInv, GFlightInv, GTypeInv, GAssigned
            <4>2. QED BY <2>1, <4>1 DEF VersionsExist
        <3>3. CASE Wake(r)
            <4>1. /\ key[r] \in Keys /\ joined[r] \in Requests /\ key[joined[r]] = key[r]
                  /\ call[joined[r]] # None
                  /\ ret'[r] = call[joined[r]] /\ key'[r] = key[r]
                BY <1>0, <3>3 DEF Wake, HistoryInv, GFlightInv, WaitIsJustified, GTypeInv, GAssigned
            <4>2. QED BY <2>1, <4>1 DEF VersionsExist
        <3>4. CASE CacheHit(r)
            <4>1. key[r] \in Keys /\ ret'[r].value = Empty /\ key'[r] = key[r]
                BY <1>0, <3>4 DEF CacheHit, Cached
            <4>2. QED BY <2>1, <4>1, ValueFacts DEF Exists
        <3>5. CASE AnswersAtOnce(r)
            <4>1. ret'[r] # Failed(KeyRequired)
                <5>1. Failed(KeyRequired).err = KeyRequired
                    BY DEF Failed
                <5>2. QED BY <1>2, <5>1, GroupConstants
            <4>2. PICK k \in Keys : /\ mainCache[k] # None
                                    /\ ret'[r] = Found(mainCache[k])
                                    /\ key'[r] = k
                BY <1>0, <3>5, <4>1 DEF AnswersAtOnce
            <4>3. QED BY <2>1, <4>2, CachedExists DEF Found
        <3>6. QED BY <3>1, <3>2, <3>3, <3>4, <3>5
    <2>4. QED BY <2>2, <2>3
<1>3. QED BY <1>1, <1>2 DEF VersionsExist, Exists, NameOf

LEMMA VersionsExistInit == GInit => VersionsExist
BY DEF GInit, Init, VersionsExist

(* A value that Get returns without an error is for a key, and a version   *)
(* among them is one that the row asked for has had by then.               *)
THEOREM VersionsAlwaysExist == GSpec => []VersionsExist
<1>1. HistoryInv /\ VersionsExist /\ [GNext]_allVars => (HistoryInv /\ VersionsExist)'
    BY HistoryNext, VersionsExistNext
<1>2. QED BY HistoryInit, VersionsExistInit, <1>1, PTL DEF GSpec

-----------------------------------------------------------------------------
(***************************************************************************)
(* Cluster, over both transports, for any rings and any crashes: nodes     *)
(* that fetch from each other keep what module Group promises, and so what *)
(* is proved of it above; an answer has a source; and over http no circle  *)
(* of requests waits for itself.                                           *)
(***************************************************************************)

(* The types of the variables that Cluster adds.                           *)
NodesTyped ==
    /\ transport \in Transports
    /\ owner \in [Nodes -> [Names -> Nodes]]
    /\ child \in [Requests -> Requests \cup {None}]
    /\ node \in [Nodes -> {"up", "crashed", "hung"}]

(* A request a peer was asked for stays for the name asked, as it is or as *)
(* the wire changed it; over http it is at the owner.                      *)
ChildFacts ==
    \A r \in Requests : child[r] # None =>
        /\ pc[r] \in Begun /\ key[r] \in Keys
        /\ pc[child[r]] # "idle" /\ key[child[r]] \in Keys
        /\ NameOf(key[child[r]]) \in {NameOf(key[r]), Wire[NameOf(key[r])]}
        /\ transport = "http" => key[child[r]] = <<Owner(r), Wire[NameOf(key[r])]>>

(* The inductive invariant under which every step of Cluster is one of     *)
(* Group.                                                                  *)
ClusterInv ==
    /\ HistoryInv
    /\ VersionsExist
    /\ NodesTyped
    /\ ChildFacts

LEMMA ClusterInit == CInit => GInit /\ ClusterInv
<1> SUFFICES ASSUME CInit PROVE GInit /\ ClusterInv
    OBVIOUS
<1>1. GInit
    BY DEF CInit
<1>2. NodesTyped
    BY DEF CInit, NodesTyped, Rings
<1>3. ChildFacts
    BY DEF CInit, ChildFacts
<1>4. QED BY <1>1, <1>2, <1>3, HistoryInit, VersionsExistInit DEF ClusterInv

(* A node enters Get for a key of its own.                                 *)
LEMMA EntersKey ==
    ASSUME NEW r \in Requests, NEW n \in Nodes, NEW name \in Names, Enters(r, n, name)
    PROVE  /\ <<n, name>> \in Keys
           /\ GetHit(r, <<n, name>>) \/ GetMiss(r, <<n, name>>)
BY GroupConstants DEF Enters

(* The value a peer replied with is a version the name asked for has had,  *)
(* or none: an answer that Group allows.                                   *)
LEMMA AnsweredIsFetch ==
    ASSUME ClusterInv, NEW r \in Requests, Answered(r)
    PROVE  FetchSucceeds(r)
<1>0. /\ Running(r, "fetch") /\ FnReturns(r, Found(ret[child[r]].value)) /\ UNCHANGED groupVars
      /\ child[r] # None /\ pc[child[r]] = "returned" /\ ret[child[r]].err = Nil
      /\ child[r] \in Requests
    BY DEF Answered, Replied, ClusterInv, NodesTyped
<1> DEFINE x == NameOf(key[child[r]])
           v == ret[child[r]].value
<1>1. x \in {NameOf(key[r]), Wire[NameOf(key[r])]} /\ key[child[r]] \in Keys /\ key[r] \in Keys
    BY <1>0 DEF ClusterInv, ChildFacts
<1>2. ret[child[r]] \in GOutcome
    BY <1>0 DEF ClusterInv, HistoryInv, GFlightInv, GTypeInv, GTypeOK, GAssigned
<1>3. v \in Values
    BY <1>2 DEF GOutcome
<1>4. Exists(key[child[r]], v)
    BY <1>0 DEF ClusterInv, VersionsExist
<1>5. \E name \in {NameOf(key[r]), Wire[NameOf(key[r])]} : v \in {Empty} \cup 1..db[name]
    <2>1. CASE v = Empty
        BY <2>1
    <2>2. CASE v \in Versions
        <3>1. PICK n \in {x, Wire[x]} : v <= db[n]
            BY <1>4, <2>2 DEF Exists
        <3>2. NameOf(key[r]) \in Names /\ x \in Names
            BY <1>1, KeyFacts
        <3>3. n \in {NameOf(key[r]), Wire[NameOf(key[r])]}
            BY <1>1, <3>1, <3>2, GroupConstants
        <3>4. db[n] \in 0..MaxVersion /\ MaxVersion \in Nat
            BY <3>2, <3>3, GroupConstants DEF ClusterInv, HistoryInv, GFlightInv, GTypeInv, GTypeOK
        <3>5. v \in 1..db[n]
            BY <2>2, <3>1, <3>4 DEF Versions
        <3>6. QED BY <3>3, <3>5
    <2>3. QED BY <1>3, <2>1, <2>2 DEF Values
<1>6. QED BY <1>0, <1>5 DEF FetchSucceeds

(* Every step of Cluster is a step of Group, or changes nothing of it.     *)
LEMMA ClusterStep == ClusterInv /\ [CNext]_everyVar => [GNext]_allVars
<1> SUFFICES ASSUME ClusterInv, [CNext]_everyVar PROVE [GNext]_allVars
    OBVIOUS
<1>t. NodesTyped
    BY DEF ClusterInv
<1>1. ASSUME NEW r \in Requests, ClientGet(r) PROVE GNext
    <2>1. CASE GetRefused(r)
        BY <2>1 DEF GNext
    <2>2. ASSUME NEW n \in Nodes, NEW name \in Names, Enters(r, n, name) PROVE GNext
        BY <2>2, EntersKey DEF GNext
    <2>3. QED BY <1>1, <2>1, <2>2 DEF ClientGet
<1>2. ASSUME NEW r \in Requests, LocalStep(r) PROVE GNext
    <2>1. PickOwner(r) => Pick(r)
        BY DEF PickOwner, Pick
    <2>2. FlightStep(r) \/ LoadStep(r)
        BY <1>2, <2>1 DEF LocalStep, HandlerPanics, LoadStep
    <2>3. QED BY <2>2 DEF GNext
<1>3. ASSUME NEW r \in Requests, PeerStep(r) PROVE GNext
    <2>1. CASE Call(r)
        <3>1. key[r] \in Keys
            BY <2>1 DEF Call, Running, ClusterInv, HistoryInv, GFlightInv, GTypeInv, GAssigned
        <3>2. Peers(r) \subseteq Nodes /\ Asked(r) \in Names
            BY <1>t, <3>1, KeyFacts, GroupConstants DEF Peers, Asked, Owner, At, NodesTyped
        <3>3. PICK h \in Requests, p \in Peers(r) : Enters(h, p, Asked(r))
            BY <2>1 DEF Call
        <3>4. QED BY <3>2, <3>3, EntersKey DEF GNext
    <2>2. CASE Answered(r)
        BY <2>2, AnsweredIsFetch DEF GNext
    <2>3. CASE FetchFails(r)
        BY <2>3 DEF GNext
    <2>4. QED BY <1>3, <2>1, <2>2, <2>3 DEF PeerStep
<1>4. ASSUME NEW n \in MayFail, Fault(n) PROVE UNCHANGED allVars
    BY <1>4 DEF Fault
<1>5. CASE CacheStep
    BY <1>5 DEF CacheStep, GNext
<1>6. CASE RowStep
    BY <1>6 DEF RowStep, GNext
<1>7. CASE UNCHANGED everyVar
    BY <1>7 DEF everyVar
<1>8. QED BY <1>1, <1>2, <1>3, <1>4, <1>5, <1>6, <1>7 DEF CNext

(* Calls are made one at a time; transport and rings never change here.    *)
LEMMA ClusterFrame ==
    ASSUME NodesTyped, [CNext]_everyVar
    PROVE  /\ transport' = transport /\ owner' = owner
           /\ child' = child \/ \E r \in Requests : Call(r)
           /\ node' = node \/ \E n \in MayFail : Fault(n)
<1>1. ASSUME NEW r \in Requests, ClientGet(r) \/ LocalStep(r) PROVE UNCHANGED clusterVars
    BY <1>1 DEF ClientGet, LocalStep
<1>2. ASSUME NEW r \in Requests, PeerStep(r)
      PROVE  UNCHANGED <<transport, owner, node>> /\ (child' = child \/ Call(r))
    BY <1>2 DEF PeerStep, Call, Answered, clusterVars
<1>3. ASSUME NEW n \in MayFail, Fault(n) PROVE UNCHANGED <<transport, owner, child>>
    BY <1>3 DEF Fault
<1>4. CASE CacheStep \/ RowStep
    BY <1>4 DEF CacheStep, RowStep, clusterVars
<1>5. CASE UNCHANGED everyVar
    BY <1>5 DEF everyVar, clusterVars
<1>6. QED BY <1>1, <1>2, <1>3, <1>4, <1>5 DEF CNext, clusterVars

LEMMA NodesTypedNext ==
    ASSUME NodesTyped, [CNext]_everyVar
    PROVE  NodesTyped'
<1>1. ASSUME NEW r \in Requests, Call(r) PROVE child' \in [Requests -> Requests \cup {None}]
    BY <1>1 DEF Call, NodesTyped
<1>2. ASSUME NEW n \in MayFail, Fault(n) PROVE node' \in [Nodes -> {"up", "crashed", "hung"}]
    <2>1. PICK how \in {"crashed", "hung"} : node' = [node EXCEPT ![n] = how]
        BY <1>2 DEF Fault
    <2>2. QED BY <2>1 DEF NodesTyped
<1>3. QED BY <1>1, <1>2, ClusterFrame DEF NodesTyped

LEMMA ChildFactsNext ==
    ASSUME ClusterInv, [CNext]_everyVar
    PROVE  ChildFacts'
<1>0. /\ GTypeInv /\ [GNext]_allVars /\ NodesTyped
      /\ key \in [Requests -> Keys \cup {None}] /\ pc \in [Requests -> PCs]
      /\ child \in [Requests -> Requests \cup {None}]
      /\ owner \in [Nodes -> [Names -> Nodes]]
      /\ transport' = transport /\ owner' = owner
    BY ClusterStep, ClusterFrame
       DEF ClusterInv, HistoryInv, GFlightInv, GTypeInv, GTypeOK, NodesTyped
<1>s. SUFFICES ASSUME NEW r \in Requests, child'[r] # None
               PROVE  /\ pc'[r] \in Begun /\ key'[r] \in Keys
                      /\ pc'[child'[r]] # "idle" /\ key'[child'[r]] \in Keys
                      /\ NameOf(key'[child'[r]]) \in {NameOf(key'[r]), Wire[NameOf(key'[r])]}
                      /\ transport' = "http" => key'[child'[r]]
                            = <<owner'[NodeOf(key'[r])][NameOf(key'[r])], Wire[NameOf(key'[r])]>>
    BY DEF ChildFacts, Owner, At, NodeOf, NameOf
<1>1. CASE child'[r] = child[r]
    <2>1. /\ pc[r] \in Begun /\ key[r] \in Keys /\ child[r] \in Requests
          /\ pc[child[r]] # "idle" /\ key[child[r]] \in Keys
          /\ NameOf(key[child[r]]) \in {NameOf(key[r]), Wire[NameOf(key[r])]}
          /\ transport = "http" =>
                key[child[r]] = <<owner[NodeOf(key[r])][NameOf(key[r])], Wire[NameOf(key[r])]>>
        BY <1>0, <1>s, <1>1 DEF ClusterInv, ChildFacts, Owner, At
    <2>2. pc'[r] \in Begun /\ key'[r] = key[r]
        BY <1>0, <2>1, BegunStays, KeyStays DEF Begun
    <2>3. pc'[child[r]] # "idle" /\ key'[child[r]] = key[child[r]]
        BY <1>0, <2>1, KeyStays
    <2>4. QED BY <1>0, <1>1, <2>1, <2>2, <2>3
<1>2. CASE child'[r] # child[r]
    <2>1. ASSUME NEW s \in Requests, Call(s) PROVE s = r
        BY <1>0, <1>2, <2>1 DEF Call
    <2>2. Call(r)
        BY <1>0, <1>2, <2>1, ClusterFrame
    <2>3. Running(r, "fetch") /\ pc[r] = "run"
        BY <2>2 DEF Call, Running
    <2>4. key[r] \in Keys
        BY <1>0, <2>3 DEF GTypeInv, GAssigned
    <2>5. PICK h \in Requests, p \in Peers(r) :
              Enters(h, p, Asked(r)) /\ child' = [child EXCEPT ![r] = h]
        BY <2>2 DEF Call
    <2>6. p \in Nodes /\ Asked(r) \in Names
        BY <1>0, <2>4, KeyFacts, GroupConstants DEF Peers, Asked, Owner, At
    <2>7. <<p, Asked(r)>> \in Keys /\ (GetHit(h, <<p, Asked(r)>>) \/ GetMiss(h, <<p, Asked(r)>>))
        BY <2>5, <2>6, EntersKey
    <2>8. pc'[h] # "idle" /\ key'[h] = <<p, Asked(r)>>
        BY <1>0, <2>7 DEF GetHit, GetMiss, Answer, Do
    <2>9. pc'[r] \in Begun /\ key'[r] = key[r]
        BY <1>0, <2>3, BegunStays, KeyStays DEF Begun
    <2>10. child'[r] = h /\ NameOf(key'[h]) = Asked(r)
        BY <1>0, <2>5, <2>8 DEF NameOf
    <2>11. Asked(r) \in {NameOf(key[r]), Wire[NameOf(key[r])]}
        BY DEF Asked
    <2>12. transport = "http" =>
               p = owner[NodeOf(key[r])][NameOf(key[r])] /\ Asked(r) = Wire[NameOf(key[r])]
        BY DEF Peers, Asked, Owner, At
    <2>13. QED BY <1>0, <2>4, <2>7, <2>8, <2>9, <2>10, <2>11, <2>12
<1>3. QED BY <1>1, <1>2

LEMMA ClusterInvNext == ClusterInv /\ [CNext]_everyVar => ClusterInv'
BY ClusterStep, HistoryNext, VersionsExistNext, NodesTypedNext, ChildFactsNext DEF ClusterInv

(* Type correctness.                                                       *)
THEOREM ClusterTypeCorrect == CSpec => []CTypeOK
<1>1. ClusterInv => CTypeOK
    BY DEF ClusterInv, HistoryInv, GFlightInv, GTypeInv, NodesTyped, CTypeOK
<1>2. QED BY ClusterInit, ClusterInvNext, <1>1, PTL DEF CSpec

(* Nodes that fetch from each other, through any chain of peers, caches    *)
(* and shared flights, do no more than Group allows their peers.           *)
THEOREM ClusterImplementsGroup == CSpec => KeepsGroup
<1>1. QED BY ClusterInit, ClusterInvNext, ClusterStep, PTL DEF CSpec, KeepsGroup, GSpec

(* So what is proved of Group holds in the cluster: its not-founds are     *)
(* honest, its caches hold what their own node read, and a stale store     *)
(* takes overlapping flights.                                              *)
THEOREM ClusterKeepsPromises ==
    CSpec => []NotFoundIsHonest /\ []CachedWasRead /\ StaleStoreNeedsOverlap
BY ClusterImplementsGroup, NotFoundAlwaysHonest, CachedAlwaysRead, StaleStoreOverlaps, PTL
   DEF KeepsGroup

-----------------------------------------------------------------------------
(* Where answers come from.                                                *)

(* Some run for the name asked for, as it is or as the wire changed it,    *)
(* read v; or v is empty, and the run failed.                              *)
HasSource(k, v) ==
    \E c \in Requests :
        /\ key[c] \in Keys
        /\ NameOf(key[c]) \in {NameOf(k), Wire[NameOf(k)]}
        /\ read[c] = v \/ (v = Empty /\ call[c] # None /\ call[c].err # Nil)

(* A run that succeeded, a Get that did and an entry of the flight cache   *)
(* have one.                                                               *)
Sourced ==
    /\ \A r \in Requests :
          /\ call[r] # None /\ call[r].err = Nil => HasSource(key[r], call[r].value)
          /\ pc[r] = "returned" /\ ret[r].err = Nil => HasSource(key[r], ret[r].value)
    /\ \A k \in Keys : cache[k] # None =>
          \E c \in Requests : key[c] = k /\ call[c] # None /\ call[c].err # Nil

(* A source stays one.                                                     *)
LEMMA SourceStays ==
    ASSUME HistoryInv, [GNext]_allVars, NEW k \in Keys, NEW v \in Values, HasSource(k, v)
    PROVE  \E c \in Requests :
               /\ key'[c] \in Keys
               /\ NameOf(key'[c]) \in {NameOf(k), Wire[NameOf(k)]}
               /\ read'[c] = v \/ (v = Empty /\ call'[c] # None /\ call'[c].err # Nil)
<1>0. GTypeInv
    BY DEF HistoryInv, GFlightInv
<1>1. PICK c \in Requests :
          /\ key[c] \in Keys
          /\ NameOf(key[c]) \in {NameOf(k), Wire[NameOf(k)]}
          /\ read[c] = v \/ (v = Empty /\ call[c] # None /\ call[c].err # Nil)
    BY DEF HasSource
<1>2. read[c] = v => pc[c] # "idle"
    <2>1. v # None
        BY ValueFacts
    <2>2. QED BY <1>0, <2>1 DEF HistoryInv, ReadFacts, Begun, GTypeInv, GAssigned
<1>3. call[c] # None => pc[c] # "idle"
    BY <1>0 DEF GTypeInv, GAssigned
<1>4. key'[c] = key[c]
    BY <1>0, <1>1, <1>2, <1>3, KeyStays
<1>5. read[c] = v => read'[c] = v
    BY <1>0, ValueFacts, ReadStays
<1>6. call[c] # None => call'[c] = call[c]
    BY <1>0, CallStays
<1>7. QED BY <1>1, <1>4, <1>5, <1>6

(* In the cluster, a run has its outcome from its own database or from the *)
(* request it made of a peer.                                              *)
LEMMA ClusterCallSteps ==
    ASSUME ClusterInv, [CNext]_everyVar, NEW c \in Requests, call'[c] # call[c]
    PROVE  RetrieveFails(c) \/ Store(c) \/ Answered(c)
<1>0. call \in [Requests -> GOutcome \cup {None}]
    BY DEF ClusterInv, HistoryInv, GFlightInv, GTypeInv, GTypeOK
<1>1. ASSUME NEW r \in Requests, RetrieveFails(r) \/ Store(r) \/ Answered(r)
      PROVE  r = c
    BY <1>0, <1>1 DEF RetrieveFails, Store, Answered, FnReturns
<1>2. ASSUME NEW r \in Requests, ClientGet(r) PROVE call' = call
    BY <1>2 DEF ClientGet, Enters, GetRefused, GetHit, GetMiss, Answer, Do
<1>3. ASSUME NEW r \in Requests, LocalStep(r), ~RetrieveFails(r), ~Store(r) PROVE call' = call
    BY <1>3 DEF LocalStep, FlightStep, CacheHit, Join, Miss, Claim, Publish, Retire, Wake,
                PickOwner, Retrieve, HandlerPanics, RetrievePanics, FnPanics, vars
<1>4. ASSUME NEW r \in Requests, PeerStep(r), ~Answered(r) PROVE call' = call
    BY <1>4 DEF PeerStep, Call, Enters, GetHit, GetMiss, Answer, Do, FetchFails, vars
<1>5. CASE (\E n \in MayFail : Fault(n)) \/ CacheStep \/ RowStep \/ UNCHANGED everyVar
    BY <1>5 DEF Fault, CacheStep, RowStep, CreateStudent, Update, Expire, Sweep, everyVar,
                allVars, vars
<1>6. QED BY <1>1, <1>2, <1>3, <1>4, <1>5 DEF CNext

LEMMA SourcedNext ==
    ASSUME ClusterInv, Sourced, [CNext]_everyVar
    PROVE  Sourced'
<1>0. /\ HistoryInv /\ VersionsExist /\ GTypeInv /\ [GNext]_allVars
      /\ pc \in [Requests -> PCs] /\ ret \in [Requests -> GOutcome \cup {None}]
      /\ key \in [Requests -> Keys \cup {None}]
      /\ call \in [Requests -> Produced \cup {None}]
      /\ cache \in [Keys -> [value : {Empty}, live : BOOLEAN] \cup {None}]
      /\ \A c \in Requests : call[c] # None =>
            key[c] \in Keys /\ pc[c] \in {"publish", "retire", "returned"}
      /\ \A c \in Requests : pc[c] \notin {"idle", "returned"} => key[c] \in Keys
    BY ClusterStep DEF ClusterInv, HistoryInv, GFlightInv, GTypeInv, GTypeOK, GAssigned
<1> DEFINE Sourced1(k, v) ==
        \E c \in Requests :
            /\ key'[c] \in Keys
            /\ NameOf(key'[c]) \in {NameOf(k), Wire[NameOf(k)]}
            /\ read'[c] = v \/ (v = Empty /\ call'[c] # None /\ call'[c].err # Nil)
<1>1. ASSUME NEW r \in Requests, call'[r] # None, call'[r].err = Nil
      PROVE  Sourced1(key'[r], call'[r].value)
    <2>1. CASE call[r] # None
        <3>1. call'[r] = call[r] /\ key'[r] = key[r] /\ key[r] \in Keys
            BY <1>0, <2>1, CallStays, KeyStays
        <3>2. HasSource(key[r], call[r].value) /\ call[r].value \in Values
            BY <1>0, <1>1, <2>1, <3>1, ProducedFacts DEF Sourced
        <3>3. QED BY <1>0, <3>1, <3>2, SourceStays
    <2>2. CASE call[r] = None
        <3>1. RetrieveFails(r) \/ Store(r) \/ Answered(r)
            BY <1>1, <2>2, ClusterCallSteps
        <3>2. key'[r] = key[r] /\ key[r] \in Keys
            BY <1>0, <3>1 DEF RetrieveFails, Store, Answered, FnReturns
        <3>3. ~RetrieveFails(r)
            <4>1. Failed(DbError).err = DbError /\ DbError # Nil
                BY GroupConstants DEF Failed
            <4>2. QED BY <1>0, <1>1, <4>1 DEF RetrieveFails, FnReturns
        <3>4. CASE Store(r)
            <4>1. Failed(NotFound).err = NotFound /\ NotFound # Nil
                BY GroupConstants DEF Failed
            <4>2. call'[r] = Found(read[r]) /\ read' = read
                BY <1>0, <1>1, <3>4, <4>1 DEF Store, FnReturns
            <4>3. call'[r].value = read'[r]
                BY <4>2 DEF Found
            <4>4. QED BY <3>2, <4>3
        <3>5. CASE Answered(r)
            <4>1. /\ child[r] \in Requests /\ pc[child[r]] = "returned" /\ ret[child[r]].err = Nil
                  /\ call'[r] = Found(ret[child[r]].value)
                  /\ key[child[r]] \in Keys
                  /\ NameOf(key[child[r]]) \in {NameOf(key[r]), Wire[NameOf(key[r])]}
                BY <1>0, <3>5
                   DEF Answered, Replied, FnReturns, ClusterInv, NodesTyped, ChildFacts
            <4>2. HasSource(key[child[r]], ret[child[r]].value)
                BY <4>1 DEF Sourced
            <4>3. ret[child[r]].value \in Values
                BY <1>0, <4>1 DEF GTypeInv, GAssigned, GOutcome
            <4>4. Sourced1(key[child[r]], ret[child[r]].value)
                BY <1>0, <4>1, <4>2, <4>3, SourceStays
            <4>5. NameOf(key[r]) \in Names
                BY <3>2, KeyFacts
            <4>6. call'[r].value = ret[child[r]].value
                BY <4>1 DEF Found
            <4>7. {NameOf(key[child[r]]), Wire[NameOf(key[child[r]])]}
                      \subseteq {NameOf(key[r]), Wire[NameOf(key[r])]}
                BY <4>1, <4>5, GroupConstants
            <4>8. QED BY <3>2, <4>4, <4>6, <4>7
        <3>6. QED BY <3>1, <3>3, <3>4, <3>5
    <2>3. QED BY <2>1, <2>2
<1>2. ASSUME NEW r \in Requests, pc'[r] = "returned", ret'[r].err = Nil
      PROVE  Sourced1(key'[r], ret'[r].value)
    <2>1. ASSUME NEW k \in Keys, NEW v \in Values, HasSource(k, v), key'[r] = k, ret'[r].value = v
          PROVE  Sourced1(key'[r], ret'[r].value)
        BY <1>0, <2>1, SourceStays
    <2>2. CASE pc[r] = "returned"
        <3>1. ret'[r] = ret[r] /\ key'[r] = key[r]
            BY <1>0, <2>2, GReturnedStays, KeyStays
        <3>2. key[r] \in Keys /\ HasSource(key[r], ret[r].value)
            BY <1>0, <1>2, <2>2, <3>1 DEF VersionsExist, Sourced
        <3>3. ret[r].value \in Values
            BY <1>0, <2>2 DEF GTypeInv, GAssigned, GOutcome
        <3>4. QED BY <2>1, <3>1, <3>2, <3>3
    <2>3. CASE pc[r] # "returned"
        <3>1. Retire(r) \/ Wake(r) \/ CacheHit(r) \/ AnswersAtOnce(r)
            BY <1>0, <1>2, <2>3, ReturnSteps
        <3>2. CASE Retire(r)
            <4>1. key[r] \in Keys /\ call[r] # None /\ ret'[r] = call[r] /\ key'[r] = key[r]
                BY <1>0, <3>2 DEF Retire, GTypeInv, GAssigned
            <4>2. call[r].value \in Values /\ call[r].err = Nil
                BY <1>0, <1>2, <4>1, ProducedFacts
            <4>3. QED BY <2>1, <4>1, <4>2 DEF Sourced
        <3>3. CASE Wake(r)
            <4>1. /\ key[r] \in Keys /\ joined[r] \in Requests /\ key[joined[r]] = key[r]
                  /\ call[joined[r]] # None
                  /\ ret'[r] = call[joined[r]] /\ key'[r] = key[r]
                BY <1>0, <3>3 DEF Wake, HistoryInv, GFlightInv, WaitIsJustified, GTypeInv, GAssigned
            <4>2. call[joined[r]].value \in Values /\ call[joined[r]].err = Nil
                BY <1>0, <1>2, <4>1, ProducedFacts
            <4>3. QED BY <2>1, <4>1, <4>2 DEF Sourced
        <3>4. CASE CacheHit(r)
            <4>1. key[r] \in Keys /\ ret'[r].value = Empty /\ key'[r] = key[r]
                  /\ cache[key[r]] # None
                BY <1>0, <3>4 DEF CacheHit, Cached
            <4>2. HasSource(key[r], Empty)
                BY <4>1 DEF Sourced, HasSource
            <4>3. QED BY <2>1, <4>1, <4>2 DEF Values
        <3>5. CASE AnswersAtOnce(r)
            <4>1. ret'[r] # Failed(KeyRequired)
                <5>1. Failed(KeyRequired).err = KeyRequired
                    BY DEF Failed
                <5>2. QED BY <1>2, <5>1, GroupConstants
            <4>2. PICK k \in Keys : /\ mainCache[k] # None
                                    /\ ret'[r] = Found(mainCache[k])
                                    /\ key'[r] = k
                BY <1>0, <3>5, <4>1 DEF AnswersAtOnce
            <4>3. PICK c \in Requests : key[c] = k /\ read[c] = mainCache[k]
                BY <1>0, <4>2 DEF HistoryInv, CachedWasRead
            <4>4. HasSource(k, mainCache[k]) /\ mainCache[k] \in Values
                BY <1>0, <4>2, <4>3 DEF HasSource, GTypeInv, GTypeOK
            <4>5. QED BY <2>1, <4>2, <4>4 DEF Found
        <3>6. QED BY <3>1, <3>2, <3>3, <3>4, <3>5
    <2>4. QED BY <2>2, <2>3
<1>3. ASSUME NEW k \in Keys, cache'[k] # None
      PROVE  \E c \in Requests : key'[c] = k /\ call'[c] # None /\ call'[c].err # Nil
    <2>1. CASE cache[k] # None
        <3>1. PICK c \in Requests : key[c] = k /\ call[c] # None /\ call[c].err # Nil
            BY <2>1 DEF Sourced
        <3>2. call'[c] = call[c] /\ key'[c] = key[c]
            BY <1>0, <3>1, CallStays, KeyStays
        <3>3. QED BY <3>1, <3>2
    <2>2. CASE cache[k] = None
        <3>1. PICK r \in Requests : Retire(r) /\ cache' # cache
            <4>1. ASSUME NEW j \in Keys, Expire(j) PROVE cache'[k] = None
                BY <1>0, <2>2, <4>1 DEF Expire, Cached
            <4>2. Sweep => cache'[k] = None
                BY <2>2 DEF Sweep, Cached
            <4>3. cache' # cache
                BY <1>3, <2>2
            <4>4. QED BY <1>0, <1>3, <4>1, <4>2, <4>3, FlightNextSteps
                      DEF FlightNext, AnswersAtOnce, Do, DoStep, CacheHit, Join, Miss, Claim,
                          FnPanics, Publish, Wake, FnReturns, vars
        <3>2. k = key[r] /\ call[r].err # Nil /\ call[r] # None
            BY <1>0, <1>3, <2>2, <3>1 DEF Retire, GTypeInv, GAssigned
        <3>3. call' = call /\ key' = key
            BY <3>1 DEF Retire
        <3>4. QED BY <3>2, <3>3
    <2>3. QED BY <2>1, <2>2
<1>4. QED BY <1>1, <1>2, <1>3 DEF Sourced, HasSource, NameOf

(* Every value that Get returns was read, by whatever node, from the row   *)
(* asked for, or is empty because a run for that name failed: a Fetch that *)
(* was refused or given up makes no answer.                                *)
THEOREM AnswerAlwaysHasSource == CSpec => []AnswerHasSource
<1>1. CInit => Sourced
    BY DEF CInit, GInit, Init, Sourced
<1>2. ClusterInv /\ Sourced /\ [CNext]_everyVar => (ClusterInv /\ Sourced)'
    BY ClusterInvNext, SourcedNext
<1>3. ClusterInv /\ Sourced => AnswerHasSource
    <2>1. SUFFICES ASSUME ClusterInv, Sourced,
                          NEW r \in Requests, pc[r] = "returned", ret[r].err = Nil
                   PROVE  \E c \in Requests : key[c] # None /\ SameRow(c, r) /\
                              \/ read[c] = ret[r].value
                              \/ ret[r].value = Empty /\ call[c] # None /\ call[c].err # Nil
        BY DEF AnswerHasSource
    <2>2. HasSource(key[r], ret[r].value)
        BY <2>1 DEF Sourced
    <2>3. QED BY <2>2, KeyFacts DEF HasSource, SameRow
<1>4. QED BY ClusterInit, <1>1, <1>2, <1>3, PTL DEF CSpec

-----------------------------------------------------------------------------
(* Over http, a call gets nearer to a node that answers by itself: at most *)
(* one call is for a name the wire changes, the next is for a name it      *)
(* leaves alone, and the owner of that one asks nobody.                    *)

(* The nodes agree on the owners, and none asks itself.                    *)
FetchIsAway ==
    transport = "http" =>
        /\ \A n, p \in Nodes : owner[n] = owner[p]
        /\ \A r \in Requests : Running(r, "fetch") => Owner(r) # At(r)

(* How many calls may follow, at most.                                     *)
Distance(k) ==
    CASE owner[NodeOf(k)][NameOf(k)] = NodeOf(k) -> 0
      [] Wire[NameOf(k)] = NameOf(k) /\ owner[NodeOf(k)][NameOf(k)] # NodeOf(k) -> 1
      [] OTHER -> 2

LEMMA FetchIsAwayNext ==
    ASSUME ClusterInv, FetchIsAway, [CNext]_everyVar
    PROVE  FetchIsAway'
<1>0. /\ GTypeInv /\ [GNext]_allVars /\ transport' = transport /\ owner' = owner
      /\ at \in [Requests -> {"pick", "fetch", "retrieve", "store"}]
      /\ pc \in [Requests -> PCs]
    BY ClusterStep, ClusterFrame DEF ClusterInv, HistoryInv, GFlightInv, GTypeInv, GTypeOK
<1>s. SUFFICES ASSUME transport = "http", NEW r \in Requests, pc'[r] = "run", at'[r] = "fetch"
               PROVE  owner[NodeOf(key'[r])][NameOf(key'[r])] # NodeOf(key'[r])
    BY <1>0 DEF FetchIsAway, Running, Owner, At, NodeOf, NameOf
<1>1. CASE at[r] = "fetch"
    <2>1. pc[r] \in Begun /\ key'[r] = key[r]
        BY <1>0, <1>1, KeyStays DEF ClusterInv, HistoryInv, ReadFacts, Begun
    <2>2. pc[r] = "run"
        <3>1. ASSUME NEW s \in Requests, Claim(s) PROVE pc[r] = "run"
            BY <1>0, <1>s, <2>1, <3>1 DEF Claim, Begun
        <3>2. ASSUME NEW s \in Requests,
                     (\E k \in Keys : Do(s, k)) \/ AnswersAtOnce(s)
                     \/ \E o \in Produced : FnReturns(s, o)
              PROVE  pc[r] = "run"
            BY <1>0, <1>s, <3>2 DEF Do, AnswersAtOnce, FnReturns
        <3>3. ASSUME NEW s \in Requests,
                     CacheHit(s) \/ Join(s) \/ Miss(s) \/ FnPanics(s) \/ Publish(s)
                     \/ Retire(s) \/ Wake(s)
              PROVE  pc[r] = "run"
            BY <1>0, <1>s, <3>3 DEF CacheHit, Join, Miss, FnPanics, Publish, Retire, Wake
        <3>4. CASE (\E k \in Keys : Expire(k)) \/ Sweep \/ UNCHANGED vars
            BY <1>s, <3>4 DEF Expire, Sweep, vars
        <3>5. QED BY <1>0, <3>1, <3>2, <3>3, <3>4, FlightNextSteps DEF FlightNext, DoStep
    <2>3. QED BY <1>s, <1>1, <2>1, <2>2 DEF FetchIsAway, Running, Owner, At
<1>2. CASE at[r] # "fetch"
    <2>1. ASSUME NEW s \in Requests, PickOwner(s) PROVE s = r
        BY <1>0, <1>s, <1>2, <2>1 DEF PickOwner
    <2>2. PickOwner(r)
        <3>1. ASSUME NEW s \in Requests, ClientGet(s) PROVE FALSE
            BY <1>s, <1>2, <3>1 DEF ClientGet, Enters, GetRefused, GetHit, GetMiss, Answer, groupVars
        <3>2. ASSUME NEW s \in Requests, LocalStep(s) PROVE PickOwner(s)
            <4>1. at' # at
                BY <1>s, <1>2
            <4>2. ASSUME Retrieve(s) PROVE FALSE
                BY <1>0, <1>s, <1>2, <4>2 DEF Retrieve
            <4>3. ASSUME FlightStep(s) \/ RetrieveFails(s) \/ HandlerPanics(s) \/ Store(s) PROVE at' = at
                BY <4>3 DEF FlightStep, RetrieveFails, HandlerPanics, RetrievePanics, Store, groupVars
            <4>4. QED BY <3>2, <4>1, <4>2, <4>3 DEF LocalStep
        <3>3. ASSUME NEW s \in Requests, PeerStep(s) PROVE FALSE
            <4>1. Call(s) \/ Answered(s) => at' = at
                BY DEF Call, Enters, GetHit, GetMiss, Answer, Answered, groupVars
            <4>2. FetchFails(s) => at'[r] \in {at[r], "retrieve"}
                BY <1>0 DEF FetchFails
            <4>3. QED BY <1>s, <1>2, <3>3, <4>1, <4>2 DEF PeerStep
        <3>4. ~((\E n \in MayFail : Fault(n)) \/ CacheStep \/ RowStep \/ UNCHANGED everyVar)
            BY <1>s, <1>2 DEF Fault, CacheStep, RowStep, CreateStudent, Update, everyVar, allVars,
                              groupVars
        <3>5. QED BY <2>1, <3>1, <3>2, <3>3, <3>4 DEF CNext
    <2>3. Owner(r) # At(r) /\ key' = key
        BY <1>0, <1>s, <2>2 DEF PickOwner, vars
    <2>4. QED BY <2>3 DEF Owner, At
<1>3. QED BY <1>1, <1>2

(* In a circle, whoever waits for a flight waits for one that fetches.     *)
LEMMA FlightLeadsToFetch ==
    ASSUME ClusterInv, NEW S \in SUBSET Requests, NEW r \in S,
           \A q \in S : WaitsFor(q) \cap S # {}
    PROVE  \E f \in S : Running(f, "fetch") /\ key[f] = key[r]
<1>0. ASSUME NEW q \in S
      PROVE  /\ pc[q] = "wait" \/ Running(q, "fetch")
             /\ pc[q] = "wait" => joined[q] \in S
    <2>1. CASE pc[q] = "wait"
        <3>1. WaitsFor(q) = {joined[q]}
            BY <2>1 DEF WaitsFor, Running
        <3>2. PICK c \in WaitsFor(q) : c \in S
            BY <1>0
        <3>3. QED BY <2>1, <3>1, <3>2
    <2>2. CASE pc[q] # "wait" /\ ~Running(q, "fetch")
        <3>1. WaitsFor(q) = {}
            BY <2>2 DEF WaitsFor
        <3>2. WaitsFor(q) \cap S # {}
            BY <1>0
        <3>3. QED BY <3>1, <3>2
    <2>3. QED BY <2>1, <2>2
<1>1. CASE pc[r] # "wait"
    BY <1>0, <1>1
<1>2. CASE pc[r] = "wait"
    <2>1. joined[r] \in S /\ key[joined[r]] = key[r]
        BY <1>0, <1>2 DEF ClusterInv, HistoryInv, GFlightInv, WaitIsJustified
    <2>2. pc[joined[r]] # "wait"
        BY <1>2 DEF ClusterInv, HistoryInv, GFlightInv, WaitIsJustified, DoneBeforeRetired
    <2>3. QED BY <1>0, <2>1, <2>2
<1>3. QED BY <1>1, <1>2

(* In a circle, whoever fetches waits, at the other end, for a fetch that  *)
(* is nearer.                                                              *)
LEMMA FetchIsNearer ==
    ASSUME ClusterInv, FetchIsAway, transport = "http",
           NEW S \in SUBSET Requests, NEW f \in S, Running(f, "fetch"),
           \A q \in S : WaitsFor(q) \cap S # {}
    PROVE  \E g \in S : Running(g, "fetch") /\ Distance(key[g]) < Distance(key[f])
<1>1. child[f] \in S /\ child[f] # None
    BY DEF WaitsFor, Running
<1>2. PICK g \in S : Running(g, "fetch") /\ key[g] = key[child[f]]
    BY <1>1, FlightLeadsToFetch
<1>3. key[f] \in Keys /\ key[child[f]] = <<Owner(f), Wire[NameOf(key[f])]>>
    BY <1>1 DEF ClusterInv, ChildFacts
<1> DEFINE n == NodeOf(key[f])
           x == NameOf(key[f])
           p == owner[n][x]
           w == Wire[x]
<1>4. n \in Nodes /\ x \in Names /\ p \in Nodes /\ w \in Names /\ Wire[w] = w
    BY <1>3, KeyFacts, GroupConstants DEF ClusterInv, NodesTyped
<1>5. NodeOf(key[g]) = p /\ NameOf(key[g]) = w
    BY <1>2, <1>3 DEF Owner, At, NodeOf, NameOf
<1>6. owner[p] = owner[n] /\ p # n
    BY <1>4 DEF FetchIsAway, Owner, At
<1>7. Distance(key[f]) = IF w = x THEN 1 ELSE 2
    BY <1>6 DEF Distance
<1>8. Distance(key[g]) = IF owner[p][w] = p THEN 0 ELSE 1
    BY <1>4, <1>5 DEF Distance
<1>9. w = x => owner[p][w] = p
    BY <1>6
<1>10. QED BY <1>2, <1>7, <1>8, <1>9

(* Over http no requests wait for each other in a circle of joined flights *)
(* and calls between nodes, however many nodes, names and requests.        *)
THEOREM NeverDistributedDeadlock == CSpec => []NoDistributedDeadlock
<1>1. CInit => FetchIsAway
    BY DEF CInit, Rings, GInit, Init, FetchIsAway, Running
<1>2. ClusterInv /\ FetchIsAway /\ [CNext]_everyVar => (ClusterInv /\ FetchIsAway)'
    BY ClusterInvNext, FetchIsAwayNext
<1>3. ClusterInv /\ FetchIsAway => NoDistributedDeadlock
    <2> SUFFICES ASSUME ClusterInv, FetchIsAway, transport = "http",
                        NEW S \in SUBSET Requests, S # {},
                        \A q \in S : WaitsFor(q) \cap S # {}
                 PROVE  FALSE
        BY DEF NoDistributedDeadlock
    <2>1. \A k : Distance(k) \in 0..2
        BY DEF Distance
    <2>2. PICK f \in S : Running(f, "fetch")
        <3>1. PICK r \in S : TRUE
            OBVIOUS
        <3>2. \E f \in S : Running(f, "fetch") /\ key[f] = key[r]
            BY FlightLeadsToFetch
        <3>3. QED BY <3>2
    <2>3. PICK g \in S : Running(g, "fetch") /\ Distance(key[g]) < Distance(key[f])
        BY <2>2, FetchIsNearer
    <2>4. PICK h \in S : Running(h, "fetch") /\ Distance(key[h]) < Distance(key[g])
        BY <2>3, FetchIsNearer
    <2>5. PICK i \in S : Running(i, "fetch") /\ Distance(key[i]) < Distance(key[h])
        BY <2>4, FetchIsNearer
    <2>6. QED BY <2>1, <2>3, <2>4, <2>5
<1>4. QED BY ClusterInit, <1>1, <1>2, <1>3, PTL DEF CSpec
=============================================================================
