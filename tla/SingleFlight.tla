---------------------------- MODULE SingleFlight ----------------------------
(***************************************************************************)
(* internal/service/singleflight/singleflight.go: concurrent Do calls of   *)
(* one SingleFlight and its cacheCleaner goroutine.                        *)
(*                                                                         *)
(* A request is one call of Do, made by a handler goroutine of its own; it *)
(* also names the Call record it allocates if it becomes the leader of a   *)
(* flight.  Every critical section of sf.mu is one action; everything that *)
(* happens between two critical sections is open to interleaving.          *)
(*                                                                         *)
(* The function fn is the caller's: here the run made by r may succeed     *)
(* with a value of its own, written r, or fail with an error of its own,   *)
(* written r too, so that a result shows which run it comes from.  On      *)
(* failure the value is the empty ByteView, as in Group.getLocally.        *)
(*                                                                         *)
(* Time: a cache entry is live until cv.expires has passed (Expire) and    *)
(* dead after; Before and After are that flag, and ttl is its delay.       *)
(***************************************************************************)

CONSTANTS Requests,   \* the calls of Do
          Keys,       \* the keys asked for
          Nil,        \* a nil error
          Empty,      \* ByteView{}, the value that goes with an error
          None,       \* an absent map entry, or a field not assigned yet
          FnMayPanic  \* whether fn may panic (and the panic be recovered)

(* What fn and Do return.                                                  *)
Outcome == [value : Requests \cup {Empty}, err : Requests \cup {Nil}]

ASSUME ConstantsDiffer ==
    /\ {Nil, Empty, None} \cap Requests = {}
    /\ None \notin Outcome
    /\ FnMayPanic \in BOOLEAN

VARIABLES pc,       \* pc[r]: the next step of r in Do
          key,      \* key[r]: the argument key
          m,        \* sf.m: the call in flight for each key
          cache,    \* sf.cache: the cached result of each key
          call,     \* call[r]: value and err of the Call r allocated
          wgDone,   \* the requests whose call's wg.Done was executed
          joined,   \* joined[r]: the call r waits for (the local c)
          ret,      \* ret[r]: the value and error Do returned to r
          before    \* history: the runs that were over when r called Do

vars == <<pc, key, m, cache, call, wgDone, joined, ret, before>>

-----------------------------------------------------------------------------
Success(r) == [value |-> r, err |-> Nil]
Failure(r) == [value |-> Empty, err |-> r]

(* The runs that are over: their leader left Do.                           *)
Retired == {r \in Requests : pc[r] = "returned" /\ call[r] # None}

Cached(k, live) == cache[k] # None /\ cache[k].live = live

Init ==
    /\ pc = [r \in Requests |-> "idle"]
    /\ key = [r \in Requests |-> None]
    /\ m = [k \in Keys |-> None]
    /\ cache = [k \in Keys |-> None]
    /\ call = [r \in Requests |-> None]
    /\ wgDone = {}
    /\ joined = [r \in Requests |-> None]
    /\ ret = [r \in Requests |-> None]
    /\ before = [r \in Requests |-> {}]

-----------------------------------------------------------------------------
(* Do.                                                                     *)

(* r enters Do and is about to take the read lock.                         *)
Do(r, k) ==
    /\ pc[r] = "idle"
    /\ pc' = [pc EXCEPT ![r] = "lookup"]
    /\ key' = [key EXCEPT ![r] = k]
    /\ before' = [before EXCEPT ![r] = Retired]
    /\ UNCHANGED <<m, cache, call, wgDone, joined, ret>>

(* Under RLock: a live cache entry is returned, always with a nil error.   *)
CacheHit(r) ==
    /\ pc[r] = "lookup"
    /\ Cached(key[r], TRUE)
    /\ pc' = [pc EXCEPT ![r] = "returned"]
    /\ ret' = [ret EXCEPT ![r] = [value |-> cache[key[r]].value, err |-> Nil]]
    /\ UNCHANGED <<key, m, cache, call, wgDone, joined, before>>

(* Under RLock: no live entry, but a call in flight: r will wait for it.   *)
Join(r) ==
    /\ pc[r] = "lookup"
    /\ ~Cached(key[r], TRUE)
    /\ m[key[r]] # None
    /\ joined' = [joined EXCEPT ![r] = m[key[r]]]
    /\ pc' = [pc EXCEPT ![r] = "wait"]
    /\ UNCHANGED <<key, m, cache, call, wgDone, ret, before>>

(* Under RLock: neither.  The lock is released before r registers a call.  *)
Miss(r) ==
    /\ pc[r] = "lookup"
    /\ ~Cached(key[r], TRUE)
    /\ m[key[r]] = None
    /\ pc' = [pc EXCEPT ![r] = "claim"]
    /\ UNCHANGED <<key, m, cache, call, wgDone, joined, ret, before>>

(* Under Lock: r registers its call, whatever m holds by now.              *)
Claim(r) ==
    /\ pc[r] = "claim"
    /\ m' = [m EXCEPT ![key[r]] = r]
    /\ pc' = [pc EXCEPT ![r] = "run"]
    /\ UNCHANGED <<key, cache, call, wgDone, joined, ret, before>>

(* fn returns outcome o, assigned to c.value and c.err.                    *)
FnReturns(r, o) ==
    /\ pc[r] = "run"
    /\ call' = [call EXCEPT ![r] = o]
    /\ pc' = [pc EXCEPT ![r] = "publish"]
    /\ UNCHANGED <<key, m, cache, wgDone, joined, ret, before>>

(* fn panics: nothing in Do is deferred, so nothing more of Do happens.    *)
FnPanics(r) ==
    /\ FnMayPanic
    /\ pc[r] = "run"
    /\ pc' = [pc EXCEPT ![r] = "panicked"]
    /\ UNCHANGED <<key, m, cache, call, wgDone, joined, ret, before>>

(* Fault variant of Publish: wg.Done is skipped when fn failed.            *)
PublishSuccessOnly(r) ==
    /\ pc[r] = "publish"
    /\ wgDone' = IF call[r].err = Nil THEN wgDone \cup {r} ELSE wgDone
    /\ pc' = [pc EXCEPT ![r] = "retire"]
    /\ UNCHANGED <<key, m, cache, call, joined, ret, before>>

(* c.wg.Done().                                                            *)
Publish(r) ==
    /\ pc[r] = "publish"
    /\ wgDone' = wgDone \cup {r}
    /\ pc' = [pc EXCEPT ![r] = "retire"]
    /\ UNCHANGED <<key, m, cache, call, joined, ret, before>>

(* Fault variants of Retire: the map entry is deleted only after a         *)
(* success; a success is cached too.                                       *)
RetireDeletingOnSuccess(r) ==
    /\ pc[r] = "retire"
    /\ m' = IF call[r].err = Nil THEN [m EXCEPT ![key[r]] = None] ELSE m
    /\ cache' = IF call[r].err = Nil
                THEN cache
                ELSE [cache EXCEPT ![key[r]] = [value |-> call[r].value, live |-> TRUE]]
    /\ pc' = [pc EXCEPT ![r] = "returned"]
    /\ ret' = [ret EXCEPT ![r] = call[r]]
    /\ UNCHANGED <<key, call, wgDone, joined, before>>

RetireCachingAll(r) ==
    /\ pc[r] = "retire"
    /\ m' = [m EXCEPT ![key[r]] = None]
    /\ cache' = [cache EXCEPT ![key[r]] = [value |-> call[r].value, live |-> TRUE]]
    /\ pc' = [pc EXCEPT ![r] = "returned"]
    /\ ret' = [ret EXCEPT ![r] = call[r]]
    /\ UNCHANGED <<key, call, wgDone, joined, before>>

(* Under Lock: the key's entry of m is deleted, whoever registered it, the *)
(* result is cached if fn FAILED, and Do returns.                          *)
Retire(r) ==
    /\ pc[r] = "retire"
    /\ m' = [m EXCEPT ![key[r]] = None]
    /\ cache' = IF call[r].err = Nil
                THEN cache
                ELSE [cache EXCEPT ![key[r]] = [value |-> call[r].value, live |-> TRUE]]
    /\ pc' = [pc EXCEPT ![r] = "returned"]
    /\ ret' = [ret EXCEPT ![r] = call[r]]
    /\ UNCHANGED <<key, call, wgDone, joined, before>>

(* Fault variant of Wake: it does not wait for wg.Done.                    *)
WakeWithoutWaiting(r) ==
    /\ pc[r] = "wait"
    /\ pc' = [pc EXCEPT ![r] = "returned"]
    /\ ret' = [ret EXCEPT ![r] = call[joined[r]]]
    /\ UNCHANGED <<key, m, cache, call, wgDone, joined, before>>

(* c.wg.Wait() returns, and Do with the result of the call waited for.     *)
Wake(r) ==
    /\ pc[r] = "wait"
    /\ joined[r] \in wgDone
    /\ pc' = [pc EXCEPT ![r] = "returned"]
    /\ ret' = [ret EXCEPT ![r] = call[joined[r]]]
    /\ UNCHANGED <<key, m, cache, call, wgDone, joined, before>>

-----------------------------------------------------------------------------
(* The flight cache.                                                       *)

(* time.Now() passes cv.expires.                                           *)
Expire(k) ==
    /\ Cached(k, TRUE)
    /\ cache' = [cache EXCEPT ![k].live = FALSE]
    /\ UNCHANGED <<pc, key, m, call, wgDone, joined, ret, before>>

(* Fault variant of Sweep: it deletes the entries that are still live.     *)
SweepInverted ==
    /\ \E k \in Keys : Cached(k, TRUE)
    /\ cache' = [k \in Keys |-> IF Cached(k, TRUE) THEN None ELSE cache[k]]
    /\ UNCHANGED <<pc, key, m, call, wgDone, joined, ret, before>>

(* cacheCleaner, at a tick and under Lock: every expired entry is deleted. *)
Sweep ==
    /\ \E k \in Keys : Cached(k, FALSE)
    /\ cache' = [k \in Keys |-> IF Cached(k, FALSE) THEN None ELSE cache[k]]
    /\ UNCHANGED <<pc, key, m, call, wgDone, joined, ret, before>>

-----------------------------------------------------------------------------
(* The steps of Do that do not depend on what fn is.                       *)
DoStep(r) ==
    \/ CacheHit(r)
    \/ Join(r)
    \/ Miss(r)
    \/ Claim(r)
    \/ FnPanics(r)
    \/ Publish(r)
    \/ Retire(r)
    \/ Wake(r)

Next ==
    \/ \E r \in Requests :
          \/ \E k \in Keys : Do(r, k)
          \/ DoStep(r)
          \/ \E o \in {Success(r), Failure(r)} : FnReturns(r, o)
    \/ \E k \in Keys : Expire(k)
    \/ Sweep

Spec == Init /\ [][Next]_vars

(* The Go scheduler runs every runnable goroutine, sync.RWMutex starves    *)
(* neither readers nor writers, the ticker keeps ticking and fn returns    *)
(* (or panics).  Nothing obliges a client to call Do, or an entry to       *)
(* expire within the run.                                                  *)
RunEnds(r) == (\E o \in {Success(r), Failure(r)} : FnReturns(r, o)) \/ FnPanics(r)

Fairness ==
    /\ \A r \in Requests :
          WF_vars(CacheHit(r) \/ Join(r) \/ Miss(r) \/ Claim(r)
                  \/ Publish(r) \/ Retire(r) \/ Wake(r) \/ RunEnds(r))
    /\ WF_vars(Sweep)

FairSpec == Spec /\ Fairness

-----------------------------------------------------------------------------
(* Types.                                                                  *)

PCs == {"idle", "lookup", "wait", "claim", "run", "publish", "retire",
        "returned", "panicked"}
Entry == [value : Requests \cup {Empty}, live : BOOLEAN]

TypeOK ==
    /\ pc \in [Requests -> PCs]
    /\ key \in [Requests -> Keys \cup {None}]
    /\ m \in [Keys -> Requests \cup {None}]
    /\ cache \in [Keys -> Entry \cup {None}]
    /\ call \in [Requests -> Outcome \cup {None}]
    /\ wgDone \subseteq Requests
    /\ joined \in [Requests -> Requests \cup {None}]
    /\ ret \in [Requests -> Outcome \cup {None}]
    /\ \A r \in Requests : (ret[r] # None) = (pc[r] = "returned")
    /\ before \in [Requests -> SUBSET Requests]

-----------------------------------------------------------------------------
(* Safety.                                                                 *)

(* A call registered in sf.m belongs to its key and its leader has not     *)
(* left Do: although Claim overwrites and Retire deletes blindly, a        *)
(* finished call is never left behind for later callers to find.           *)
RegisteredCallIsUnretired ==
    \A k \in Keys : m[k] # None =>
        /\ key[m[k]] = k
        /\ pc[m[k]] \in {"run", "publish", "retire", "panicked"}

(* A goroutine blocked in wg.Wait waits for another request's call for its *)
(* own key, and that call either is done already or its leader is still    *)
(* on the way to wg.Done (unless fn panicked): no wakeup is lost.          *)
WaitIsJustified ==
    \A r \in Requests : pc[r] = "wait" =>
        LET c == joined[r] IN
        /\ c \in Requests \ {r}
        /\ key[c] = key[r]
        /\ c \in wgDone \/ pc[c] \in {"run", "publish", "panicked"}

(* A value that is not empty comes from a run for the same key that was    *)
(* not over when the caller entered Do; so does an error.  A stale result  *)
(* can only be the empty one.                                              *)
ResultIsFresh ==
    \A r \in Requests : pc[r] = "returned" /\ ret[r] # [value |-> Empty, err |-> Nil] =>
        \E c \in Requests \ before[r] :
            /\ key[c] = key[r]
            /\ ret[r] = call[c]

(* The calls of Do keep the contract.                                      *)
Phase(r) == CASE pc[r] = "idle" -> "new"
              [] pc[r] = "returned" -> "closed"
              [] OTHER -> "open"

Contract == INSTANCE FlightContract WITH
    phase <- [r \in Requests |-> Phase(r)],
    produced <- call,
    retired <- Retired

(* Do implements the contract of module FlightContract: one run at most    *)
(* per call, and only own, shared and unfinished, or masked results.       *)
KeepsContract == Contract!Spec

(* What the README ("singleFlight") and recache.go promise: fn is executed *)
(* by one goroutine at a time for each key.                                *)
AtMostOneFlight ==
    \A r, s \in Requests :
        pc[r] = "run" /\ pc[s] = "run" /\ key[r] = key[s] => r = s

-----------------------------------------------------------------------------
(* Liveness.                                                               *)

(* The run r made, or the one it waits for, ended in a panic.              *)
Stranded(r) == pc[r] = "panicked" \/ (pc[r] = "wait" /\ pc[joined[r]] = "panicked")

(* Every call of Do returns, whatever flights overlap, unless the very fn  *)
(* it executes or waits for panicked: no panic strands anybody else.       *)
DoReturns == \A r \in Requests : (pc[r] = "lookup") ~> (pc[r] = "returned" \/ Stranded(r))

(* An expired entry does not stay in the flight cache.                     *)
ExpiredIsSwept == \A k \in Keys : Cached(k, FALSE) ~> ~Cached(k, FALSE)
=============================================================================
