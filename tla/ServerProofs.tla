---------------------------- MODULE ServerProofs ----------------------------
(***************************************************************************)
(* Proofs about Server, for any number of callers of Stop, of updates of   *)
(* the endpoints, and of crashes and restarts.                             *)
(***************************************************************************)
EXTENDS Server, TLAPS

(* What the mutual exclusion in TypeOK needs to be inductive: main and the *)
(* updater are in Stop only when they called it, so that a call of Stop    *)
(* never begins where one is not over.                                     *)
StopIsNotReentered ==
    /\ main # "stop" => stop["main"] = "out"
    /\ updater # "stop" => stop["updater"] = "out"

TypeInv == TypeOK /\ StopIsNotReentered

LEMMA TypeInvInit == Init => TypeInv
<1> SUFFICES ASSUME Init PROVE TypeInv
    OBVIOUS
<1>1. {status, listening, view, kept} \subseteq BOOLEAN
    BY Zenon DEF Init
<1>2. StopIsNotReentered
    BY DEF Init, StopIsNotReentered, Stoppers
<1>3. \A p \in Stoppers : mu = p <=> stop[p] \in {"send", "sent"}
    BY ServerConstants DEF Init, Stoppers
<1>4. QED BY <1>1, <1>2, <1>3, ServerConstants DEF Init, TypeInv, TypeOK

(* The steps of main, of Stop, of the updater and of the registrar, one    *)
(* after the other, and what happens to the process and in etcd.           *)
LEMMA TypeInvNext == TypeInv /\ [Next]_vars => TypeInv'
<1> SUFFICES ASSUME TypeInv, [Next]_vars PROVE TypeInv'
    OBVIOUS
<1> USE ServerConstants
    DEF TypeInv, TypeOK, StopIsNotReentered, Stoppers, goroutines, fields, etcd, ends,
        MainTo, UpdaterTo, RegistrarTo, StopTo, StopStays, End
<1>1. CASE MainStep
    <2>1. CASE Start
        BY <2>1 DEF Start
    <2>2. CASE StartFails
        BY <2>2 DEF StartFails
    <2>3. CASE ServeFails \/ Exit
        <3>1. /\ process' \in {"fatal", "exited"}
              /\ UNCHANGED <<life, goroutines, fields, updates, etcd>>
            BY <2>3 DEF ServeFails, Exit
        <3>2. QED BY <3>1
    <2>4. CASE ServeEnds
        <3>1. stop' = [stop EXCEPT !["main"] = "enter"] /\ mu' = mu
            BY <2>4 DEF ServeEnds
        <3>2. mu # "main"
            BY <2>4 DEF ServeEnds
        <3>3. QED BY <2>4, <3>1, <3>2 DEF ServeEnds
    <2>5. QED BY <1>1, <2>1, <2>2, <2>3, <2>4 DEF MainStep
<1>2. ASSUME NEW p \in Stoppers, Call(p) PROVE TypeInv'
    BY <1>2 DEF Call
<1>3. ASSUME NEW p \in Stoppers, StopStep(p) PROVE TypeInv'
    <2>1. CASE StopNothing(p)
        BY <2>1 DEF StopNothing
    <2>2. CASE StopLocks(p)
        BY <2>2 DEF StopLocks
    <2>3. CASE SendPanics(p)
        BY <2>3 DEF SendPanics
    <2>4. CASE SendToRegistrar(p)
        BY <2>4 DEF SendToRegistrar
    <2>5. CASE SendToUpdater(p)
        <3>1. p # "updater" /\ (main = "failed" \/ mu = p)
            BY <2>5 DEF SendToUpdater
        <3>2. /\ stop' \in [Stoppers -> {"out", "enter", "send", "sent"}]
              /\ stop'[p] = "sent"
              /\ stop'["updater"] = "enter"
              /\ \A q \in Stoppers \ {p, "updater"} : stop'[q] = stop[q]
            BY <2>5, <3>1 DEF SendToUpdater
        <3>3. QED BY <2>5, <3>1, <3>2 DEF SendToUpdater
    <2>6. CASE StopFinishes(p)
        <3>1. \A q \in Stoppers : stop'[q] = IF q = p THEN "out" ELSE stop[q]
            BY <2>6 DEF StopFinishes
        <3>2. main # "failed" => \A q \in Stoppers \ {p} : stop[q] \in {"out", "enter"}
            BY <2>6 DEF StopFinishes
        <3>3. {status, listening, view, kept}' \subseteq BOOLEAN
            BY <2>6, Zenon DEF StopFinishes
        <3>4. QED BY <2>6, <3>1, <3>2, <3>3 DEF StopFinishes
    <2>7. QED BY <1>3, <2>1, <2>2, <2>3, <2>4, <2>5, <2>6 DEF StopStep
<1>4. CASE UpdaterStep \/ Update
    <2>1. CASE Reconstruct
        BY <2>1 DEF Reconstruct
    <2>2. CASE ReceiveClosed
        BY <2>2 DEF ReceiveClosed
    <2>3. CASE UpdaterResumes
        BY <2>3 DEF UpdaterResumes
    <2>4. CASE Update
        BY <2>4 DEF Update
    <2>5. QED BY <1>4, <2>1, <2>2, <2>3, <2>4 DEF UpdaterStep
<1>5. CASE RegistrarStep \/ KeepAliveEnds
    <2>1. CASE Grant
        BY <2>1 DEF Grant
    <2>2. CASE EtcdAdd
        BY <2>2 DEF EtcdAdd
    <2>3. CASE KeepAlive
        BY <2>3 DEF KeepAlive
    <2>4. CASE ConnectFails
        BY <2>4 DEF ConnectFails
    <2>5. CASE RegisterFails
        BY <2>5 DEF RegisterFails
    <2>6. CASE EtcdDel
        BY <2>6 DEF EtcdDel
    <2>7. CASE CloseSignal
        <3>1. stopsSignal' \in {"nil", "open", "closed"}
            BY <2>7 DEF CloseSignal
        <3>2. QED BY <2>7, <3>1 DEF CloseSignal
    <2>8. CASE CloseListener
        <3>1. {status, listening, view, kept}' \subseteq BOOLEAN
            BY <2>8, Zenon DEF CloseListener
        <3>2. QED BY <2>8, <3>1 DEF CloseListener
    <2>9. CASE KeepAliveEnds
        <3>1. {status, listening, view, kept}' \subseteq BOOLEAN
            BY <2>9, Zenon DEF KeepAliveEnds
        <3>2. QED BY <2>9, <3>1 DEF KeepAliveEnds
    <2>10. QED
        BY <1>5, <2>1, <2>2, <2>3, <2>4, <2>5, <2>6, <2>7, <2>8, <2>9 DEF RegistrarStep
<1>6. CASE PickPanics \/ Crash
    <2>1. /\ process' \in {"panicked", "crashed"}
          /\ UNCHANGED <<life, goroutines, fields, updates, etcd>>
        BY <1>6 DEF PickPanics, Crash
    <2>2. QED BY <2>1
<1>7. ASSUME NEW l \in leases, LeaseEnds(l) PROVE TypeInv'
    BY <1>7 DEF LeaseEnds
<1>8. CASE Restart
    <2>1. {status, listening, view, kept}' \subseteq BOOLEAN
        BY <1>8, Zenon DEF Restart
    <2>2. \A p \in Stoppers : mu' = p <=> stop'[p] \in {"send", "sent"}
        BY <1>8 DEF Restart
    <2>3. StopIsNotReentered' /\ stop' \in [Stoppers -> {"out", "enter", "send", "sent"}]
        BY <1>8 DEF Restart
    <2>4. life' \in 1..MaxLives /\ leases' \subseteq 1..life' /\ endpoint' \in 1..life' \cup {None}
        BY <1>8 DEF Restart
    <2>5. /\ updates' \in 0..MaxUpdates
          /\ mu' \in Stoppers \cup {None}
          /\ main' = "start" /\ updater' = "select" /\ registrar' = "none"
          /\ process' = "up" /\ stopsSignal' = "nil"
        BY <1>8 DEF Restart
    <2>6. QED BY <2>1, <2>2, <2>3, <2>4, <2>5, Zenon
<1>9. CASE UNCHANGED vars
    BY <1>9 DEF vars
<1> HIDE ServerConstants
    DEF TypeInv, TypeOK, StopIsNotReentered, Stoppers, goroutines, fields, etcd, ends,
        MainTo, UpdaterTo, RegistrarTo, StopTo, StopStays, End
<1>10. QED
    BY <1>1, <1>2, <1>3, <1>4, <1>5, <1>6, <1>7, <1>8, <1>9 DEF Next

(* Type correctness, and mutual exclusion: while Start has not failed, the *)
(* goroutine that holds s.mu is the one that is between sending on         *)
(* stopsSignal and the end of Stop, so at most one ever sends.             *)
THEOREM TypeCorrect == Spec => []TypeOK
<1>1. TypeInv => TypeOK
    BY DEF TypeInv
<1>2. QED BY TypeInvInit, TypeInvNext, <1>1, PTL DEF Spec

-----------------------------------------------------------------------------
(* What RegistrationHolds needs to be inductive: the endpoint is this      *)
(* life's from EtcdAdd on, before KeepAlive too, and whatever became of    *)
(* the process.                                                            *)
AddedIsOwn ==
    registrar \in {"keep", "watch"} /\ life \in leases => endpoint = life

(* But for Start, main and the updater have nothing to do with it.         *)
registration == <<registrar, life, leases, endpoint>>

LEMMA RegistrationUntouched ==
    ASSUME StartFails \/ ServeFails \/ ServeEnds \/ Exit \/ (\E p \in Stoppers : Call(p))
              \/ UpdaterStep \/ Update \/ PickPanics \/ Crash \/ UNCHANGED vars
    PROVE  UNCHANGED registration
<1> USE DEF registration, goroutines, fields, etcd, ends, MainTo, UpdaterTo, StopStays, End
<1>1. CASE StartFails \/ ServeFails \/ ServeEnds \/ Exit
    BY <1>1 DEF StartFails, ServeFails, ServeEnds, Exit
<1>2. CASE \E p \in Stoppers : Call(p)
    BY <1>2 DEF Call
<1>3. CASE UpdaterStep \/ Update
    BY <1>3 DEF UpdaterStep, Reconstruct, ReceiveClosed, UpdaterResumes, Update
<1>4. CASE PickPanics \/ Crash \/ UNCHANGED vars
    BY <1>4 DEF PickPanics, Crash, vars
<1>5. QED BY <1>1, <1>2, <1>3, <1>4

LEMMA AddedIsOwnNext == TypeInv /\ AddedIsOwn /\ [Next]_vars => AddedIsOwn'
<1> SUFFICES ASSUME TypeInv, AddedIsOwn, [Next]_vars PROVE AddedIsOwn'
    OBVIOUS
<1> USE DEF AddedIsOwn
<1>1. CASE UNCHANGED registration
    BY <1>1 DEF registration
<1>2. ASSUME NEW p \in Stoppers, StopStep(p) PROVE AddedIsOwn'
    <2>1. /\ UNCHANGED <<life, leases, endpoint>>
          /\ registrar' \in {registrar, "delete"}
        BY <1>2 DEF StopStep, StopNothing, StopLocks, SendPanics, SendToRegistrar, SendToUpdater,
                    StopFinishes, StopStays, UpdaterTo, End, goroutines, ends, etcd
    <2>2. QED BY <2>1
<1>3. CASE RegistrarStep \/ KeepAliveEnds
    <2>1. CASE EtcdAdd
        BY <2>1 DEF EtcdAdd, RegistrarTo, ends
    <2>2. CASE KeepAlive
        BY <2>2 DEF KeepAlive, RegistrarTo, ends
    <2>3. CASE ConnectFails
        BY <2>3 DEF ConnectFails, End, goroutines, etcd
    <2>4. CASE Grant \/ RegisterFails \/ EtcdDel \/ CloseSignal \/ CloseListener \/ KeepAliveEnds
        BY <2>4 DEF Grant, RegisterFails, EtcdDel, CloseSignal, CloseListener, KeepAliveEnds,
                    RegistrarTo
    <2>5. QED BY <1>3, <2>1, <2>2, <2>3, <2>4 DEF RegistrarStep
<1>4. ASSUME NEW l \in leases, LeaseEnds(l) PROVE AddedIsOwn'
    BY <1>4 DEF LeaseEnds, ends, goroutines
<1>5. CASE Restart \/ Start
    BY <1>5 DEF Restart, Start
<1>6. QED
    BY <1>1, <1>2, <1>3, <1>4, <1>5, RegistrationUntouched DEF Next, MainStep

(* However often the process crashed and was started again, and whatever   *)
(* older leases end meanwhile: as long as the lease that this life watches *)
(* is valid, its endpoint is in etcd.                                      *)
THEOREM RegistrationAlwaysHolds == Spec => []RegistrationHolds
<1>1. Init => AddedIsOwn
    BY DEF Init, AddedIsOwn
<1>2. AddedIsOwn => RegistrationHolds
    BY DEF AddedIsOwn, RegistrationHolds
<1>3. QED BY TypeInvInit, TypeInvNext, <1>1, AddedIsOwnNext, <1>2, PTL DEF Spec
=============================================================================
