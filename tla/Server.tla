------------------------------- MODULE Server -------------------------------
(***************************************************************************)
(* The life of the gRPC server of one address: Start and Stop of           *)
(* internal/service/grpc_picker.go, the goroutines they and SetPeers run,  *)
(* Register of discovery3/registry.go with its lease in etcd, and the end  *)
(* of cmd/grpc/main.go.  The process may crash and be started again.       *)
(*                                                                         *)
(*   main       SetPeers, then Start, which serves until the listener is   *)
(*              closed and then calls Stop by its defer                    *)
(*   updater    the goroutine of SetPeers: rebuilds the ring on an update, *)
(*              calls Stop on a stop signal                                *)
(*   registrar  the goroutine of Start: Register, then close stopsSignal   *)
(*              and the listener                                           *)
(*   callers    other callers of the exported Stop; the programs of the    *)
(*              repository have none                                       *)
(*                                                                         *)
(* stopsSignal is unbuffered: a send is a step with one receiver, or, on a *)
(* closed channel, a panic.  A panic or logger.Fatalf ends the process.    *)
(***************************************************************************)
EXTENDS Naturals, FiniteSets

CONSTANTS Callers,      \* the callers of Stop besides main and updater
          None,         \* no holder of the mutex, no endpoint
          MaxUpdates,   \* bound on the updates of the endpoints in one life
          MaxLives      \* bound on the lives of the process

ASSUME ServerConstants ==
    /\ None \notin Callers \cup {"main", "updater"} \cup Nat
    /\ {"main", "updater"} \cap Callers = {}
    /\ MaxUpdates \in Nat
    /\ MaxLives \in Nat \ {0}

VARIABLES process,      \* "up", "exited", "fatal", "panicked" or "crashed"
          life,         \* which life of the process it is
          main,         \* "start", "failed", "serve", "stop"
          updater,      \* "select", "rebuild", "stop"
          registrar,    \* "none", "grant", "add", "keep", "watch", "delete",
                        \* "close", "closed", "done"
          stop,         \* stop[p]: where p is in Stop
          mu,           \* the holder of s.mu
          status,       \* s.Status
          stopsSignal,  \* "nil", "open", "closed"
          listening,    \* whether the listener is open
          view,         \* whether s.consHash and s.clients are there
          updates,      \* how often the endpoints changed
          kept,         \* whether the etcd client keeps the lease alive
          leases,       \* etcd: the lives whose lease is valid
          endpoint      \* etcd: the life whose lease the endpoint is tied to

goroutines == <<main, updater, registrar, stop>>
fields == <<mu, status, stopsSignal, listening, view>>
etcd == <<kept, leases, endpoint>>
ends == <<process, life>>
vars == <<ends, goroutines, fields, updates, etcd>>

Stoppers == Callers \cup {"main", "updater"}

(* SetPeers has run: the updater is in its loop.                           *)
Init ==
    /\ process = "up" /\ life = 1
    /\ main = "start" /\ updater = "select" /\ registrar = "none"
    /\ stop = [p \in Stoppers |-> "out"]
    /\ mu = None /\ status = FALSE /\ stopsSignal = "nil"
    /\ listening = FALSE /\ view = TRUE
    /\ updates = 0
    /\ kept = FALSE /\ leases = {} /\ endpoint = None

End(how) == process' = how /\ UNCHANGED <<life, goroutines, fields, updates, etcd>>

(* The control of one goroutine, or of Stop in one of them, goes on.       *)
MainTo(where) == main' = where /\ UNCHANGED <<ends, updater, registrar>>
UpdaterTo(where) == updater' = where /\ UNCHANGED <<ends, main, registrar>>
RegistrarTo(where) == registrar' = where /\ UNCHANGED <<ends, main, updater, stop>>
StopTo(p, where) == stop' = [stop EXCEPT ![p] = where]

-----------------------------------------------------------------------------
(* Start.                                                                  *)

Start ==
    /\ main = "start"
    /\ mu = None
    /\ status' = TRUE
    /\ stopsSignal' = "open"
    /\ listening' = TRUE
    /\ main' = "serve"
    /\ registrar' = "grant"
    /\ UNCHANGED <<ends, updater, stop, mu, view, updates, etcd>>

(* net.Listen fails: Start returns without unlocking.                      *)
StartFails ==
    /\ main = "start"
    /\ mu = None
    /\ status' = TRUE
    /\ stopsSignal' = "open"
    /\ mu' = "main"
    /\ MainTo("failed")
    /\ UNCHANGED <<stop, listening, view, updates, etcd>>

(* Serve returns when the listener is closed.  If Status is still set, it  *)
(* is a failure.                                                           *)
ServeFails == main = "serve" /\ ~listening /\ status /\ End("fatal")

ServeEnds ==
    /\ main = "serve"
    /\ ~listening
    /\ ~status
    /\ MainTo("stop")
    /\ StopTo("main", "enter")
    /\ UNCHANGED <<fields, updates, etcd>>

(* Start has returned, its deferred Stop over: main returns.               *)
Exit == (main = "failed" \/ (main = "stop" /\ stop["main"] = "out")) /\ End("exited")

-----------------------------------------------------------------------------
(* Stop, called by p.                                                      *)

StopStays == UNCHANGED <<ends, main, updater, registrar, updates, etcd>>

Call(p) ==
    /\ p \in Callers
    /\ stop[p] = "out"
    /\ StopTo(p, "enter")
    /\ StopStays /\ UNCHANGED fields

(* The server is not running: Stop returns.                                *)
StopNothing(p) ==
    /\ stop[p] = "enter"
    /\ mu = None
    /\ ~status
    /\ StopTo(p, "out")
    /\ StopStays /\ UNCHANGED fields

(* It is: p keeps the mutex and is about to send on stopsSignal.           *)
StopLocks(p) ==
    /\ stop[p] = "enter"
    /\ mu = None
    /\ status
    /\ mu' = p
    /\ StopTo(p, "send")
    /\ StopStays /\ UNCHANGED <<status, stopsSignal, listening, view>>

(* stopsSignal is closed before p sends, or while p is blocked sending.    *)
SendPanics(p) == stop[p] = "send" /\ stopsSignal = "closed" /\ End("panicked")

(* The registrar receives what p sends, in the loop of Register.           *)
SendToRegistrar(p) ==
    /\ stop[p] = "send"
    /\ stopsSignal = "open"
    /\ registrar = "watch"
    /\ registrar' = "delete"
    /\ StopTo(p, "sent")
    /\ UNCHANGED <<ends, main, updater, fields, updates, etcd>>

(* Or the updater does, and calls Stop.                                    *)
SendToUpdater(p) ==
    /\ stop[p] = "send"
    /\ stopsSignal = "open"
    /\ updater = "select"
    /\ UpdaterTo("stop")
    /\ stop' = [stop EXCEPT ![p] = "sent", !["updater"] = "enter"]
    /\ UNCHANGED <<fields, updates, etcd>>

(* Fault variant of StopFinishes: the mutex is not released.               *)
StopFinishesLocked(p) ==
    /\ stop[p] = "sent"
    /\ status' = FALSE
    /\ view' = FALSE
    /\ StopTo(p, "out")
    /\ StopStays /\ UNCHANGED <<mu, stopsSignal, listening>>

(* The rest of Stop.                                                       *)
StopFinishes(p) ==
    /\ stop[p] = "sent"
    /\ status' = FALSE
    /\ view' = FALSE
    /\ mu' = None
    /\ StopTo(p, "out")
    /\ StopStays /\ UNCHANGED <<stopsSignal, listening>>

-----------------------------------------------------------------------------
(* The updater.                                                            *)

(* The endpoints change; ListServicePeers answers.                         *)
Update ==
    /\ updater = "select"
    /\ updates < MaxUpdates
    /\ updates' = updates + 1
    /\ UpdaterTo("rebuild")
    /\ UNCHANGED <<stop, fields, etcd>>

Reconstruct ==
    /\ updater = "rebuild"
    /\ mu = None
    /\ view' = TRUE
    /\ UpdaterTo("select")
    /\ UNCHANGED <<stop, mu, status, stopsSignal, listening, updates, etcd>>

(* A closed channel always has a value to receive: the updater calls Stop. *)
ReceiveClosed ==
    /\ updater = "select"
    /\ stopsSignal = "closed"
    /\ UpdaterTo("stop")
    /\ StopTo("updater", "enter")
    /\ UNCHANGED <<fields, updates, etcd>>

UpdaterResumes ==
    /\ updater = "stop"
    /\ stop["updater"] = "out"
    /\ UpdaterTo("select")
    /\ UNCHANGED <<stop, fields, updates, etcd>>

-----------------------------------------------------------------------------
(* The registrar: Register, step by step, and what follows it.             *)

Grant ==
    /\ registrar = "grant"
    /\ leases' = leases \cup {life}
    /\ RegistrarTo("add")
    /\ UNCHANGED <<fields, updates, kept, endpoint>>

(* Fault variants of EtcdAdd: an endpoint that is there is left alone; the *)
(* new one is tied to no lease that ends.                                  *)
EtcdAddIfAbsent ==
    /\ registrar = "add"
    /\ life \in leases
    /\ endpoint' = IF endpoint = None THEN life ELSE endpoint
    /\ RegistrarTo("keep")
    /\ UNCHANGED <<fields, updates, kept, leases>>

EtcdAddUnleased ==
    /\ registrar = "add"
    /\ life \in leases
    /\ endpoint' = life
    /\ leases' = leases \ {life}
    /\ RegistrarTo("keep")
    /\ UNCHANGED <<fields, updates, kept>>

(* etcdAdd writes the endpoint of the address, tied to the lease from now  *)
(* on and to no older one.  The lease must still be valid.                 *)
EtcdAdd ==
    /\ registrar = "add"
    /\ life \in leases
    /\ endpoint' = life
    /\ RegistrarTo("keep")
    /\ UNCHANGED <<fields, updates, kept, leases>>

KeepAlive ==
    /\ registrar = "keep"
    /\ kept' = TRUE
    /\ RegistrarTo("watch")
    /\ UNCHANGED <<fields, updates, leases, endpoint>>

(* No client of etcd: Fatalf.                                              *)
ConnectFails == registrar = "grant" /\ End("fatal")

(* Grant, AddEndpoint or KeepAlive fails: Register returns an error.       *)
RegisterFails ==
    /\ registrar \in {"grant", "add", "keep"}
    /\ RegistrarTo("close")
    /\ UNCHANGED <<fields, updates, etcd>>

(* The keepalive channel is closed.                                        *)
KeepAliveEnds ==
    /\ registrar = "watch"
    /\ kept' = FALSE
    /\ RegistrarTo("delete")
    /\ UNCHANGED <<fields, updates, leases, endpoint>>

(* etcdDel.  If it fails, its error is dropped; the client is not closed,  *)
(* and goes on keeping the lease alive.  (If the library panics on the nil *)
(* option it is given here, that is a Crash.)                              *)
EtcdDel ==
    /\ registrar = "delete"
    /\ endpoint' \in {None, endpoint}
    /\ RegistrarTo("close")
    /\ UNCHANGED <<fields, updates, kept, leases>>

CloseSignal ==
    /\ registrar = "close"
    /\ stopsSignal' = "closed"
    /\ RegistrarTo("closed")
    /\ UNCHANGED <<mu, status, listening, view, updates, etcd>>

(* Fault variant of CloseListener: the listener is left open.              *)
CloseNoListener ==
    /\ registrar = "closed"
    /\ RegistrarTo("done")
    /\ UNCHANGED <<fields, updates, etcd>>

CloseListener ==
    /\ registrar = "closed"
    /\ listening' = FALSE
    /\ RegistrarTo("done")
    /\ UNCHANGED <<mu, status, stopsSignal, view, updates, etcd>>

-----------------------------------------------------------------------------
(* What happens to it.                                                     *)

(* A request is served: Pick, under the mutex, on a nil ring panics.       *)
PickPanics == main = "serve" /\ mu = None /\ ~view /\ End("panicked")

Crash == End("crashed")

(* etcd ends a lease that nobody has kept alive for its 5 s, or that it    *)
(* had no news of, and deletes the endpoint tied to it.                    *)
LeaseEnds(l) ==
    /\ l \in leases
    /\ leases' = leases \ {l}
    /\ endpoint' = IF endpoint = l THEN None ELSE endpoint
    /\ UNCHANGED <<ends, goroutines, fields, updates, kept>>

Neglected(l) == l # life \/ ~kept \/ process # "up"

(* The process is started again: everything is as at first, except etcd.   *)
Restart ==
    /\ process # "up" /\ life < MaxLives
    /\ process' = "up" /\ life' = life + 1
    /\ main' = "start" /\ updater' = "select" /\ registrar' = "none"
    /\ stop' = [p \in Stoppers |-> "out"]
    /\ mu' = None /\ status' = FALSE /\ stopsSignal' = "nil"
    /\ listening' = FALSE /\ view' = TRUE
    /\ updates' = 0
    /\ kept' = FALSE
    /\ UNCHANGED <<leases, endpoint>>

-----------------------------------------------------------------------------
MainStep == Start \/ StartFails \/ ServeFails \/ ServeEnds \/ Exit
StopStep(p) ==
    \/ StopNothing(p)
    \/ StopLocks(p)
    \/ SendPanics(p)
    \/ SendToRegistrar(p)
    \/ SendToUpdater(p)
    \/ StopFinishes(p)
UpdaterStep == Reconstruct \/ ReceiveClosed \/ UpdaterResumes
RegistrarStep ==
    \/ Grant
    \/ EtcdAdd
    \/ KeepAlive
    \/ ConnectFails
    \/ RegisterFails
    \/ EtcdDel
    \/ CloseSignal
    \/ CloseListener

Next ==
    \/ /\ process = "up"
       /\ \/ MainStep
          \/ \E p \in Stoppers : Call(p) \/ StopStep(p)
          \/ UpdaterStep
          \/ Update
          \/ RegistrarStep
          \/ KeepAliveEnds
          \/ PickPanics
          \/ Crash
    \/ \E l \in leases : LeaseEnds(l)
    \/ Restart

Spec == Init /\ [][Next]_vars

(* Goroutines run and etcd answers, and ends neglected leases.  A sender   *)
(* waits in the queue of the channel and of the mutex, which are first     *)
(* come, first served; the select of the updater is random among what is   *)
(* ready.  The client closes the keepalive channel of a lease that ended.  *)
Up(A) == process = "up" /\ A
Fairness ==
    /\ WF_vars(Up(MainStep))
    /\ WF_vars(Up(UpdaterStep))
    /\ WF_vars(Up(RegistrarStep \/ (life \notin leases /\ KeepAliveEnds)))
    /\ \A p \in Stoppers : SF_vars(Up(StopStep(p)))
    /\ \A l \in 1..MaxLives : WF_vars(Neglected(l) /\ LeaseEnds(l))

FairSpec == Spec /\ Fairness

-----------------------------------------------------------------------------
TypeOK ==
    /\ process \in {"up", "exited", "fatal", "panicked", "crashed"}
    /\ life \in 1..MaxLives
    /\ main \in {"start", "failed", "serve", "stop"}
    /\ updater \in {"select", "rebuild", "stop"}
    /\ registrar \in {"none", "grant", "add", "keep", "watch", "delete",
                      "close", "closed", "done"}
    /\ stop \in [Stoppers -> {"out", "enter", "send", "sent"}]
    /\ mu \in Stoppers \cup {None}
    /\ {status, listening, view, kept} \subseteq BOOLEAN
    /\ stopsSignal \in {"nil", "open", "closed"}
    /\ updates \in 0..MaxUpdates
    /\ leases \subseteq 1..life
    /\ endpoint \in 1..life \cup {None}
    /\ main # "failed" =>
          \A p \in Stoppers : mu = p <=> stop[p] \in {"send", "sent"}

(* A restarted server is not deregistered by what its last life left: as   *)
(* long as the lease it watches is valid, the endpoint is its own, and the *)
(* end of an older lease does not take it away.                            *)
RegistrationHolds ==
    process = "up" /\ registrar = "watch" /\ life \in leases => endpoint = life

(* Stop sends with the mutex in its hands, while requests, Start and       *)
(* reconstruct wait for it.  Every Stop returns, or the process ends.      *)
StopReturns ==
    \A p \in Stoppers : (stop[p] # "out") ~> (stop[p] = "out" \/ process # "up")

(* What the comment on the lost keepalive comes to: when the registrar     *)
(* gives up, the server does not go on serving unregistered.               *)
EndsUnregistered == (registrar = "close") ~> (process # "up")

(* However a process ended, whatever of Register, its keepalive and the    *)
(* deletion had been done, peers do not find its endpoint for ever.        *)
DeadEndpointGoes ==
    \A l \in 1..MaxLives :
        (endpoint = l /\ (l # life \/ process # "up")) ~> (endpoint # l)

(* What the comment on the lost keepalive says: the layer above closes the *)
(* channel and so closes the server.  It is closed, not crashed by a panic.*)
NeverPanics == process # "panicked"
=============================================================================
