----------------------------- MODULE Membership -----------------------------
(***************************************************************************)
(* How one server follows the set of service endpoints in etcd:            *)
(* discovery3/discovery.go (ListServicePeers, DynamicServices), the peers  *)
(* part of internal/service/grpc_picker.go (SetPeers, reconstruct, Pick)   *)
(* and the start-up order of cmd/grpc/main.go.                             *)
(*                                                                         *)
(* The ring is known by its set of nodes: module ConsistentHash shows that *)
(* nothing else matters.  ring and clients are only ever replaced together *)
(* under the server's mutex, so one variable stands for both.              *)
(***************************************************************************)
EXTENDS Naturals, FiniteSets

CONSTANTS Nodes,         \* the addresses of the service
          Self,          \* the address of this server
          MaxChanges,    \* bound on the changes of the endpoints
          EtcdMayFail    \* whether etcd may fail to answer a List, or end the watch

ASSUME MembershipConstants ==
    /\ Self \in Nodes
    /\ MaxChanges \in Nat
    /\ EtcdMayFail \in BOOLEAN

VARIABLES endpoints,  \* the endpoints registered in etcd
          changes,    \* how often they changed
          watch,      \* the watch of DynamicServices: "none", "on", "over"
          events,     \* events of the watch not yet sent to s.update
          main,       \* main: "list", "set", "serve"
          updater,    \* goroutine of SetPeers: "none", "select", "list", "rebuild"
          listed,     \* what main, then the updater, got from ListServicePeers
          ring,       \* the nodes of s.consHash, once SetPeers has built it
          past,       \* history: the values endpoints had
          lost,       \* history: whether a change was missed, before or after
                      \* the watch, or its event used up by a List that failed
          up          \* FALSE once the process has panicked

vars == <<endpoints, changes, watch, events, main, updater, listed, ring, past,
          lost, up>>

(* The lease of an earlier life of this server may not have ended yet.     *)
Init ==
    /\ endpoints \in SUBSET Nodes
    /\ changes = 0
    /\ watch = "none"
    /\ events = 0
    /\ main = "list"
    /\ updater = "none"
    /\ listed = {}
    /\ ring = {}
    /\ past = {endpoints}
    /\ lost = FALSE
    /\ up = TRUE

-----------------------------------------------------------------------------
(* etcd.                                                                   *)

(* A node registers or its lease ends; Self registers once it serves, its  *)
(* last lease may end before.                                              *)
Change ==
    /\ changes < MaxChanges
    /\ changes' = changes + 1
    /\ \E n \in Nodes :
          /\ n = Self /\ n \notin endpoints => main = "serve"
          /\ endpoints' = IF n \in endpoints THEN endpoints \ {n} ELSE endpoints \cup {n}
    /\ events' = IF watch = "on" THEN events + 1 ELSE events
    /\ past' = past \cup {endpoints'}
    /\ lost' = (lost \/ (watch # "on" /\ main # "list"))
    /\ UNCHANGED <<watch, main, updater, listed, ring, up>>

(* cli.Watch: from now on every change is an event.                        *)
Watch ==
    /\ up
    /\ watch = "none"
    /\ watch' = "on"
    /\ UNCHANGED <<endpoints, changes, events, main, updater, listed, ring, past, lost, up>>

(* There is no client, or etcd closes the channel of the watch: the        *)
(* goroutine sends what it has received, and returns.                      *)
WatchEnds ==
    /\ up
    /\ EtcdMayFail
    /\ watch # "over"
    /\ watch' = "over"
    /\ UNCHANGED <<endpoints, changes, events, main, updater, listed, ring, past, lost, up>>

-----------------------------------------------------------------------------
(* main, which has started DynamicServices as a goroutine.                 *)

MainLists ==
    /\ up
    /\ main = "list"
    /\ listed' = endpoints
    /\ main' = "set"
    /\ UNCHANGED <<endpoints, changes, watch, events, updater, ring, past, lost, up>>

(* The fallback list is the literal "serviceAddr": SetPeers panics on it.  *)
MainListFails ==
    /\ up
    /\ EtcdMayFail
    /\ main = "list"
    /\ up' = FALSE
    /\ UNCHANGED <<endpoints, changes, watch, events, main, updater, listed, ring, past, lost>>

(* Fault variant of SetPeers: its goroutine is not started.                *)
SetPeersAlone ==
    /\ up
    /\ main = "set"
    /\ ring' = IF listed = {} THEN {Self} ELSE listed
    /\ main' = "serve"
    /\ UNCHANGED <<endpoints, changes, watch, events, updater, listed, past, lost, up>>

(* SetPeers: an empty list stands for this server alone.                   *)
SetPeers ==
    /\ up
    /\ main = "set"
    /\ ring' = IF listed = {} THEN {Self} ELSE listed
    /\ main' = "serve"
    /\ updater' = "select"
    /\ UNCHANGED <<endpoints, changes, watch, events, listed, past, lost, up>>

-----------------------------------------------------------------------------
(* The goroutine of SetPeers.                                              *)

(* update <- true meets <-s.update: the watcher sends one event after the  *)
(* other, each when the updater is back in its select.                     *)
Notify ==
    /\ up
    /\ updater = "select"
    /\ events > 0
    /\ events' = events - 1
    /\ updater' = "list"
    /\ UNCHANGED <<endpoints, changes, watch, main, listed, ring, past, lost, up>>

UpdaterLists ==
    /\ up
    /\ updater = "list"
    /\ listed' = endpoints
    /\ updater' = "rebuild"
    /\ lost' = FALSE
    /\ UNCHANGED <<endpoints, changes, watch, events, main, ring, past, up>>

(* reconstruct returns: the current view stays, and nothing tries again.   *)
UpdaterListFails ==
    /\ up
    /\ EtcdMayFail
    /\ updater = "list"
    /\ updater' = "select"
    /\ lost' = TRUE
    /\ UNCHANGED <<endpoints, changes, watch, events, main, listed, ring, past, up>>

(* Fault variants of Rebuild: the nodes listed are added to the old ring;  *)
(* the events that came while it listed are taken as served.               *)
RebuildAdding ==
    /\ up
    /\ updater = "rebuild"
    /\ ring' = ring \cup listed
    /\ updater' = "select"
    /\ UNCHANGED <<endpoints, changes, watch, events, main, listed, past, lost, up>>

RebuildDroppingEvents ==
    /\ up
    /\ updater = "rebuild"
    /\ ring' = listed
    /\ updater' = "select"
    /\ events' = 0
    /\ UNCHANGED <<endpoints, changes, watch, main, listed, past, lost, up>>

(* The rest of reconstruct: a new ring of exactly the nodes listed, be     *)
(* they none.                                                              *)
Rebuild ==
    /\ up
    /\ updater = "rebuild"
    /\ ring' = listed
    /\ updater' = "select"
    /\ UNCHANGED <<endpoints, changes, watch, events, main, listed, past, lost, up>>

(* A request makes the group Pick a node: an empty ring panics.            *)
Pick ==
    /\ up
    /\ main = "serve"
    /\ ring = {}
    /\ up' = FALSE
    /\ UNCHANGED <<endpoints, changes, watch, events, main, updater, listed, ring, past, lost>>

Next ==
    \/ Change
    \/ Watch
    \/ WatchEnds
    \/ MainLists
    \/ MainListFails
    \/ SetPeers
    \/ Notify
    \/ UpdaterLists
    \/ UpdaterListFails
    \/ Rebuild
    \/ Pick

Spec == Init /\ [][Next]_vars

(* The goroutines run, and etcd answers a List, if only with an error.     *)
(* Nothing obliges the endpoints to change or a request to come.           *)
Fairness ==
    /\ WF_vars(Watch)
    /\ WF_vars(MainLists \/ MainListFails \/ SetPeers)
    /\ WF_vars(Notify \/ UpdaterLists \/ UpdaterListFails \/ Rebuild)

FairSpec == Spec /\ Fairness

-----------------------------------------------------------------------------
TypeOK ==
    /\ endpoints \subseteq Nodes
    /\ changes \in 0..MaxChanges
    /\ watch \in {"none", "on", "over"}
    /\ events \in 0..changes
    /\ main \in {"list", "set", "serve"}
    /\ updater \in {"none", "select", "list", "rebuild"}
    /\ (updater = "none") = (main # "serve")
    /\ listed \subseteq Nodes
    /\ ring \subseteq Nodes
    /\ past \subseteq SUBSET Nodes
    /\ {lost, up} \subseteq BOOLEAN

(* Whatever fails, a ring is one state of the endpoints, never a mixture   *)
(* of an older and a newer one (or it is this server alone).  So two       *)
(* servers disagree on an owner only while one of them is behind.          *)
RingIsSnapshot == main = "serve" => ring \in past \cup {{Self}}

(* Alone stands for an empty list in SetPeers.                             *)
Current == ring = endpoints \/ (endpoints = {} /\ ring = {Self})

(* A change missed while there is no watch and an event used up by a       *)
(* failing List are the only ways to fall behind for good: a server that   *)
(* is behind otherwise has an event waiting, or is about to list again.    *)
BehindIsNotified ==
    updater = "select" /\ events = 0 /\ ~lost => Current

(* What the comment in DynamicServices says: whenever an address is added  *)
(* or removed, the endpoint manager is told to rebuild the hash mapping.   *)
(* So the ring follows the endpoints as long as the process is up.         *)
RingFollows ==
    \A E \in SUBSET Nodes :
        (endpoints = E) ~> (endpoints # E \/ Current \/ ~up)

(* It does, unless a change was lost in one of the two ways.               *)
RingFollowsUnlessLost ==
    \A E \in SUBSET Nodes :
        (endpoints = E) ~> (endpoints # E \/ Current \/ ~up \/ lost)
=============================================================================
