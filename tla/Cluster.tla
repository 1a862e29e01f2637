------------------------------ MODULE Cluster ------------------------------
(***************************************************************************)
(* Several nodes that fetch from each other: the Fetch and the handlers    *)
(* that module Group leaves open.  Either all nodes run cmd/grpc           *)
(* (Server.Pick and Server.Get of grpc_picker.go, grpc_fetcher.go,         *)
(* Discovery) or all run cmd/http (http_pick.go, http_fetcher.go,          *)
(* http_helper.go).                                                        *)
(*                                                                         *)
(* A request made by a client and one made by a peer are the same call of  *)
(* Group.Get; child[r] is the one that the Fetch of r made at a peer.  A   *)
(* call that reaches its peer after its caller has given it up is, to that *)
(* peer, a request of a client.                                            *)
(*                                                                         *)
(* A node may crash (its requests end, its connections are reset) or hang  *)
(* (its requests do not go on, its connections stay).  The rings of the    *)
(* grpc nodes may differ, as module Membership shows, but do not change    *)
(* here; the http nodes are all given the same list of peers.              *)
(***************************************************************************)
EXTENDS Group

CONSTANTS Transports,   \* the programs considered: "grpc" (cmd/grpc), "http" (cmd/http)
          MayFail,      \* the nodes that may crash or hang
          Unused(_)     \* Unused(S): the requests a call may be, of those not
                        \* made yet: all of S, or one that stands for the others

ASSUME ClusterConstants ==
    /\ Transports \subseteq {"grpc", "http"}
    /\ MayFail \subseteq Nodes
    /\ \A S \in SUBSET Requests : Unused(S) \subseteq S

VARIABLES transport,   \* "grpc" or "http"
          owner,       \* owner[n][name]: what GetTruthNode says at node n
          child,       \* child[r]: the request that r made of a peer
          node         \* node[n]: "up", "crashed" or "hung"

clusterVars == <<transport, owner, child, node>>
everyVar == <<allVars, clusterVars>>

(* The owners the nodes may have been told, at the start, for good: by     *)
(* UpdatePeers the same, of one list; by SetPeers of what each had listed. *)
Rings(t) ==
    {o \in [Nodes -> [Names -> Nodes]] :
        t = "http" => \A n, p \in Nodes : o[n] = o[p]}

CInit ==
    /\ GInit
    /\ transport \in Transports
    /\ owner \in Rings(transport)
    /\ child = [r \in Requests |-> None]
    /\ node = [n \in Nodes |-> "up"]

At(r) == NodeOf(key[r])
Owner(r) == owner[At(r)][NameOf(key[r])]

(* The goroutine of r gets to run.                                         *)
Alive(r) == key[r] # None /\ node[At(r)] = "up"

-----------------------------------------------------------------------------
(* Get of node n is called with a name.                                    *)
Enters(r, n, name) ==
    /\ r \in Unused({q \in Requests : pc[q] = "idle"})
    /\ node[n] = "up"
    /\ GetHit(r, <<n, name>>) \/ GetMiss(r, <<n, name>>)

(* A client calls Server.Get, or the http api; so does its next attempt,   *)
(* after an error.  The empty key is refused.                              *)
ClientGet(r) ==
    /\ GetRefused(r) \/ \E n \in Nodes, name \in Names : Enters(r, n, name)
    /\ UNCHANGED clusterVars

(* Fault variant of PickOwner: a node asks itself like any other owner.    *)
PickAnyOwner(r) ==
    /\ Running(r, "pick")
    /\ at' = [at EXCEPT ![r] = "fetch"]
    /\ UNCHANGED <<vars, db, mainCache, read, over>>

(* Server.Pick and HTTPPool.Pick.                                          *)
PickOwner(r) ==
    /\ Running(r, "pick")
    /\ at' = [at EXCEPT ![r] = IF Owner(r) = At(r) THEN "retrieve" ELSE "fetch"]
    /\ UNCHANGED <<vars, db, mainCache, read, over>>

(* Over grpc, whatever Pick chose, the service is dialled: any node that   *)
(* is up may be the one connected, the caller included.  Over http it is   *)
(* the owner, and the key is escaped as a query but read as a path.        *)
Peers(r) == IF transport = "grpc" THEN Nodes ELSE {Owner(r)}
Asked(r) == IF transport = "grpc" THEN NameOf(key[r]) ELSE Wire[NameOf(key[r])]

(* Fetch: the call reaches a peer, where it becomes the request h.         *)
Call(r) ==
    /\ Running(r, "fetch")
    /\ child[r] = None
    /\ \E h \in Requests, p \in Peers(r) :
          /\ Enters(h, p, Asked(r))
          /\ child' = [child EXCEPT ![r] = h]
    /\ UNCHANGED <<transport, owner, node>>

(* The handler of the request r made of a peer has replied with a value:   *)
(* Get returned without an error.                                          *)
Replied(r) ==
    /\ child[r] # None
    /\ pc[child[r]] = "returned"
    /\ ret[child[r]].err = Nil

(* Fault variant of Answered: what the peer returns is cached here too.    *)
AnsweredCaching(r) ==
    /\ Running(r, "fetch")
    /\ Replied(r)
    /\ FnReturns(r, Found(ret[child[r]].value))
    /\ Put(key[r], ret[child[r]].value)
    /\ UNCHANGED <<db, at, read, over, clusterVars>>

(* Fetch returns the value of the reply.                                   *)
Answered(r) ==
    /\ Running(r, "fetch")
    /\ Replied(r)
    /\ FnReturns(r, Found(ret[child[r]].value))
    /\ UNCHANGED <<groupVars, clusterVars>>

(* Fault variant of CertainToFail: no timeout.                             *)
CertainToFailUntimed(r) ==
    \/ child[r] = None /\ \A h \in Requests : pc[h] # "idle"
    \/ /\ child[r] # None
       /\ \/ pc[child[r]] \in {"returned", "panicked"}
          \/ node[At(child[r])] = "crashed"

(* Whatever the network does, Fetch certainly fails if the peer answers    *)
(* with an error, panics or is down; over grpc, after a second.  (Requests *)
(* being a finite set, a call may also find none left at the peer.)        *)
CertainToFail(r) ==
    \/ transport = "grpc"
    \/ child[r] = None /\ (node[Owner(r)] = "crashed" \/ \A h \in Requests : pc[h] # "idle")
    \/ /\ child[r] # None
       /\ \/ pc[child[r]] \in {"returned", "panicked"}
          \/ node[At(child[r])] = "crashed"

(* net/http recovers a panic of a handler; a grpc server crashes.          *)
HandlerPanics(r) == transport = "http" /\ RetrievePanics(r)

LocalStep(r) ==
    /\ Alive(r)
    /\ \/ FlightStep(r)
       \/ PickOwner(r)
       \/ Retrieve(r)
       \/ RetrieveFails(r)
       \/ HandlerPanics(r)
       \/ Store(r)
    /\ UNCHANGED clusterVars

PeerStep(r) ==
    /\ Alive(r)
    /\ Call(r) \/ Answered(r) \/ (FetchFails(r) /\ UNCHANGED clusterVars)

-----------------------------------------------------------------------------
Fault(n) ==
    /\ node[n] = "up"
    /\ node' \in {[node EXCEPT ![n] = how] : how \in {"crashed", "hung"}}
    /\ UNCHANGED <<allVars, transport, owner, child>>

(* The clocks and cleaners of all nodes, whatever became of them: nobody   *)
(* tells an expired entry of the flight cache from none.                   *)
CacheStep ==
    /\ Sweep \/ \E k \in Keys : Expire(k)
    /\ UNCHANGED <<groupVars, clusterVars>>

RowStep ==
    /\ \E n \in Names : CreateStudent(n) \/ Update(n)
    /\ UNCHANGED clusterVars

CNext ==
    \/ \E r \in Requests : ClientGet(r) \/ LocalStep(r) \/ PeerStep(r)
    \/ \E n \in MayFail : Fault(n)
    \/ CacheStep
    \/ RowStep

CSpec == CInit /\ [][CNext]_everyVar

(* Goroutines that are alive run, the database answers, and a Fetch ends   *)
(* when its peer has answered or when it is certain to fail.               *)
CFairness ==
    \A r \in Requests :
        WF_everyVar(\/ LocalStep(r)
                    \/ PeerStep(r) /\ (at'[r] = "retrieve" => CertainToFail(r)))

CFairSpec == CSpec /\ CFairness

-----------------------------------------------------------------------------
CTypeOK ==
    /\ GTypeOK
    /\ transport \in Transports
    /\ owner \in [Nodes -> [Names -> Nodes]]
    /\ child \in [Requests -> Requests \cup {None}]
    /\ node \in [Nodes -> {"up", "crashed", "hung"}]

(* Peers that are the nodes themselves do no more than Group allows its    *)
(* peers: what a Fetch returns is a version the row asked for has had, or  *)
(* nothing, through any chain of peers, caches and shared flights.         *)
KeepsGroup == GSpec

(* What r cannot go on without.                                            *)
WaitsFor(r) ==
    CASE pc[r] = "wait" -> {joined[r]}
      [] Running(r, "fetch") -> {child[r]} \ {None}
      [] OTHER -> {}

(* Over http, where no call has a timeout, no requests wait for each other *)
(* in a circle of joined flights and calls between nodes.                  *)
NoDistributedDeadlock ==
    transport = "http" =>
        ~\E S \in (SUBSET Requests) \ {{}} : \A r \in S : WaitsFor(r) \cap S # {}

(* A version is returned, by whatever node, only after some node read it   *)
(* from the row asked for, and no value only after a run for the name      *)
(* failed or found no row: a Fetch given up or refused makes no answer.    *)
SameRow(c, r) == NameOf(key[c]) \in {NameOf(key[r]), Wire[NameOf(key[r])]}

AnswerHasSource ==
    \A r \in Requests : pc[r] = "returned" /\ key[r] # None /\ ret[r].err = Nil =>
        \E c \in Requests : key[c] # None /\ SameRow(c, r) /\
            \/ read[c] = ret[r].value
            \/ ret[r].value = Empty /\ call[c] # None /\ call[c].err # Nil

(* What the comment at the head of grpc_picker.go says: consistent hashing *)
(* decides which host is asked.  A Fetch calls the node that owns the key. *)
FetchReachesOwner ==
    \A r \in Requests : child[r] # None => At(child[r]) = Owner(r)

(* Every request returns while its node is up: over grpc, whatever becomes *)
(* of the other nodes and whatever circle its call closes; over http,      *)
(* unless a node hangs or a handler panicked.  (Requests are finitely many *)
(* and none is made twice: in the end all have returned.)                  *)
GetReturns ==
    <>[]\A r \in Requests :
        \/ pc[r] \in {"idle", "returned"}
        \/ ~Alive(r)
        \/ transport = "http" /\
              \/ \E n \in Nodes : node[n] = "hung"
              \/ \E c \in Requests : pc[c] = "panicked"
=============================================================================
