-------------------------- MODULE MembershipProofs --------------------------
(***************************************************************************)
(* Proofs about Membership, for any set of nodes, any number of changes,   *)
(* and whether or not etcd may fail.                                       *)
(***************************************************************************)
EXTENDS Membership, TLAPS

LEMMA TypeInit == Init => TypeOK
<1> SUFFICES ASSUME Init PROVE TypeOK
    OBVIOUS
<1>1. {lost, up} \subseteq BOOLEAN
    BY Zenon DEF Init
<1>2. past \subseteq SUBSET Nodes
    BY DEF Init
<1>3. QED BY <1>1, <1>2, MembershipConstants DEF Init, TypeOK

(* Every step of etcd, of main and of the updater preserves the types: in  *)
(* particular no more events wait than there were changes, and the         *)
(* updater runs from when main serves.                                     *)
LEMMA TypeNext == TypeOK /\ [Next]_vars => TypeOK'
<1> SUFFICES ASSUME TypeOK, [Next]_vars PROVE TypeOK'
    OBVIOUS
<1> USE MembershipConstants DEF TypeOK
<1>1. CASE Change
    <2>1. PICK n \in Nodes :
              endpoints' = IF n \in endpoints THEN endpoints \ {n} ELSE endpoints \cup {n}
        BY <1>1 DEF Change
    <2>2. endpoints' \subseteq Nodes
        BY <2>1
    <2>3. events' \in 0..changes' /\ changes' \in 0..MaxChanges
        BY <1>1 DEF Change
    <2>4. lost' \in BOOLEAN
        BY <1>1, Zenon DEF Change
    <2>5. QED BY <1>1, <2>2, <2>3, <2>4 DEF Change
<1>2. CASE Watch \/ WatchEnds
    BY <1>2 DEF Watch, WatchEnds
<1>3. CASE MainLists
    BY <1>3 DEF MainLists
<1>4. CASE MainListFails
    BY <1>4 DEF MainListFails
<1>5. CASE SetPeers
    BY <1>5 DEF SetPeers
<1>6. CASE Notify
    BY <1>6 DEF Notify
<1>7. CASE UpdaterLists
    BY <1>7 DEF UpdaterLists
<1>8. CASE UpdaterListFails
    BY <1>8 DEF UpdaterListFails
<1>9. CASE Rebuild
    BY <1>9 DEF Rebuild
<1>10. CASE Pick
    BY <1>10 DEF Pick
<1>11. CASE UNCHANGED vars
    BY <1>11 DEF vars
<1>12. QED
    BY <1>1, <1>2, <1>3, <1>4, <1>5, <1>6, <1>7, <1>8, <1>9, <1>10, <1>11 DEF Next

(* Type correctness.                                                       *)
THEOREM TypeCorrect == Spec => []TypeOK
BY TypeInit, TypeNext, PTL DEF Spec

-----------------------------------------------------------------------------
(* What is listed but not yet on the ring was a state of the endpoints.    *)
ListedIsSnapshot ==
    /\ endpoints \in past
    /\ main = "set" \/ updater = "rebuild" => listed \in past

SnapshotInv == TypeOK /\ ListedIsSnapshot /\ RingIsSnapshot

LEMMA SnapshotInit == Init => SnapshotInv
<1>1. Init => ListedIsSnapshot /\ RingIsSnapshot
    BY DEF Init, ListedIsSnapshot, RingIsSnapshot
<1>2. QED BY <1>1, TypeInit DEF SnapshotInv

LEMMA SnapshotNext == SnapshotInv /\ [Next]_vars => SnapshotInv'
<1> SUFFICES ASSUME SnapshotInv, [Next]_vars PROVE SnapshotInv'
    OBVIOUS
<1>0. TypeOK /\ TypeOK'
    BY TypeNext DEF SnapshotInv
<1> USE <1>0 DEF SnapshotInv, TypeOK, ListedIsSnapshot, RingIsSnapshot
<1>1. CASE Change
    BY <1>1 DEF Change
<1>2. CASE Watch \/ WatchEnds
    BY <1>2 DEF Watch, WatchEnds
<1>3. CASE MainLists \/ MainListFails
    BY <1>3 DEF MainLists, MainListFails
<1>4. CASE SetPeers
    <2>1. ring' \in {{Self}, listed} /\ listed \in past
        BY <1>4 DEF SetPeers
    <2>2. QED BY <1>4, <2>1 DEF SetPeers
<1>5. CASE Notify \/ UpdaterLists \/ UpdaterListFails
    BY <1>5 DEF Notify, UpdaterLists, UpdaterListFails
<1>6. CASE Rebuild
    BY <1>6 DEF Rebuild
<1>7. CASE Pick
    BY <1>7 DEF Pick
<1>8. CASE UNCHANGED vars
    BY <1>8 DEF vars
<1>9. QED
    BY <1>1, <1>2, <1>3, <1>4, <1>5, <1>6, <1>7, <1>8 DEF Next

(* Whatever fails and however the endpoints change while the updater       *)
(* lists: the ring is one state that they had, or this server alone.       *)
THEOREM RingIsAlwaysSnapshot == Spec => []RingIsSnapshot
<1>1. SnapshotInv => RingIsSnapshot
    BY DEF SnapshotInv
<1>2. QED BY SnapshotInit, SnapshotNext, <1>1, PTL DEF Spec

-----------------------------------------------------------------------------
(* Of a server that is behind, whatever main or the updater is doing: an   *)
(* event waits, or a change was lost, or what is listed and about to go on *)
(* the ring is current.                                                    *)
Pending == events > 0 \/ lost

BehindIsPending ==
    /\ main = "set" \/ updater = "rebuild" => Pending \/ listed = endpoints
    /\ updater = "select" => Pending \/ Current

PendingInv == TypeOK /\ BehindIsPending

LEMMA PendingInit == Init => PendingInv
<1>1. Init => BehindIsPending
    BY DEF Init, BehindIsPending
<1>2. QED BY <1>1, TypeInit DEF PendingInv

LEMMA PendingNext == PendingInv /\ [Next]_vars => PendingInv'
<1> SUFFICES ASSUME PendingInv, [Next]_vars PROVE PendingInv'
    OBVIOUS
<1>0. TypeOK /\ TypeOK'
    BY TypeNext DEF PendingInv
<1> USE <1>0 DEF PendingInv, TypeOK, BehindIsPending, Pending, Current
<1>1. CASE Change
    <2>1. watch = "on" => events' > 0
        BY <1>1 DEF Change
    <2>2. watch # "on" /\ main # "list" => lost'
        BY <1>1, Zenon DEF Change
    <2>3. QED BY <1>1, <2>1, <2>2 DEF Change
<1>2. CASE Watch \/ WatchEnds
    BY <1>2 DEF Watch, WatchEnds
<1>3. CASE MainLists \/ MainListFails
    BY <1>3 DEF MainLists, MainListFails
<1>4. CASE SetPeers
    BY <1>4 DEF SetPeers
<1>5. CASE Notify \/ UpdaterLists \/ UpdaterListFails
    BY <1>5 DEF Notify, UpdaterLists, UpdaterListFails
<1>6. CASE Rebuild
    BY <1>6 DEF Rebuild
<1>7. CASE Pick
    BY <1>7 DEF Pick
<1>8. CASE UNCHANGED vars
    BY <1>8 DEF vars
<1>9. QED
    BY <1>1, <1>2, <1>3, <1>4, <1>5, <1>6, <1>7, <1>8 DEF Next

(* A server falls behind for good in no other way than by missing a change *)
(* without a watch, or by a failing List that uses up an event.            *)
THEOREM BehindIsAlwaysNotified == Spec => []BehindIsNotified
<1>1. PendingInv => BehindIsNotified
    BY DEF PendingInv, TypeOK, BehindIsPending, BehindIsNotified, Pending
<1>2. QED BY PendingInit, PendingNext, <1>1, PTL DEF Spec
=============================================================================
