---------------------------- MODULE PriorityQueue ----------------------------
(***************************************************************************)
(* internal/service/policy/lfu/priorityqueue.go, and the functions of the  *)
(* Go library's container/heap that policy/lfu/lfu.go calls on it.  A      *)
(* queue is a sequence of records with at least the fields count, at (the  *)
(* entry's UpdateAt) and index; positions are from 1 here and from 0 in    *)
(* the index field, as in the code.                                        *)
(***************************************************************************)
EXTENDS Naturals, Sequences, SequencesExt

(* Fewer references first, then the older touch.                           *)
Less(a, b) == a.count < b.count \/ (a.count = b.count /\ a.at < b.at)

(* Fault variant of Swap: the index fields stay behind.                    *)
SwapWithoutIndex(q, i, j) == [q EXCEPT ![i] = q[j], ![j] = q[i]]

Swap(q, i, j) ==
    [q EXCEPT ![i] = [q[j] EXCEPT !.index = i - 1],
              ![j] = [q[i] EXCEPT !.index = j - 1]]

(* Drop the last element and number the rest again.                        *)
Pop(q) == [i \in 1..(Len(q) - 1) |-> [q[i] EXCEPT !.index = i - 1]]

Push(q, e) == Append(q, [e EXCEPT !.index = Len(q)])

-----------------------------------------------------------------------------
(* container/heap.                                                         *)

Parent(i) == i \div 2

(* One turn of the loop of up: an element that is less than its parent     *)
(* changes places with it.                                                 *)
Rise(s) ==
    IF s.at > 1 /\ Less(s.q[s.at], s.q[Parent(s.at)])
    THEN [q |-> Swap(s.q, s.at, Parent(s.at)), at |-> Parent(s.at)]
    ELSE s

(* The loop takes no more turns than there are elements.                   *)
Up(q, j) ==
    LET turn[i \in 0..Len(q)] ==
            IF i = 0 THEN [q |-> q, at |-> j] ELSE Rise(turn[i - 1])
    IN turn[Len(q)].q

(* The lesser child of i among the first n elements.                       *)
LesserChild(q, i, n) ==
    IF 2 * i < n /\ Less(q[2 * i + 1], q[2 * i]) THEN 2 * i + 1 ELSE 2 * i

(* Fault variant of SinksBelow: one child too few is considered.           *)
SinksBelowShort(q, i, n) == 2 * i < n /\ Less(q[LesserChild(q, i, n)], q[i])

SinksBelow(q, i, n) == 2 * i <= n /\ Less(q[LesserChild(q, i, n)], q[i])

(* One turn of the loop of down.                                           *)
Sink(s, n) ==
    IF SinksBelow(s.q, s.at, n)
    THEN [q |-> Swap(s.q, s.at, LesserChild(s.q, s.at, n)),
          at |-> LesserChild(s.q, s.at, n)]
    ELSE s

Down(q, j, n) ==
    LET turn[i \in 0..Len(q)] ==
            IF i = 0 THEN [q |-> q, at |-> j] ELSE Sink(turn[i - 1], n)
    IN turn[Len(q)].q

HeapPush(q, e) == Up(Push(q, e), Len(q) + 1)

HeapPop(q) == Pop(Down(Swap(q, 1, Len(q)), 1, Len(q) - 1))

(* Fault variant of HeapFix: an element only ever rises.                   *)
HeapFixUpOnly(q, i) == Up(q, i)

HeapFix(q, i) == IF SinksBelow(q, i, Len(q)) THEN Down(q, i, Len(q)) ELSE Up(q, i)

HeapRemove(q, i) ==
    LET n == Len(q)
        s == Swap(q, i, n)
    IN CASE i = n -> Pop(q)
         [] i # n /\ SinksBelow(s, i, n - 1) -> Pop(Down(s, i, n - 1))
         [] OTHER -> Pop(Up(s, i))
=============================================================================
