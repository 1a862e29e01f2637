------------------------------ MODULE CacheData ------------------------------
(***************************************************************************)
(* What the strategies of internal/service/policy have in common: keys,    *)
(* values and their lengths, the budget, and the Entry of                  *)
(* policy/interfaces/strategy.go.  An entry is a record with at least the  *)
(* fields key, value and at, the time of its last Touch; a cache keeps its *)
(* entries in a sequence.                                                  *)
(***************************************************************************)
EXTENDS Naturals, Sequences, SequencesExt

CONSTANTS Keys, Values, None,
          KeyLen,     \* KeyLen[k]: len(key)
          ValueLen,   \* ValueLen[v]: value.Len()
          ListOverhead,   \* what an entry costs besides, in lru and fifo:
                          \* unsafe.Sizeof(kv.UpdateAt)
          LfuOverhead,    \* in lfu: that of UpdateAt, count and index
          MaxBytes,   \* maxBytes, 0 for no limit
          Ttl,        \* the argument of CleanUp
          MaxTime,    \* bound on the clock
          MaxCount    \* bound on the references to an entry, in lfu

ASSUME CacheConstants ==
    /\ None \notin Keys \cup Values
    /\ KeyLen \in [Keys -> Nat]
    /\ ValueLen \in [Values -> Nat]
    /\ {ListOverhead, LfuOverhead, MaxBytes, Ttl, MaxTime, MaxCount} \subseteq Nat
    /\ MaxCount # 0

Overflows(n) == MaxBytes # 0 /\ MaxBytes < n

(* UpdateAt lies more than the ttl before the time t.                      *)
Expired(e, t) == e.at + Ttl < t

KeysOf(s) == {s[i].key : i \in DOMAIN s}

PositionOf(k, s) == CHOOSE i \in DOMAIN s : s[i].key = k

(* The values kept in s, as a function of the keys.                        *)
ContentsOf(s) == [k \in Keys |-> IF k \in KeysOf(s) THEN s[PositionOf(k, s)].value ELSE None]

(* The bytes of the first i entries of s, for each i, every entry with so  *)
(* much for its bookkeeping.                                               *)
BytesUpTo(s, overhead) ==
    LET bytes[i \in 0..Len(s)] ==
            IF i = 0 THEN 0
            ELSE bytes[i - 1] + KeyLen[s[i].key] + ValueLen[s[i].value] + overhead
    IN bytes

(* The bytes of the entries of s.                                          *)
BytesOf(s, overhead) == BytesUpTo(s, overhead)[Len(s)]
=============================================================================
