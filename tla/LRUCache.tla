------------------------------ MODULE LRUCache ------------------------------
(***************************************************************************)
(* What the first-level cache promises: it holds at most Capacity keys, a  *)
(* key it drops to make room is the one that nobody has used for the       *)
(* longest time, and whatever else leaves it was removed on purpose.       *)
(***************************************************************************)
EXTENDS Naturals, FiniteSets

CONSTANTS Keys, NoKey, Capacity
VARIABLES cached,  \* keys in the cache
          since,   \* <<a, b>>: a was last used after b
          used     \* the key of the latest hit or put

vars == <<cached, since, used>>

Init == cached = {} /\ since = {} /\ used = NoKey

UsedNow(k, K) ==
    {p \in since : p[1] \in K \ {k} /\ p[2] \in K \ {k}} \cup {<<k, x>> : x \in K \ {k}}
Among(K) == {p \in since : p[1] \in K /\ p[2] \in K}

Touch(k) ==
    k \in cached /\ since' = UsedNow(k, cached) /\ used' = k /\ UNCHANGED cached

Put(k) ==
    /\ Cardinality(cached \cup {k}) <= Capacity
    /\ cached' = cached \cup {k}
    /\ since' = UsedNow(k, cached')
    /\ used' = k

(* old is the key that everybody else was used after *)
PutInsteadOf(k, old) ==
    /\ k \notin cached /\ Cardinality(cached) = Capacity
    /\ old \in cached /\ \A x \in cached \ {old} : <<x, old>> \in since
    /\ cached' = (cached \cup {k}) \ {old}
    /\ since' = UsedNow(k, cached')
    /\ used' = k

Remove(K) ==
    cached' = cached \ K /\ since' = Among(cached') /\ UNCHANGED used

Restart == cached' = {} /\ since' = {} /\ used' = NoKey

Next == \/ \E k \in Keys : Touch(k) \/ Put(k) \/ \E old \in Keys : PutInsteadOf(k, old)
        \/ \E K \in SUBSET Keys : Remove(K)
        \/ Restart

Spec == Init /\ [][Next]_vars
=============================================================================
