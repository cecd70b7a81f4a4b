------------------------------ MODULE LinkMap ------------------------------
(***************************************************************************)
(* What a service for short URLs promises: a key, once given to a picture, *)
(* stands for it for ever, and who asks for a key that was given is sent   *)
(* to its picture or gets no answer at all.                                *)
(***************************************************************************)
CONSTANTS Keys, Pics, Visitors, Free, Nothing
VARIABLES links,  \* key -> the picture it stands for, or Free
          asks,   \* visitor -> the key he asks for, or Nothing
          shown   \* visitor -> where he was sent last, or Nothing

vars == <<links, asks, shown>>

Init ==
    /\ links = [k \in Keys |-> Free]
    /\ asks = [v \in Visitors |-> Nothing]
    /\ shown = [v \in Visitors |-> Nothing]

Give(k, p) == links[k] = Free /\ links' = [links EXCEPT ![k] = p] /\ UNCHANGED <<asks, shown>>

Ask(v, k) ==
    /\ asks[v] = Nothing /\ links[k] # Free
    /\ asks' = [asks EXCEPT ![v] = k]
    /\ UNCHANGED <<links, shown>>

Show(v) ==
    /\ asks[v] # Nothing
    /\ shown' = [shown EXCEPT ![v] = links[asks[v]]]
    /\ asks' = [asks EXCEPT ![v] = Nothing]
    /\ UNCHANGED links

HangUp == asks' = [v \in Visitors |-> Nothing] /\ UNCHANGED <<links, shown>>

Next == \/ \E k \in Keys, p \in Pics : Give(k, p)
        \/ \E v \in Visitors : Show(v) \/ \E k \in Keys : Ask(v, k)
        \/ HangUp

Spec == Init /\ [][Next]_vars
=============================================================================
