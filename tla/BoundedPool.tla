----------------------------- MODULE BoundedPool -----------------------------
(***************************************************************************)
(* What a connection pool promises its callers: never more than Max of     *)
(* them use a connection, and a call that is let go empty-handed found the *)
(* pool exhausted (only a call with a timeout gives up on that) or was the *)
(* victim of a connection that could not be opened.                        *)
(***************************************************************************)
EXTENDS Naturals

CONSTANTS Threads, Max,
          Impatient,  \* TRUE: a call may give up on an exhausted pool
          ServerFails \* TRUE: opening a connection can fail
VARIABLES client,  \* per thread: outside, asking for a connection or using one
          inUse    \* connections in use

vars == <<client, inUse>>

Move(t, from, to) == client[t] = from /\ client' = [client EXCEPT ![t] = to]

Init == client = [t \in Threads |-> "outside"] /\ inUse = 0

Ask(t) == Move(t, "outside", "asking") /\ UNCHANGED inUse
Grant(t) == inUse < Max /\ Move(t, "asking", "using") /\ inUse' = inUse + 1
GiveUp(t) ==
    Impatient /\ inUse = Max /\ Move(t, "asking", "outside") /\ UNCHANGED inUse
Fail(t) ==
    ServerFails /\ inUse < Max /\ Move(t, "asking", "outside") /\ UNCHANGED inUse
Return(t) == Move(t, "using", "outside") /\ inUse' = inUse - 1

Next ==
    \E t \in Threads : Ask(t) \/ Grant(t) \/ GiveUp(t) \/ Fail(t) \/ Return(t)

Spec == Init /\ [][Next]_vars
=============================================================================
