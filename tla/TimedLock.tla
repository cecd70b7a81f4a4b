------------------------------ MODULE TimedLock ------------------------------
(***************************************************************************)
(* What a lock with a bounded wait promises its callers: it is granted to  *)
(* one thread at a time, and a call is refused only at a moment when the   *)
(* lock is held by somebody else or has been closed.                       *)
(***************************************************************************)
CONSTANT Threads
VARIABLES client,  \* per thread: outside, asking for the lock or holding it
          closed   \* the lock refuses everybody

vars == <<client, closed>>

Free == \A t \in Threads : client[t] # "holding"
Move(t, from, to) == client[t] = from /\ client' = [client EXCEPT ![t] = to]

Init == client = [t \in Threads |-> "outside"] /\ closed = FALSE

Ask(t) == Move(t, "outside", "asking") /\ UNCHANGED closed
Grant(t) == Free /\ ~closed /\ Move(t, "asking", "holding") /\ UNCHANGED closed
Refuse(t) == (~Free \/ closed) /\ Move(t, "asking", "outside") /\ UNCHANGED closed
Release(t) == Move(t, "holding", "outside") /\ UNCHANGED closed
Close == closed' = TRUE /\ UNCHANGED client
Reopen == Free /\ closed' = FALSE /\ UNCHANGED client

Next == Close \/ Reopen \/ \E t \in Threads : Ask(t) \/ Grant(t) \/ Refuse(t) \/ Release(t)

Spec == Init /\ [][Next]_vars
=============================================================================
