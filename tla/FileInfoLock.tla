---------------------------- MODULE FileInfoLock ----------------------------
(***************************************************************************)
(* class FileInfoLock and its guard ScopedFileInfoLock: a flag under a     *)
(* mutex with a condition variable, waited on for at most one second.      *)
(* A step is one critical section of mtx_, or one move of a thread between *)
(* the queues of the condition variable.                                   *)
(***************************************************************************)
EXTENDS Naturals

CONSTANTS Threads,
          Controls   \* which of StopWaiting and Reset some thread may call

ASSUME ControlsAssumption == Controls \subseteq {"stop", "reset"}

VARIABLES locked_, stop_,
          pc   \* per thread: where it stands in TryLockFor, or that it holds

vars == <<locked_, stop_, pc>>

(* outside: not in a scope that uses the lock; entering: TryLockFor called,
   mtx_ not yet taken; waiting: in the condition variable's queue; notified,
   expired: out of that queue, mtx_ not yet taken; held: is_locked_ *)
Places == {"outside", "entering", "waiting", "notified", "expired", "held"}

TypeOK == locked_ \in BOOLEAN /\ stop_ \in BOOLEAN /\ pc \in [Threads -> Places]

Waiters == {t \in Threads : pc[t] = "waiting"}
Goto(t, place) == pc' = [pc EXCEPT ![t] = place]

Init == locked_ = FALSE /\ stop_ = FALSE /\ pc = [t \in Threads |-> "outside"]

(* the predicate of wait_for *)
Ready == ~locked_ \/ stop_

(* TryLockFor after the wait: false when stopped, else take the flag *)
TakeOrQuit(t) ==
    /\ UNCHANGED stop_
    /\ \/ stop_ /\ Goto(t, "outside") /\ UNCHANGED locked_
       \/ ~stop_ /\ Goto(t, "held") /\ locked_' = TRUE

(* the constructor of ScopedFileInfoLock *)
Call(t) == pc[t] = "outside" /\ Goto(t, "entering") /\ UNCHANGED <<locked_, stop_>>

(* wait_for tests its predicate before the first wait and after a wake-up *)
Test(t) ==
    /\ pc[t] \in {"entering", "notified"}
    /\ \/ Ready /\ TakeOrQuit(t)
       \/ ~Ready /\ Goto(t, "waiting") /\ UNCHANGED <<locked_, stop_>>

NeverExpire(t) == FALSE /\ UNCHANGED vars
Expire(t) == pc[t] = "waiting" /\ Goto(t, "expired") /\ UNCHANGED <<locked_, stop_>>

(* at the deadline wait_for tests once more and returns what it finds *)
GiveUpBlindly(t) ==
    pc[t] = "expired" /\ Goto(t, "outside") /\ UNCHANGED <<locked_, stop_>>
LastTest(t) ==
    /\ pc[t] = "expired"
    /\ \/ Ready /\ TakeOrQuit(t)
       \/ ~Ready /\ Goto(t, "outside") /\ UNCHANGED <<locked_, stop_>>

SpuriousWakeup(t) ==
    pc[t] = "waiting" /\ Goto(t, "notified") /\ UNCHANGED <<locked_, stop_>>

(* what notify_one makes of the queue p *)
NotifyNobody(p, q) == q = p
NotifyOne(p, q) ==
    \/ (\A t \in Threads : p[t] # "waiting") /\ q = p
    \/ \E t \in Threads : p[t] = "waiting" /\ q = [p EXCEPT ![t] = "notified"]

(* the destructor of ScopedFileInfoLock, for a thread whose is_locked_ is set *)
Unlock(t) ==
    /\ pc[t] = "held"
    /\ locked_' = FALSE
    /\ NotifyOne([pc EXCEPT ![t] = "outside"], pc')
    /\ UNCHANGED stop_

StopWaiting ==
    /\ "stop" \in Controls
    /\ stop_' = TRUE
    /\ pc' = [t \in Threads |-> IF pc[t] = "waiting" THEN "notified" ELSE pc[t]]
    /\ UNCHANGED locked_

(* It lets a second thread in when the lock is held; nothing in the program calls
   it, and a caller is taken to know that the lock is free. *)
Reset ==
    /\ "reset" \in Controls /\ ~locked_
    /\ stop_' = FALSE /\ locked_' = FALSE /\ UNCHANGED pc

ThreadStep(t) == \/ Call(t) \/ Test(t) \/ Expire(t) \/ LastTest(t)
                 \/ SpuriousWakeup(t) \/ Unlock(t)
Next == StopWaiting \/ Reset \/ \E t \in Threads : ThreadStep(t)

Spec == Init /\ [][Next]_vars

(* A thread that can take mtx_ does, and the deadline of wait_for is an
   absolute time: wake-ups do not put it off.  Nothing is assumed of the
   holder, whose statements may take any time. *)
Fairness == \A t \in Threads :
    WF_vars(Test(t)) /\ WF_vars(LastTest(t)) /\ SF_vars(Expire(t))
FairSpec == Spec /\ Fairness

-----------------------------------------------------------------------------
(* Two handlers are never both inside a section that FileInfoLock guards. *)
MutualExclusion ==
    \A s, t \in Threads : pc[s] = "held" /\ pc[t] = "held" => s = t

(* While the predicate holds and somebody still sleeps in the queue, some
   thread is already on its way to test it: notify_one in Unlock, notify_all
   in StopWaiting and the test before the first wait lose no wake-up. *)
NoLostWakeup ==
    Ready /\ Waiters # {} => \E t \in Threads : pc[t] \in {"notified", "expired"}

(* What the two rest on: the flag is set exactly while a thread holds the lock,
   and once the lock is stopped nobody sleeps. *)
LockInv ==
    /\ TypeOK
    /\ MutualExclusion
    /\ locked_ <=> \E t \in Threads : pc[t] = "held"
    /\ stop_ => Waiters = {}
    /\ NoLostWakeup

(* TryLockFor returns, whatever the holder does. *)
EveryCallReturns ==
    \A t \in Threads : pc[t] = "entering" ~> pc[t] \in {"outside", "held"}

(* The class keeps the promise of TimedLock, on which FileStore relies: a
   handler that fails to lock was overtaken by a holder, never by the race of
   a release with its own deadline. *)
ClientOf(place) ==
    CASE place = "outside" -> "outside"
      [] place = "held" -> "holding"
      [] OTHER -> "asking"
Abstract == INSTANCE TimedLock WITH
    client <- [t \in Threads |-> ClientOf(pc[t])], closed <- stop_
ImplementsTimedLock == Abstract!Spec
=============================================================================
