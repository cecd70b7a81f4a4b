------------------------- MODULE FileInfoLockProofs -------------------------
(***************************************************************************)
(* FileInfoLock excludes, loses no wake-up and implements TimedLock, for   *)
(* any number of threads.                                                  *)
(***************************************************************************)
EXTENDS FileInfoLock, TLAPS

(* A step that moves one thread to a place other than "held" and leaves the
   flags alone keeps the invariant, if the thread did not hold and if it is not
   put to sleep when the predicate holds. *)
LEMMA QuietMove ==
    ASSUME LockInv, NEW t \in Threads, NEW place \in Places \ {"held"},
           pc[t] # "held", Goto(t, place), UNCHANGED <<locked_, stop_>>,
           place = "waiting" => ~Ready,
           Ready /\ pc[t] \in {"notified", "expired"} => place \in {"notified", "expired"}
    PROVE  LockInv'
<1>1. TypeOK'
  BY DEF LockInv, TypeOK, Goto
<1>2. \A s \in Threads : pc'[s] = "held" <=> pc[s] = "held"
  BY DEF LockInv, TypeOK, Goto
<1>3. MutualExclusion' /\ (locked_ <=> \E s \in Threads : pc[s] = "held")'
  BY <1>2 DEF LockInv, MutualExclusion
<1>4. (stop_ => Waiters = {})'
  BY DEF LockInv, TypeOK, Goto, Waiters, Ready
<1>5. NoLostWakeup'
  <2> SUFFICES ASSUME Ready', NEW s \in Threads, pc'[s] = "waiting"
               PROVE  \E u \in Threads : pc'[u] \in {"notified", "expired"}
    BY DEF NoLostWakeup, Waiters
  <2>1. Ready
    BY DEF Ready
  <2>2. s # t /\ pc[s] = "waiting"
    BY <2>1 DEF LockInv, TypeOK, Goto
  <2>3. PICK u \in Threads : pc[u] \in {"notified", "expired"}
    BY <2>1, <2>2 DEF LockInv, NoLostWakeup, Waiters
  <2>4. pc'[u] \in {"notified", "expired"}
    BY <2>1, <2>3 DEF LockInv, TypeOK, Goto
  <2> QED BY <2>4
<1> QED BY <1>1, <1>3, <1>4, <1>5 DEF LockInv

(* Whoever finds the predicate true leaves TryLockFor in a good state. *)
LEMMA TakeOrQuitKeeps ==
    ASSUME LockInv, NEW t \in Threads, pc[t] # "held", Ready, TakeOrQuit(t)
    PROVE  LockInv'
<1>1. CASE stop_ /\ Goto(t, "outside") /\ UNCHANGED locked_
  <2>1. TypeOK' /\ UNCHANGED stop_
    BY <1>1 DEF LockInv, TypeOK, Goto, TakeOrQuit, Places
  <2>2. \A s \in Threads : /\ pc'[s] = "held" <=> pc[s] = "held"
                           /\ pc'[s] # "waiting"
    BY <1>1 DEF LockInv, TypeOK, Goto, Waiters
  <2>3. Waiters' = {}
    BY <2>2 DEF Waiters
  <2> QED BY <1>1, <2>1, <2>2, <2>3 DEF LockInv, MutualExclusion, NoLostWakeup
<1>2. CASE ~stop_ /\ Goto(t, "held") /\ locked_' = TRUE
  <2>1. TypeOK' /\ ~stop_'
    BY <1>2 DEF LockInv, TypeOK, Goto, TakeOrQuit, Places
  <2>2. \A s \in Threads : pc[s] # "held"
    BY <1>2 DEF LockInv, Ready
  <2>3. \A s \in Threads : pc'[s] = "held" <=> s = t
    BY <1>2, <2>2 DEF LockInv, TypeOK, Goto
  <2>4. MutualExclusion' /\ (locked_ <=> \E s \in Threads : pc[s] = "held")'
    BY <1>2, <2>3 DEF MutualExclusion
  <2>5. ~Ready'
    BY <1>2, <2>1 DEF Ready
  <2> QED BY <2>1, <2>4, <2>5 DEF LockInv, NoLostWakeup
<1> QED BY <1>1, <1>2 DEF TakeOrQuit

LEMMA UnlockKeeps ==
    ASSUME LockInv, NEW t \in Threads, Unlock(t)
    PROVE  LockInv'
<1> DEFINE p == [pc EXCEPT ![t] = "outside"]
<1>1. p \in [Threads -> Places] /\ \A s \in Threads : p[s] # "held"
  BY DEF Unlock, LockInv, TypeOK, MutualExclusion, Places
<1>2. p[t] = "outside" /\ \A s \in Threads : s # t => p[s] = pc[s]
  BY DEF LockInv, TypeOK
<1>3. NotifyOne(p, pc')
  BY DEF Unlock
<1> HIDE DEF p
<1>4. /\ pc' \in [Threads -> Places]
      /\ \A s \in Threads : pc'[s] # "held"
      /\ \A s \in Threads : pc'[s] = "waiting" => p[s] = "waiting"
  BY <1>1, <1>3 DEF NotifyOne, Places
<1>5. TypeOK'
  BY <1>4 DEF Unlock, LockInv, TypeOK
<1>6. (stop_ => Waiters = {})'
  BY <1>2, <1>4 DEF Unlock, LockInv, Waiters
<1>7. NoLostWakeup'
  <2>1. CASE \A s \in Threads : p[s] # "waiting"
    BY <1>4, <2>1 DEF NoLostWakeup, Waiters
  <2>2. CASE \E s \in Threads : p[s] = "waiting" /\ pc' = [p EXCEPT ![s] = "notified"]
    BY <1>1, <2>2 DEF NoLostWakeup
  <2> QED BY <1>3, <2>1, <2>2 DEF NotifyOne
<1> QED BY <1>4, <1>5, <1>6, <1>7 DEF Unlock, LockInv, MutualExclusion

LEMMA StopKeeps == LockInv /\ StopWaiting => LockInv'
<1> SUFFICES ASSUME LockInv, StopWaiting PROVE LockInv'
  OBVIOUS
<1>1. /\ TypeOK'
      /\ \A s \in Threads : /\ pc'[s] = "held" <=> pc[s] = "held"
                            /\ pc'[s] # "waiting"
  BY DEF LockInv, TypeOK, StopWaiting, Places
<1>2. Waiters' = {}
  BY <1>1 DEF Waiters
<1> QED BY <1>1, <1>2 DEF LockInv, StopWaiting, MutualExclusion, NoLostWakeup

LEMMA LockStep == LockInv /\ [Next]_vars => LockInv'
<1> SUFFICES ASSUME LockInv, [Next]_vars PROVE LockInv'
  OBVIOUS
<1>1. CASE StopWaiting
  BY <1>1, StopKeeps
<1>2. CASE Reset
  BY <1>2 DEF Reset, LockInv, TypeOK, MutualExclusion, NoLostWakeup, Waiters, Ready
<1>3. ASSUME NEW t \in Threads, ThreadStep(t) PROVE LockInv'
  <2>1. CASE Call(t)
    BY <2>1, QuietMove DEF Call, Places
  <2>2. CASE Test(t)
    <3>1. CASE Ready /\ TakeOrQuit(t)
      BY <2>2, <3>1, TakeOrQuitKeeps DEF Test
    <3>2. CASE ~Ready /\ Goto(t, "waiting") /\ UNCHANGED <<locked_, stop_>>
      BY <2>2, <3>2, QuietMove DEF Test, Places
    <3> QED BY <2>2, <3>1, <3>2 DEF Test
  <2>3. CASE Expire(t)
    BY <2>3, QuietMove DEF Expire, Places
  <2>4. CASE LastTest(t)
    <3>1. CASE Ready /\ TakeOrQuit(t)
      BY <2>4, <3>1, TakeOrQuitKeeps DEF LastTest
    <3>2. CASE ~Ready /\ Goto(t, "outside") /\ UNCHANGED <<locked_, stop_>>
      BY <2>4, <3>2, QuietMove DEF LastTest, Places
    <3> QED BY <2>4, <3>1, <3>2 DEF LastTest
  <2>5. CASE SpuriousWakeup(t)
    BY <2>5, QuietMove DEF SpuriousWakeup, Places
  <2>6. CASE Unlock(t)
    BY <2>6, UnlockKeeps
  <2> QED BY <1>3, <2>1, <2>2, <2>3, <2>4, <2>5, <2>6 DEF ThreadStep
<1>4. CASE UNCHANGED vars
  BY <1>4 DEF vars, LockInv, TypeOK, MutualExclusion, Waiters, NoLostWakeup, Ready
<1> QED BY <1>1, <1>2, <1>3, <1>4 DEF Next

LEMMA LockInit == Init => LockInv
BY DEF Init, LockInv, TypeOK, MutualExclusion, Waiters, NoLostWakeup, Places

(* The inductive invariant of TryLockFor, Unlock, StopWaiting and Reset: one holder,
   the flag set exactly while there is one, no wake-up lost. *)
THEOREM LockInvariant == Spec => []LockInv
<1>1. LockInv /\ [Next]_vars => LockInv'
  BY LockStep
<1> QED BY <1>1, LockInit, PTL DEF Spec

(* FileInfoLock is granted to one thread at a time. *)
THEOREM Exclusion == Spec => []MutualExclusion
<1>1. LockInv => MutualExclusion
  BY DEF LockInv
<1> QED BY <1>1, LockInvariant, PTL

(* No thread is left asleep on a free lock with nobody about to test it. *)
THEOREM NoWakeupLost == Spec => []NoLostWakeup
<1>1. LockInv => NoLostWakeup
  BY DEF LockInv
<1> QED BY <1>1, LockInvariant, PTL

-----------------------------------------------------------------------------
(* The refinement *)

LEMMA ClientMoves ==
    ASSUME TypeOK, NEW t \in Threads, NEW place \in Places, Goto(t, place)
    PROVE  [s \in Threads |-> ClientOf(pc[s])]' =
               [[s \in Threads |-> ClientOf(pc[s])] EXCEPT ![t] = ClientOf(place)]
BY DEF TypeOK, Goto

(* Taking the flag is a grant, leaving because of stop_ is a refusal. *)
LEMMA TakeOrQuitImplements ==
    ASSUME LockInv, NEW t \in Threads, ClientOf(pc[t]) = "asking", Ready, TakeOrQuit(t)
    PROVE  Abstract!Next
<1>1. CASE stop_ /\ Goto(t, "outside") /\ UNCHANGED locked_
  <2>1. Abstract!Refuse(t)
    BY <1>1, ClientMoves DEF LockInv, TakeOrQuit, Abstract!Refuse, Abstract!Move,
       Places, ClientOf
  <2> QED BY <2>1 DEF Abstract!Next
<1>2. CASE ~stop_ /\ Goto(t, "held") /\ locked_' = TRUE
  <2>1. Abstract!Free
    BY <1>2 DEF LockInv, TypeOK, Places, Ready, Abstract!Free, ClientOf
  <2>2. Abstract!Grant(t)
    BY <1>2, <2>1, ClientMoves DEF LockInv, TakeOrQuit, Abstract!Grant, Abstract!Move,
       Places, ClientOf
  <2> QED BY <2>2 DEF Abstract!Next
<1> QED BY <1>1, <1>2 DEF TakeOrQuit

(* A move between the places a caller cannot tell apart changes nothing for it. *)
LEMMA InnerMoveStutters ==
    ASSUME TypeOK, NEW t \in Threads, NEW place \in Places,
           ClientOf(pc[t]) = "asking", ClientOf(place) = "asking", Goto(t, place),
           UNCHANGED <<locked_, stop_>>
    PROVE  UNCHANGED Abstract!vars
<1>1. \A s \in Threads : ClientOf(pc'[s]) = ClientOf(pc[s])
  BY DEF TypeOK, Goto
<1> QED BY <1>1 DEF Abstract!vars

LEMMA UnlockImplements ==
    ASSUME LockInv, NEW t \in Threads, Unlock(t)
    PROVE  Abstract!Release(t)
<1> DEFINE p == [pc EXCEPT ![t] = "outside"]
<1>1. p \in [Threads -> Places] /\ NotifyOne(p, pc')
  BY DEF Unlock, LockInv, TypeOK, Places
<1>2. \A s \in Threads : p[s] = IF s = t THEN "outside" ELSE pc[s]
  BY DEF LockInv, TypeOK
<1> HIDE DEF p
<1>3. \A s \in Threads : ClientOf(pc'[s]) = ClientOf(p[s])
  BY <1>1 DEF NotifyOne, ClientOf
<1>4. \A s \in Threads : ClientOf(pc'[s]) = IF s = t THEN "outside" ELSE ClientOf(pc[s])
  BY <1>2, <1>3 DEF ClientOf
<1>5. [s \in Threads |-> ClientOf(pc[s])]' =
          [[s \in Threads |-> ClientOf(pc[s])] EXCEPT ![t] = "outside"]
  BY <1>4
<1> QED BY <1>5 DEF Unlock, Abstract!Release, Abstract!Move, ClientOf

LEMMA StepImplements == LockInv /\ [Next]_vars => [Abstract!Next]_(Abstract!vars)
<1> SUFFICES ASSUME LockInv, [Next]_vars PROVE [Abstract!Next]_(Abstract!vars)
  OBVIOUS
<1>1. CASE StopWaiting
  <2>1. \A s \in Threads : ClientOf(pc'[s]) = ClientOf(pc[s])
    BY <1>1 DEF StopWaiting, LockInv, TypeOK, ClientOf
  <2>2. Abstract!Close
    BY <1>1, <2>1 DEF StopWaiting, Abstract!Close
  <2> QED BY <2>2 DEF Abstract!Next
<1>2. CASE Reset
  <2>1. Abstract!Free
    BY <1>2 DEF Reset, LockInv, TypeOK, Places, Abstract!Free, ClientOf
  <2>2. Abstract!Reopen
    BY <1>2, <2>1 DEF Reset, Abstract!Reopen, ClientOf
  <2> QED BY <2>2 DEF Abstract!Next
<1>3. ASSUME NEW t \in Threads, ThreadStep(t) PROVE [Abstract!Next]_(Abstract!vars)
  <2> TypeOK
    BY DEF LockInv
  <2>1. CASE Call(t)
    <3>1. Abstract!Ask(t)
      BY <2>1, ClientMoves DEF Call, Abstract!Ask, Abstract!Move, Places, ClientOf
    <3> QED BY <3>1 DEF Abstract!Next
  <2>2. CASE Test(t)
    <3>1. CASE Ready /\ TakeOrQuit(t)
      BY <2>2, <3>1, TakeOrQuitImplements DEF Test, ClientOf
    <3>2. CASE ~Ready /\ Goto(t, "waiting") /\ UNCHANGED <<locked_, stop_>>
      BY <2>2, <3>2, InnerMoveStutters DEF Test, ClientOf, Places
    <3> QED BY <2>2, <3>1, <3>2 DEF Test
  <2>3. CASE Expire(t)
    BY <2>3, InnerMoveStutters DEF Expire, ClientOf, Places
  <2>4. CASE LastTest(t)
    <3>1. CASE Ready /\ TakeOrQuit(t)
      BY <2>4, <3>1, TakeOrQuitImplements DEF LastTest, ClientOf
    <3>2. CASE ~Ready /\ Goto(t, "outside") /\ UNCHANGED <<locked_, stop_>>
      <4>1. ~Abstract!Free
        BY <3>2 DEF LockInv, Ready, Abstract!Free, ClientOf
      <4>2. Abstract!Refuse(t)
        BY <2>4, <3>2, <4>1, ClientMoves
        DEF LastTest, Abstract!Refuse, Abstract!Move, Places, ClientOf
      <4> QED BY <4>2 DEF Abstract!Next
    <3> QED BY <2>4, <3>1, <3>2 DEF LastTest
  <2>5. CASE SpuriousWakeup(t)
    BY <2>5, InnerMoveStutters DEF SpuriousWakeup, ClientOf, Places
  <2>6. CASE Unlock(t)
    BY <2>6, UnlockImplements DEF Abstract!Next
  <2> QED BY <1>3, <2>1, <2>2, <2>3, <2>4, <2>5, <2>6 DEF ThreadStep
<1>4. CASE UNCHANGED vars
  BY <1>4 DEF vars, Abstract!vars
<1> QED BY <1>1, <1>2, <1>3, <1>4 DEF Next

LEMMA InitImplements == Init => Abstract!Init
BY DEF Init, Abstract!Init, ClientOf

(* To its callers FileInfoLock is a TimedLock: a call fails only while another
   thread holds the lock or after StopWaiting. *)
THEOREM Refinement == Spec => ImplementsTimedLock
<1>1. LockInv /\ [Next]_vars => [Abstract!Next]_(Abstract!vars)
  BY StepImplements
<1> QED BY <1>1, InitImplements, LockInvariant, PTL
        DEF Spec, ImplementsTimedLock, Abstract!Spec
=============================================================================
