------------------------------ MODULE PoolProofs ------------------------------
(***************************************************************************)
(* A pool never hands a connection to two threads, never loses one, leaves *)
(* no thread asleep that a free connection could serve, and keeps the      *)
(* promise of BoundedPool, for any number of threads and connections.      *)
(*                                                                         *)
(* The handlers of the server cannot wait for each other's connections in  *)
(* a circle, for any number of worker threads below the size of the pool   *)
(* "slave" and any other sizes.                                            *)
(***************************************************************************)
EXTENDS ConnPool, HandlerPools, SequenceTheorems, FiniteSetTheorems, TLAPS

PoolInv == TypeOK /\ ExclusiveUse /\ NoneLost

LEMMA PoolInit == Init => PoolInv
<1> SUFFICES ASSUME Init PROVE PoolInv
  OBVIOUS
<1>1. free_list \in Seq(1..Max) /\ Len(free_list) = Min
  BY PoolAssumption DEF Init
<1>2. TypeOK
  BY <1>1, PoolAssumption DEF Init, TypeOK, Places
<1>3. ExclusiveUse
  BY <1>1, PoolAssumption DEF Init, ExclusiveUse, Listed
<1>4. NoneLost
  BY <1>1, PoolAssumption DEF Init, NoneLost, Listed, Conns
<1> QED BY <1>2, <1>3, <1>4 DEF PoolInv

(* Between outside and using only pc and wait change. *)
LEMMA QuietKeeps ==
    ASSUME PoolInv, NEW t \in Threads, NEW place \in Places \ {"using"},
           pc[t] # "using", Goto(t, place), UNCHANGED <<free_list, cur_cnt, conn>>,
           wait' \in [Threads -> Waits \cup {"forever"}]
    PROVE  PoolInv'
<1>1. TypeOK' /\ \A s \in Threads : pc'[s] = "using" <=> pc[s] = "using"
  BY DEF PoolInv, TypeOK, Goto
<1>2. ExclusiveUse'
  BY <1>1 DEF PoolInv, ExclusiveUse, Listed
<1>3. NoneLost'
  BY DEF PoolInv, NoneLost, Listed, Conns
<1> QED BY <1>1, <1>2, <1>3 DEF PoolInv

LEMMA TakeFrontKeeps ==
    ASSUME PoolInv, NEW t \in Threads, pc[t] # "using", TakeFront(t)
    PROVE  PoolInv'
<1> DEFINE c == free_list[1]
<1>a. free_list \in Seq(1..Max) /\ free_list # <<>>
  BY DEF PoolInv, TypeOK, TakeFront
<1>b. /\ Head(free_list) = c
      /\ Len(free_list) \in Nat \ {0}
      /\ c \in 1..Max
  <2>1. Len(free_list) \in Nat /\ Len(free_list) # 0
    BY <1>a, EmptySeq
  <2>2. Head(free_list) = c
    BY <1>a, <2>1
  <2>3. c \in 1..Max
    BY <1>a, <2>1, <2>2, HeadTailProperties
  <2> QED BY <2>1, <2>2, <2>3
<1>c. /\ Tail(free_list) \in Seq(1..Max)
      /\ Len(Tail(free_list)) = Len(free_list) - 1
      /\ \A i \in 1..Len(Tail(free_list)) : Tail(free_list)[i] = free_list[i + 1]
  BY <1>a, HeadTailProperties
<1>1. /\ free_list \in Seq(1..Max) /\ Len(free_list) \in Nat \ {0}
      /\ Head(free_list) = c /\ c \in 1..Max
      /\ free_list' \in Seq(1..Max) /\ Len(free_list') = Len(free_list) - 1
      /\ \A i \in 1..Len(free_list') : free_list'[i] = free_list[i + 1]
  BY <1>a, <1>b, <1>c DEF TakeFront
<1>2. conn' = [conn EXCEPT ![t] = c] /\ conn[t] = NoConn
  BY <1>1 DEF PoolInv, ExclusiveUse, TakeFront
<1>3. /\ conn'[t] = c
      /\ \A s \in Threads : s # t => conn'[s] = conn[s] /\ pc'[s] = pc[s]
      /\ pc'[t] = "using"
  BY <1>2 DEF PoolInv, TypeOK, TakeFront, Goto
<1>4. TypeOK'
  BY <1>1, <1>2 DEF PoolInv, TypeOK, TakeFront, Goto, Places
<1>5. Listed(c) /\ \A s \in Threads : conn[s] # c
  BY <1>1 DEF PoolInv, ExclusiveUse, Listed
<1>6. \A i, j \in 1..Len(free_list) : free_list[i] = free_list[j] => i = j
  BY DEF PoolInv, ExclusiveUse
<1>7. \A i \in 1..Len(free_list') : i + 1 \in 1..Len(free_list) /\ i + 1 # 1
  BY <1>1
<1>8. \A i \in 1..Len(free_list') : free_list'[i] # c /\ \E j \in 1..Len(free_list) : free_list'[i] = free_list[j]
  BY <1>1, <1>6, <1>7
<1>9. ExclusiveUse'
  <2>1. \A s \in Threads : pc'[s] = "using" <=> conn'[s] # NoConn
    BY <1>1, <1>3, PoolAssumption DEF PoolInv, ExclusiveUse
  <2>2. \A r, s \in Threads : conn'[r] = conn'[s] /\ conn'[r] # NoConn => r = s
    BY <1>3, <1>5 DEF PoolInv, ExclusiveUse
  <2>3. \A s \in Threads : ~Listed(conn[s])
    BY DEF PoolInv, ExclusiveUse
  <2>4. \A s \in Threads, i \in 1..Len(free_list') : free_list'[i] # conn'[s]
    BY <1>3, <1>8, <2>3 DEF Listed
  <2>5. \A i, j \in 1..Len(free_list') : free_list'[i] = free_list'[j] => i = j
    <3> TAKE i \in 1..Len(free_list'), j \in 1..Len(free_list')
    <3> HAVE free_list'[i] = free_list'[j]
    <3>1. i + 1 = j + 1
      BY <1>1, <1>6, <1>7
    <3> QED BY <3>1
  <2> QED BY <2>1, <2>2, <2>4, <2>5 DEF ExclusiveUse, Listed
<1>10. NoneLost'
  <2> SUFFICES ASSUME NEW d \in 1..Max
               PROVE  d \in Conns <=> Listed(d)' \/ \E s \in Threads : conn'[s] = d
    BY DEF NoneLost, Conns, TakeFront
  <2>1. Listed(d)' => Listed(d)
    BY <1>8 DEF Listed
  <2>2. Listed(d) => Listed(d)' \/ d = c
    <3> SUFFICES ASSUME NEW i \in 1..Len(free_list), free_list[i] = d, d # c
                 PROVE  Listed(d)'
      BY DEF Listed
    <3>1. i - 1 \in 1..Len(free_list')
      BY <1>1
    <3>2. free_list'[i - 1] = d
      BY <1>1, <3>1
    <3> QED BY <3>1, <3>2 DEF Listed
  <2>3. \A s \in Threads : conn'[s] = d <=> conn[s] = d \/ (s = t /\ d = c)
    BY <1>2, <1>3, PoolAssumption DEF PoolInv, TypeOK
  <2> QED BY <1>5, <2>1, <2>2, <2>3 DEF PoolInv, NoneLost
<1> QED BY <1>4, <1>9, <1>10 DEF PoolInv

(* A new connection is unknown to the list and to every thread. *)
LEMMA CreateKeeps ==
    ASSUME PoolInv, NEW t \in Threads, pc[t] # "using",
           MayCreate, cur_cnt' = cur_cnt + 1, conn' = [conn EXCEPT ![t] = cur_cnt + 1],
           Goto(t, "using"), UNCHANGED <<free_list, wait>>
    PROVE  PoolInv'
<1> DEFINE c == cur_cnt + 1
<1>1. c \in 1..Max /\ c \notin Conns /\ Conns' = Conns \cup {c}
  BY PoolAssumption DEF PoolInv, TypeOK, MayCreate, Conns
<1>2. ~Listed(c) /\ \A s \in Threads : conn[s] # c
  BY <1>1 DEF PoolInv, NoneLost
<1>3. /\ conn'[t] = c /\ pc'[t] = "using"
      /\ \A s \in Threads : s # t => conn'[s] = conn[s] /\ pc'[s] = pc[s]
  BY DEF PoolInv, TypeOK, Goto
<1>4. TypeOK'
  BY <1>1, PoolAssumption DEF PoolInv, TypeOK, Goto, Places, MayCreate
<1>5. ExclusiveUse'
  <2>1. \A s \in Threads : pc'[s] = "using" <=> conn'[s] # NoConn
    BY <1>1, <1>3, PoolAssumption DEF PoolInv, ExclusiveUse
  <2>2. \A r, s \in Threads : conn'[r] = conn'[s] /\ conn'[r] # NoConn => r = s
    BY <1>2, <1>3 DEF PoolInv, ExclusiveUse
  <2>3. \A s \in Threads : ~Listed(conn[s])
    BY DEF PoolInv, ExclusiveUse
  <2>4. \A s \in Threads : ~Listed(conn[s])'
    BY <1>2, <1>3, <2>3 DEF Listed
  <2> QED BY <2>1, <2>2, <2>4 DEF PoolInv, ExclusiveUse
<1>6. NoneLost'
  <2> SUFFICES ASSUME NEW d \in 1..Max
               PROVE  d \in Conns' <=> Listed(d) \/ \E s \in Threads : conn'[s] = d
    BY DEF NoneLost, Listed
  <2>1. conn[t] = NoConn /\ d # NoConn
    BY PoolAssumption DEF PoolInv, ExclusiveUse
  <2>2. (\E s \in Threads : conn'[s] = d) <=> d = c \/ \E s \in Threads : conn[s] = d
    BY <1>3, <2>1
  <2> QED BY <1>1, <2>2 DEF PoolInv, NoneLost
<1> QED BY <1>4, <1>5, <1>6 DEF PoolInv

LEMMA ReleaseKeeps ==
    ASSUME PoolInv, NEW t \in Threads, Release(t)
    PROVE  PoolInv'
<1> DEFINE c == conn[t]
           left == [pc EXCEPT ![t] = "outside"]
<1>1. c \in 1..Max /\ c # NoConn /\ ~Listed(c)
  BY DEF PoolInv, TypeOK, ExclusiveUse, Release
<1>2. free_list' = Append(free_list, c) /\ NotifyOne(left, pc')
  BY <1>1 DEF Release, GiveBack
<1>3. /\ left \in [Threads -> Places] /\ left[t] = "outside"
      /\ \A s \in Threads : s # t => left[s] = pc[s]
  BY DEF PoolInv, TypeOK, Places
<1> HIDE DEF left
<1>4. /\ pc' \in [Threads -> Places]
      /\ \A s \in Threads : pc'[s] = "using" <=> s # t /\ pc[s] = "using"
  BY <1>2, <1>3 DEF NotifyOne, Places
<1>5. /\ free_list \in Seq(1..Max) /\ free_list' \in Seq(1..Max)
      /\ Len(free_list) \in Nat /\ Len(free_list') = Len(free_list) + 1
      /\ \A i \in 1..Len(free_list) : free_list'[i] = free_list[i]
      /\ free_list'[Len(free_list) + 1] = c
  BY <1>1, <1>2, AppendProperties DEF PoolInv, TypeOK
<1>6. /\ conn'[t] = NoConn
      /\ \A s \in Threads : s # t => conn'[s] = conn[s]
  BY DEF PoolInv, TypeOK, Release
<1>7. TypeOK'
  BY <1>4, <1>5 DEF PoolInv, TypeOK, Release
<1>8. \A d : Listed(d)' <=> Listed(d) \/ d = c
  BY <1>5 DEF Listed
<1>9. ExclusiveUse'
  <2>1. \A s \in Threads : pc'[s] = "using" <=> conn'[s] # NoConn
    BY <1>4, <1>6 DEF PoolInv, ExclusiveUse
  <2>2. \A r, s \in Threads : conn'[r] = conn'[s] /\ conn'[r] # NoConn => r = s
    BY <1>6 DEF PoolInv, ExclusiveUse
  <2>3. \A s \in Threads : s # t => conn[s] # c
    BY <1>1 DEF PoolInv, ExclusiveUse
  <2>4. \A s \in Threads : ~Listed(conn[s])
    BY DEF PoolInv, ExclusiveUse
  <2>5. ~Listed(NoConn)
    BY <1>5, PoolAssumption DEF Listed
  <2>6. \A s \in Threads : ~Listed(conn'[s]) /\ conn'[s] # c
    BY <1>1, <1>6, <2>3, <2>4, <2>5
  <2>7. \A s \in Threads : ~Listed(conn[s])'
    BY <1>5, <2>6 DEF Listed
  <2>8. \A i, j \in 1..Len(free_list') : free_list'[i] = free_list'[j] => i = j
    BY <1>1, <1>5 DEF PoolInv, ExclusiveUse, Listed
  <2> QED BY <2>1, <2>2, <2>7, <2>8 DEF ExclusiveUse
<1>10. NoneLost'
  <2> SUFFICES ASSUME NEW d \in 1..Max
               PROVE  d \in Conns <=> Listed(d)' \/ \E s \in Threads : conn'[s] = d
    BY DEF NoneLost, Conns, Release
  <2>1. (\E s \in Threads : conn[s] = d) <=> d = c \/ \E s \in Threads : conn'[s] = d
    BY <1>6, PoolAssumption
  <2> QED BY <1>8, <2>1 DEF PoolInv, NoneLost
<1> QED BY <1>7, <1>9, <1>10 DEF PoolInv

LEMMA PoolStep == PoolInv /\ [Next]_vars => PoolInv'
<1> SUFFICES ASSUME PoolInv, [Next]_vars PROVE PoolInv'
  OBVIOUS
<1>1. ASSUME NEW t \in Threads, Call(t) PROVE PoolInv'
  <2>1. wait' \in [Threads -> Waits \cup {"forever"}]
    BY <1>1, PoolAssumption DEF PoolInv, TypeOK, Call
  <2> QED BY <1>1, <2>1, QuietKeeps DEF Call, Places
<1>2. ASSUME NEW t \in Threads, NEW place \in Places \ {"using"},
             pc[t] # "using", StayEmptyHanded(t, place)
      PROVE  PoolInv'
  <2>1. wait' \in [Threads -> Waits \cup {"forever"}]
    BY <1>2 DEF PoolInv, TypeOK, StayEmptyHanded
  <2> QED BY <1>2, <2>1, QuietKeeps DEF StayEmptyHanded
<1>3. ASSUME NEW t \in Threads, Step(t) PROVE PoolInv'
  <2>1. CASE Enter(t)
    BY <2>1, <1>2, TakeFrontKeeps, CreateKeeps DEF Enter, Places
  <2>2. CASE TestAgain(t)
    BY <2>2, <1>2, TakeFrontKeeps DEF TestAgain, Places
  <2>3. CASE Expire(t)
    BY <2>3, <1>2 DEF Expire, Places
  <2>4. CASE LastTest(t)
    BY <2>4, <1>2, TakeFrontKeeps DEF LastTest, Places
  <2>5. CASE SpuriousWakeup(t)
    BY <2>5, <1>2 DEF SpuriousWakeup, Places
  <2>6. CASE Release(t)
    BY <2>6, ReleaseKeeps
  <2> QED BY <1>3, <2>1, <2>2, <2>3, <2>4, <2>5, <2>6 DEF Step
<1>4. CASE UNCHANGED vars
  BY <1>4 DEF vars, PoolInv, TypeOK, ExclusiveUse, NoneLost, Listed, Conns
<1> QED BY <1>1, <1>3, <1>4 DEF Next

LEMMA PoolInvariant == Spec => []PoolInv
BY PoolInit, PoolStep, PTL DEF Spec

(* A connection serves one thread at a time and is not in the free list. *)
THEOREM Exclusive == Spec => []ExclusiveUse
<1>1. PoolInv => ExclusiveUse
  BY DEF PoolInv
<1> QED BY <1>1, PoolInvariant, PTL

(* The pool neither loses a connection nor opens one it does not count. *)
THEOREM Conservation == Spec => []NoneLost
<1>1. PoolInv => NoneLost
  BY DEF PoolInv
<1> QED BY <1>1, PoolInvariant, PTL
-----------------------------------------------------------------------------
(* Counting *)

(* The sets of threads at a place, when one thread moves *)
LEMMA SetsMove ==
    ASSUME TypeOK, NEW t \in Threads, NEW place \in Places, Goto(t, place)
    PROVE  /\ Users' = IF place = "using" THEN Users \cup {t} ELSE Users \ {t}
           /\ Awake' = IF place \in {"notified", "expired"}
                       THEN Awake \cup {t} ELSE Awake \ {t}
           /\ Waiters' = IF place = "waiting" THEN Waiters \cup {t} ELSE Waiters \ {t}
BY DEF TypeOK, Goto, Users, Awake, Waiters

LEMMA FinitelyMany ==
    /\ IsFiniteSet(Users) /\ Cardinality(Users) \in Nat
    /\ IsFiniteSet(Awake) /\ Cardinality(Awake) \in Nat
<1>1. Users \in SUBSET Threads /\ Awake \in SUBSET Threads
  BY DEF Users, Awake
<1>2. IsFiniteSet(Users) /\ IsFiniteSet(Awake)
  BY <1>1, FS_Subset, PoolAssumption
<1> QED BY <1>2, FS_CardinalityType

LEMMA OneMore ==
    ASSUME NEW S, NEW x, IsFiniteSet(S)
    PROVE  /\ Cardinality(S) \in Nat /\ Cardinality(S \cup {x}) \in Nat
           /\ Cardinality(S \cup {x}) >= Cardinality(S)
           /\ x \notin S => Cardinality(S \cup {x}) = Cardinality(S) + 1
<1>1. IsFiniteSet(S \cup {x})
  BY FS_AddElement
<1>2. Cardinality(S) \in Nat /\ Cardinality(S \cup {x}) \in Nat
  BY <1>1, FS_CardinalityType
<1>3. Cardinality(S \cup {x}) = IF x \in S THEN Cardinality(S) ELSE Cardinality(S) + 1
  BY FS_AddElement
<1> QED BY <1>2, <1>3

LEMMA OneLess ==
    ASSUME NEW S, NEW x, IsFiniteSet(S)
    PROVE  /\ Cardinality(S) \in Nat /\ Cardinality(S \ {x}) \in Nat
           /\ Cardinality(S \ {x}) >= Cardinality(S) - 1
           /\ x \in S => Cardinality(S \ {x}) = Cardinality(S) - 1
<1>1. IsFiniteSet(S \ {x})
  BY FS_RemoveElement
<1>2. Cardinality(S) \in Nat /\ Cardinality(S \ {x}) \in Nat
  BY <1>1, FS_CardinalityType
<1>3. Cardinality(S \ {x}) = IF x \in S THEN Cardinality(S) - 1 ELSE Cardinality(S)
  BY FS_RemoveElement
<1> QED BY <1>2, <1>3

LEMMA ListLength ==
    ASSUME TypeOK
    PROVE  Len(free_list) \in Nat /\ (Len(free_list) = 0 <=> free_list = <<>>)
BY EmptySeq DEF TypeOK

LEMMA TakeFrontCounts ==
    ASSUME CountInv, NEW t \in Threads, pc[t] \notin {"using", "waiting"}, TakeFront(t)
    PROVE  Balance' /\ WaitersFindItFull' /\ NoLostWakeup'
<1> USE FinitelyMany
<1>1. /\ Len(free_list) \in Nat \ {0} /\ Len(free_list') = Len(free_list) - 1
      /\ cur_cnt' = cur_cnt
  BY ListLength, HeadTailProperties DEF CountInv, TypeOK, TakeFront
<1>2. Goto(t, "using") /\ "using" \in Places /\ t \notin Users /\ t \notin Waiters
  BY DEF TakeFront, Places, Users, Waiters
<1>3. Users' = Users \cup {t} /\ Awake' = Awake \ {t} /\ Waiters' = Waiters
  BY <1>2, SetsMove DEF CountInv
<1>4. Cardinality(Users') = Cardinality(Users) + 1
  BY <1>2, <1>3, FS_AddElement
<1>5. Cardinality(Awake') >= Cardinality(Awake) - 1
  BY <1>3, OneLess
<1>6. WaitersFindItFull'
  BY <1>1, <1>2 DEF CountInv, TypeOK, WaitersFindItFull, Goto
<1>7. Cardinality(Awake') \in Nat
  BY <1>3, FS_RemoveElement, FS_CardinalityType
<1> QED BY <1>1, <1>3, <1>4, <1>5, <1>6, <1>7 DEF CountInv, Balance, NoLostWakeup

(* A thread that leaves without a connection, or goes to sleep on an empty list *)
LEMMA EmptyHandedCounts ==
    ASSUME CountInv, NEW t \in Threads, NEW place \in Places \ {"using"},
           pc[t] # "using", Goto(t, place), UNCHANGED <<free_list, cur_cnt>>,
           place \in {"waiting", "notified", "expired"} => cur_cnt = Max,
           place = "expired" => "timed" \in Waits,
           \/ free_list = <<>>
           \/ pc[t] = "waiting" /\ place \in {"notified", "expired"}
           \/ pc[t] \in {"outside", "entering"} /\ place \in {"outside", "entering"}
    PROVE  Balance' /\ WaitersFindItFull' /\ NoLostWakeup'
<1> USE FinitelyMany, ListLength
<1>1. Users' = Users
  BY SetsMove DEF CountInv, Users
<1>2. WaitersFindItFull'
  BY DEF CountInv, TypeOK, WaitersFindItFull, Goto
<1>3. Awake' = IF place \in {"notified", "expired"} THEN Awake \cup {t} ELSE Awake \ {t}
  BY SetsMove DEF CountInv
<1>4. Cardinality(Awake') \in Nat
  BY <1>3, FS_AddElement, FS_RemoveElement, FS_CardinalityType
<1>5. NoLostWakeup'
  <2>1. CASE free_list = <<>>
    BY <1>4, <2>1 DEF CountInv, NoLostWakeup
  <2>2. CASE pc[t] = "waiting" /\ place \in {"notified", "expired"}
    <3>1. Awake' = Awake \cup {t}
      BY <1>3, <2>2
    <3>3. Cardinality(Awake') >= Cardinality(Awake)
      BY <3>1, OneMore
    <3>2. t \in Waiters
      BY <2>2 DEF Waiters
    <3> QED BY <1>4, <3>2, <3>3 DEF CountInv, NoLostWakeup
  <2>3. CASE pc[t] \in {"outside", "entering"} /\ place \in {"outside", "entering"}
    <3>1. t \notin Awake /\ t \notin Waiters
      BY <2>3 DEF Awake, Waiters
    <3>2. Awake' = Awake \ {t} /\ Waiters' = Waiters \ {t}
      BY <2>3, SetsMove DEF CountInv
    <3>3. Awake' = Awake /\ Waiters' = Waiters
      BY <3>1, <3>2
    <3> QED BY <3>3 DEF CountInv, NoLostWakeup
  <2> QED BY <2>1, <2>2, <2>3
<1> QED BY <1>1, <1>2, <1>5 DEF CountInv, Balance

LEMMA CreateCounts ==
    ASSUME CountInv, NEW t \in Threads, pc[t] = "entering", MayCreate,
           cur_cnt' = cur_cnt + 1, Goto(t, "using"), UNCHANGED free_list
    PROVE  Balance' /\ WaitersFindItFull' /\ NoLostWakeup'
<1> USE FinitelyMany, ListLength
<1>1. t \notin Users /\ t \notin Awake /\ t \notin Waiters /\ "using" \in Places
  BY DEF Users, Awake, Waiters, Places
<1>a. Users' = Users \cup {t} /\ Awake' = Awake \ {t} /\ Waiters' = Waiters \ {t}
  BY <1>1, SetsMove DEF CountInv
<1>2. Users' = Users \cup {t} /\ Awake' = Awake /\ Waiters' = Waiters
  BY <1>1, <1>a
<1>3. Cardinality(Users') = Cardinality(Users) + 1
  BY <1>1, <1>2, FS_AddElement
<1>4. Balance'
  BY <1>3 DEF CountInv, Balance, TypeOK
<1>5. cur_cnt # Max
  BY PoolAssumption DEF CountInv, TypeOK, MayCreate
<1>6. WaitersFindItFull'
  BY <1>5 DEF CountInv, TypeOK, WaitersFindItFull, Goto
<1> QED BY <1>2, <1>4, <1>6 DEF CountInv, NoLostWakeup

LEMMA ReleaseCounts ==
    ASSUME CountInv, NEW t \in Threads, Release(t)
    PROVE  Balance' /\ WaitersFindItFull' /\ NoLostWakeup'
<1> DEFINE left == [pc EXCEPT ![t] = "outside"]
<1> USE FinitelyMany, ListLength
<1>1. conn[t] \in 1..Max /\ ~Listed(conn[t])
  BY DEF CountInv, TypeOK, ExclusiveUse, Release
<1>2. free_list' = Append(free_list, conn[t]) /\ NotifyOne(left, pc') /\ cur_cnt' = cur_cnt
  BY <1>1 DEF Release, GiveBack
<1>3. Len(free_list') = Len(free_list) + 1
  BY <1>1, <1>2, AppendProperties DEF CountInv, TypeOK
<1>4. /\ left \in [Threads -> Places] /\ left[t] = "outside" /\ pc[t] = "using"
      /\ \A s \in Threads : s # t => left[s] = pc[s]
  BY DEF CountInv, TypeOK, Places, Release
<1> HIDE DEF left
<1>5. Users' = Users \ {t}
  BY <1>2, <1>4 DEF NotifyOne, Users
<1>a. t \in Users
  BY <1>4 DEF Users
<1>6. Cardinality(Users') = Cardinality(Users) - 1
  BY <1>5, <1>a, OneLess
<1>7. Balance'
  BY <1>2, <1>3, <1>6 DEF CountInv, Balance, TypeOK
<1>8. CASE (\A s \in Threads : left[s] # "waiting") /\ pc' = left
  <2>1. Waiters' = {}
    BY <1>8 DEF Waiters
  <2>2. WaitersFindItFull'
    BY <1>2, <1>4, <1>8 DEF CountInv, WaitersFindItFull
  <2> QED BY <1>7, <2>1, <2>2 DEF NoLostWakeup
<1>9. ASSUME NEW s \in Threads, left[s] = "waiting", pc' = [left EXCEPT ![s] = "notified"]
      PROVE  Balance' /\ WaitersFindItFull' /\ NoLostWakeup'
  <2>1. s # t /\ pc[s] = "waiting" /\ pc'[s] = "notified"
    BY <1>4, <1>9
  <2>2. Awake' = Awake \cup {s} /\ s \notin Awake /\ s \in Waiters
    BY <1>4, <1>9, <2>1 DEF Awake, Waiters
  <2>3. Cardinality(Awake') = Cardinality(Awake) + 1
    BY <2>2, FS_AddElement
  <2>4. WaitersFindItFull'
    BY <1>2, <1>4, <1>9, <2>1 DEF CountInv, WaitersFindItFull
  <2>5. NoLostWakeup'
    BY <1>3, <2>2, <2>3 DEF CountInv, NoLostWakeup
  <2> QED BY <1>7, <2>4, <2>5
<1> QED BY <1>2, <1>8, <1>9 DEF NotifyOne

LEMMA CountStep == CountInv /\ [Next]_vars => CountInv'
<1> SUFFICES ASSUME CountInv, [Next]_vars PROVE CountInv'
  OBVIOUS
<1>1. PoolInv'
  BY PoolStep DEF CountInv, PoolInv
<1> SUFFICES Balance' /\ WaitersFindItFull' /\ NoLostWakeup'
  BY <1>1 DEF CountInv, PoolInv
<1>2. ASSUME NEW t \in Threads, Call(t)
      PROVE  Balance' /\ WaitersFindItFull' /\ NoLostWakeup'
  BY <1>2, EmptyHandedCounts DEF Call, Places
<1>3. ASSUME NEW t \in Threads, Step(t)
      PROVE  Balance' /\ WaitersFindItFull' /\ NoLostWakeup'
  <2>1. CASE Enter(t)
    <3>1. CASE TakeFront(t)
      BY <2>1, <3>1, TakeFrontCounts DEF Enter
    <3>2. CASE MayCreate /\ cur_cnt' = cur_cnt + 1 /\ Goto(t, "using") /\ UNCHANGED free_list
      BY <2>1, <3>2, CreateCounts DEF Enter
    <3>3. CASE free_list = <<>> /\ StayEmptyHanded(t, "outside")
      BY <2>1, <3>3, EmptyHandedCounts DEF Enter, StayEmptyHanded, Places
    <3>4. CASE free_list = <<>> /\ ~MayCreate /\ StayEmptyHanded(t, "waiting")
      <4>1. cur_cnt = Max
        BY <3>4, PoolAssumption DEF CountInv, TypeOK, MayCreate
      <4> QED BY <2>1, <3>4, <4>1, EmptyHandedCounts DEF Enter, StayEmptyHanded, Places
    <3> QED BY <2>1, <3>1, <3>2, <3>3, <3>4 DEF Enter
  <2>2. CASE TestAgain(t)
    <3>1. cur_cnt = Max
      BY <2>2 DEF CountInv, WaitersFindItFull, TestAgain
    <3> QED BY <2>2, <3>1, TakeFrontCounts, EmptyHandedCounts
            DEF TestAgain, StayEmptyHanded, Places
  <2>3. CASE Expire(t)
    <3>1. cur_cnt = Max /\ "timed" \in Waits
      BY <2>3 DEF CountInv, TypeOK, WaitersFindItFull, Expire
    <3> QED BY <2>3, <3>1, EmptyHandedCounts DEF Expire, StayEmptyHanded, Places
  <2>4. CASE LastTest(t)
    BY <2>4, TakeFrontCounts, EmptyHandedCounts DEF LastTest, StayEmptyHanded, Places
  <2>5. CASE SpuriousWakeup(t)
    <3>1. cur_cnt = Max
      BY <2>5 DEF CountInv, WaitersFindItFull, SpuriousWakeup
    <3> QED BY <2>5, <3>1, EmptyHandedCounts DEF SpuriousWakeup, StayEmptyHanded, Places
  <2>6. CASE Release(t)
    BY <2>6, ReleaseCounts
  <2> QED BY <1>3, <2>1, <2>2, <2>3, <2>4, <2>5, <2>6 DEF Step
<1>4. CASE UNCHANGED vars
  BY <1>4 DEF vars, CountInv, Balance, WaitersFindItFull, NoLostWakeup, Users, Waiters, Awake
<1> QED BY <1>2, <1>3, <1>4 DEF Next

LEMMA CountInit == Init => CountInv
<1> SUFFICES ASSUME Init PROVE CountInv
  OBVIOUS
<1>1. TypeOK /\ ExclusiveUse /\ NoneLost
  BY PoolInit DEF PoolInv
<1>2. Users = {} /\ Waiters = {} /\ WaitersFindItFull
  BY DEF Init, Users, Waiters, WaitersFindItFull
<1>3. Len(free_list) = Min /\ cur_cnt = Min
  BY PoolAssumption DEF Init
<1>4. Balance
  BY <1>2, <1>3, FS_EmptySet, PoolAssumption DEF Balance
<1> QED BY <1>1, <1>2, <1>4 DEF CountInv, NoLostWakeup

(* The inductive invariant of GetDBConn and RelDBConn: exclusive use, no connection
   lost, counts that agree, and threads that wait only on an exhausted pool. *)
THEOREM CountInvariant == Spec => []CountInv
BY CountInit, CountStep, PTL DEF Spec

(* No thread sleeps while a connection is free that nobody is about to take. *)
THEOREM NoWakeupLost == Spec => []NoLostWakeup
<1>1. CountInv => NoLostWakeup
  BY DEF CountInv
<1> QED BY <1>1, CountInvariant, PTL
-----------------------------------------------------------------------------
(* The refinement *)

LEMMA ClientMoves ==
    ASSUME TypeOK, NEW t \in Threads, NEW place \in Places, Goto(t, place)
    PROVE  [s \in Threads |-> ClientOf(pc[s])]' =
               [[s \in Threads |-> ClientOf(pc[s])] EXCEPT ![t] = ClientOf(place)]
BY DEF TypeOK, Goto

LEMMA TakeFrontGrants ==
    ASSUME CountInv, NEW t \in Threads, ClientOf(pc[t]) = "asking", TakeFront(t)
    PROVE  Abstract!Next
<1>1. /\ Len(free_list) \in Nat \ {0} /\ Len(free_list') = Len(free_list) - 1
      /\ cur_cnt' = cur_cnt /\ cur_cnt \in 0..Max
  BY ListLength, HeadTailProperties DEF CountInv, TypeOK, TakeFront
<1>2. Goto(t, "using") /\ "using" \in Places /\ ClientOf("using") = "using"
  BY DEF TakeFront, Places, ClientOf
<1>3. Abstract!Grant(t)
  BY <1>1, <1>2, ClientMoves, PoolAssumption DEF CountInv, Abstract!Grant, Abstract!Move
<1> QED BY <1>3 DEF Abstract!Next

LEMMA InnerMoveStutters ==
    ASSUME TypeOK, NEW t \in Threads, NEW place \in {"waiting", "notified", "expired"},
           ClientOf(pc[t]) = "asking", StayEmptyHanded(t, place)
    PROVE  UNCHANGED Abstract!vars
<1>1. \A s \in Threads : ClientOf(pc'[s]) = ClientOf(pc[s])
  BY DEF TypeOK, StayEmptyHanded, Goto, ClientOf
<1> QED BY <1>1 DEF StayEmptyHanded, Abstract!vars

LEMMA CreateGrantsOrFails ==
    ASSUME CountInv, NEW t \in Threads, pc[t] = "entering", free_list = <<>>, MayCreate,
           UNCHANGED free_list
    PROVE  /\ Goto(t, "using") /\ cur_cnt' = cur_cnt + 1 => Abstract!Next
           /\ ServerFails /\ Goto(t, "outside") /\ UNCHANGED cur_cnt => Abstract!Next
<1>1. Len(free_list) = 0 /\ cur_cnt \in Nat /\ cur_cnt < Max
  BY ListLength DEF CountInv, TypeOK, MayCreate
<1>2. ClientOf(pc[t]) = "asking" /\ ClientOf("using") = "using"
      /\ ClientOf("outside") = "outside" /\ {"using", "outside"} \subseteq Places
  BY DEF ClientOf, Places
<1>3. ASSUME Goto(t, "using"), cur_cnt' = cur_cnt + 1 PROVE Abstract!Grant(t)
  BY <1>1, <1>2, <1>3, ClientMoves, PoolAssumption
  DEF CountInv, Abstract!Grant, Abstract!Move
<1>4. ASSUME ServerFails, Goto(t, "outside"), UNCHANGED cur_cnt PROVE Abstract!Fail(t)
  BY <1>1, <1>2, <1>4, ClientMoves, PoolAssumption
  DEF CountInv, Abstract!Fail, Abstract!Move
<1> QED BY <1>3, <1>4 DEF Abstract!Next

(* a call gives up only when every connection is in use *)
LEMMA GiveUpImplements ==
    ASSUME CountInv, NEW t \in Threads, pc[t] = "expired", free_list = <<>>,
           StayEmptyHanded(t, "outside")
    PROVE  Abstract!Next
<1>1. cur_cnt = Max /\ "timed" \in Waits
  BY DEF CountInv, WaitersFindItFull
<1>2. Len(free_list) = 0 /\ cur_cnt - Len(free_list) = Max
  BY <1>1, ListLength, PoolAssumption DEF CountInv
<1>3. ClientOf(pc[t]) = "asking" /\ ClientOf("outside") = "outside" /\ "outside" \in Places
  BY DEF ClientOf, Places
<1>4. Abstract!GiveUp(t)
  BY <1>1, <1>2, <1>3, ClientMoves
  DEF CountInv, StayEmptyHanded, Abstract!GiveUp, Abstract!Move
<1> QED BY <1>4 DEF Abstract!Next

LEMMA ReleaseReturns ==
    ASSUME CountInv, NEW t \in Threads, Release(t)
    PROVE  Abstract!Next
<1> DEFINE left == [pc EXCEPT ![t] = "outside"]
<1>1. left \in [Threads -> Places] /\ pc[t] = "using"
      /\ \A s \in Threads : left[s] = IF s = t THEN "outside" ELSE pc[s]
  BY DEF CountInv, TypeOK, Places, Release
<1>a. conn[t] \in 1..Max /\ ~Listed(conn[t])
  BY DEF CountInv, TypeOK, ExclusiveUse, Release
<1>2. NotifyOne(left, pc') /\ free_list' = Append(free_list, conn[t]) /\ cur_cnt' = cur_cnt
  BY <1>a DEF Release, GiveBack
<1>b. /\ Len(free_list) \in Nat /\ Len(free_list') = Len(free_list) + 1
      /\ cur_cnt \in Nat
  BY <1>2, <1>a, ListLength, AppendProperties DEF CountInv, TypeOK
<1> HIDE DEF left
<1>3. \A s \in Threads : ClientOf(pc'[s]) = ClientOf(left[s])
  BY <1>1, <1>2 DEF NotifyOne, ClientOf
<1>4. \A s \in Threads : ClientOf(pc'[s]) = IF s = t THEN "outside" ELSE ClientOf(pc[s])
  BY <1>1, <1>3 DEF ClientOf
<1>5. [s \in Threads |-> ClientOf(pc[s])]' =
          [[s \in Threads |-> ClientOf(pc[s])] EXCEPT ![t] = "outside"]
  BY <1>4
<1>6. Abstract!Return(t)
  BY <1>1, <1>2, <1>5, <1>b DEF Abstract!Return, Abstract!Move, ClientOf
<1> QED BY <1>6 DEF Abstract!Next

LEMMA StepImplements ==
    CountInv /\ [Next]_vars => [Abstract!Next]_(Abstract!vars)
<1> SUFFICES ASSUME CountInv, [Next]_vars PROVE [Abstract!Next]_(Abstract!vars)
  OBVIOUS
<1> TypeOK
  BY DEF CountInv
<1>1. ASSUME NEW t \in Threads, Call(t) PROVE [Abstract!Next]_(Abstract!vars)
  <2>1. Abstract!Ask(t)
    BY <1>1, ClientMoves DEF Call, Places, ClientOf, Abstract!Ask, Abstract!Move
  <2> QED BY <2>1 DEF Abstract!Next
<1>2. ASSUME NEW t \in Threads, Step(t) PROVE [Abstract!Next]_(Abstract!vars)
  <2>1. CASE Enter(t)
    <3>1. pc[t] = "entering" /\ ClientOf(pc[t]) = "asking"
      BY <2>1 DEF Enter, ClientOf
    <3>2. CASE TakeFront(t)
      BY <3>1, <3>2, TakeFrontGrants
    <3>3. CASE free_list = <<>> /\ MayCreate /\ Goto(t, "using")
               /\ cur_cnt' = cur_cnt + 1 /\ UNCHANGED free_list
      BY <3>1, <3>3, CreateGrantsOrFails
    <3>4. CASE ServerFails /\ free_list = <<>> /\ MayCreate
               /\ StayEmptyHanded(t, "outside")
      BY <3>1, <3>4, CreateGrantsOrFails DEF StayEmptyHanded
    <3>5. CASE StayEmptyHanded(t, "waiting")
      BY <3>1, <3>5, InnerMoveStutters
    <3> QED BY <2>1, <3>2, <3>3, <3>4, <3>5 DEF Enter
  <2>2. CASE TestAgain(t)
    <3>1. ClientOf(pc[t]) = "asking"
      BY <2>2 DEF TestAgain, ClientOf
    <3> QED BY <2>2, <3>1, TakeFrontGrants, InnerMoveStutters DEF TestAgain
  <2>3. CASE Expire(t)
    BY <2>3, InnerMoveStutters DEF Expire, ClientOf
  <2>4. CASE LastTest(t)
    <3>1. ClientOf(pc[t]) = "asking"
      BY <2>4 DEF LastTest, ClientOf
    <3> QED BY <2>4, <3>1, TakeFrontGrants, GiveUpImplements DEF LastTest
  <2>5. CASE SpuriousWakeup(t)
    BY <2>5, InnerMoveStutters DEF SpuriousWakeup, ClientOf
  <2>6. CASE Release(t)
    BY <2>6, ReleaseReturns
  <2> QED BY <1>2, <2>1, <2>2, <2>3, <2>4, <2>5, <2>6 DEF Step
<1>3. CASE UNCHANGED vars
  BY <1>3 DEF vars, Abstract!vars
<1> QED BY <1>1, <1>2, <1>3 DEF Next

LEMMA InitImplements == Init => Abstract!Init
BY PoolAssumption DEF Init, Abstract!Init, ClientOf

(* To its callers the pool is a BoundedPool: never more than Max users, and
   nobody waits or gives up while a connection could be had. *)
THEOREM Refinement == Spec => ImplementsBoundedPool
BY InitImplements, StepImplements, CountInvariant, PTL
DEF Spec, ImplementsBoundedPool, Abstract!Spec

-----------------------------------------------------------------------------
(* The nesting of acquisitions (module HandlerPools).  The argument orders the
   pools: a thread that holds a token connection asks for nothing, one that holds a
   ranking connection only for a slave one, one that holds a master connection for
   those two, the user of the short-URL server for master or token.  Only "slave"
   comes before and after others, and there are too few threads to exhaust it while
   all of them wait. *)

(* What may be asked for by a thread that holds p. *)
After(p) == CASE p = "token" -> {}
              [] p = "ranking" -> {"slave"}
              [] p = "master" -> {"ranking", "token"}
              [] p = "rpc" -> {"master", "token"}
              [] p = "slave" -> Pools

(* The shape of a chain c that the proof uses: short, over the pools, ordered
   by After, and nothing is asked for with two slave connections in hand. *)
Shape(c) ==
    /\ c \in Seq(Pools)
    /\ Len(c) <= 4
    /\ \A i, j \in 1..Len(c) : i < j => c[j] \in After(c[i])
    /\ \A i, j, k \in 1..Len(c) : i < j /\ j < k => ~(c[i] = "slave" /\ c[j] = "slave")

(* The beginnings of a chain of good shape have a good shape. *)
LEMMA BeginningsKeepShape ==
    ASSUME NEW c, Shape(c), NEW b \in Beginnings(c)
    PROVE  Shape(b) /\ Len(b) <= Len(c) /\ \A i \in 1..Len(b) : b[i] = c[i]
<1>1. PICK n \in 1..Len(c) : b = SubSeq(c, 1, n)
  BY DEF Beginnings
<1>2. c \in Seq(Pools) /\ Len(c) \in Nat
  BY LenProperties DEF Shape
<1>3. b \in Seq(Pools) /\ Len(b) = n /\ \A i \in 1..n : b[i] = c[i]
  <2>1. 1 \in 1..Len(c) + 1 /\ n \in 1 - 1..Len(c)
    BY <1>1, <1>2
  <2> QED BY <1>1, <1>2, <2>1, SubSeqProperties
<1>4. QED
  BY <1>1, <1>2, <1>3 DEF Shape

(* The chains themselves have it. *)
LEMMA ChainsHaveShape ==
    /\ Shape(ShareOrDelete) /\ Shape(CancelOrPv) /\ Shape(InstantUpload)
    /\ Shape(ListShared) /\ Shape(RankingList) /\ Shape(SharePicture)
    /\ Shape(Refresh) /\ Shape(Resolve) /\ \A c \in Single : Shape(c)
<1>1. Shape(ShareOrDelete) /\ Shape(CancelOrPv) /\ Shape(InstantUpload)
  BY DEF Shape, After, Pools, ShareOrDelete, CancelOrPv, InstantUpload
<1>2. Shape(ListShared) /\ Shape(Refresh) /\ Shape(Resolve)
  BY DEF Shape, After, Pools, ListShared, Refresh, Resolve
<1>3. Shape(RankingList)
  BY DEF Shape, After, Pools, RankingList
<1>4. Shape(SharePicture)
  BY DEF Shape, After, Pools, SharePicture
<1>5. Shape(<<"master">>) /\ Shape(<<"slave">>) /\ Shape(<<"token">>)
  BY DEF Shape, After, Pools
<1>6. QED
  BY <1>1, <1>2, <1>3, <1>4, <1>5 DEF Single

LEMMA EveryChain ==
    ASSUME NEW t, NEW c \in ChainsOf(t) \cup {<<>>}
    PROVE  Shape(c)
<1>1. Shape(<<>>)
  BY DEF Shape
<1>2. QED
  BY <1>1, ChainsHaveShape, BeginningsKeepShape DEF ChainsOf

(* The refresh thread asks for nothing once it has a slave connection, the web
   thread then asks for a token. *)
LEMMA BackgroundChain ==
    ASSUME NEW c \in ChainsOf(Background) \cup {<<>>},
           NEW i \in 1..Len(c), NEW j \in 1..Len(c), i < j
    PROVE  c[i] # "slave"
<1>1. c \in Beginnings(Refresh)
  BY DEF ChainsOf
<1>2. Len(c) <= 2 /\ c[i] = Refresh[i]
  <2>1. Shape(Refresh) /\ Len(Refresh) <= 2
    BY ChainsHaveShape DEF Refresh
  <2> QED BY <1>1, <2>1, BeginningsKeepShape
<1>3. Len(c) \in Nat /\ i = 1
  BY <1>2, EveryChain, LenProperties, SMTT(20) DEF Shape
<1>4. QED
  BY <1>2, <1>3 DEF Refresh

LEMMA WebChain ==
    ASSUME NEW c \in ChainsOf(Web) \cup {<<>>},
           NEW j \in 1..Len(c), j > 1
    PROVE  c[j] = "token"
<1>1. c \in Beginnings(Resolve)
  BY SizesAssumption DEF ChainsOf
<1>2. Len(c) <= 2 /\ c[j] = Resolve[j]
  <2>1. Len(c) <= Len(Resolve) /\ c[j] = Resolve[j]
    BY <1>1, ChainsHaveShape, BeginningsKeepShape
  <2>2. QED
    BY <2>1 DEF Resolve
<1>3. Len(c) \in Nat /\ j = 2
  BY <1>2, EveryChain, LenProperties DEF Shape
<1>4. QED
  BY <1>2, <1>3 DEF Resolve

-----------------------------------------------------------------------------
LEMMA HandlersTypeInvariant == HandlersSpec => []HandlersTypeOK
<1>1. HandlersInit => HandlersTypeOK
  BY DEF HandlersInit, HandlersTypeOK
<1>2. HandlersTypeOK /\ [HandlersNext]_handlerVars => HandlersTypeOK'
  <2> SUFFICES ASSUME HandlersTypeOK, [HandlersNext]_handlerVars PROVE HandlersTypeOK'
    OBVIOUS
  <2>0. \A t \in HandlerThreads : Len(chain[t]) \in Nat
    BY EveryChain, LenProperties DEF HandlersTypeOK, Shape
  <2>1. CASE UNCHANGED handlerVars
    BY <2>1 DEF HandlersTypeOK, handlerVars
  <2>2. ASSUME NEW t \in HandlerThreads, Start(t) PROVE HandlersTypeOK'
    <3>1. PICK c \in ChainsOf(t) : chain' = [chain EXCEPT ![t] = c]
      BY <2>2 DEF Start
    <3>2. held[t] = 0
      BY <2>2 DEF Start, Busy, HandlersTypeOK
    <3>3. Len(c) \in Nat
      BY EveryChain, LenProperties DEF Shape
    <3>4. \A u \in HandlerThreads : chain'[u] = IF u = t THEN c ELSE chain[u]
      BY <3>1 DEF HandlersTypeOK
    <3>5. UNCHANGED <<held, leaving>> /\ chain' = [u \in HandlerThreads |-> chain'[u]]
      BY <2>2, <3>1 DEF Start, HandlersTypeOK
    <3>6. \A u \in HandlerThreads :
              chain'[u] \in ChainsOf(u) \cup {<<>>} /\ held'[u] <= Len(chain'[u])
      BY <3>1, <3>2, <3>3, <3>4, <3>5 DEF HandlersTypeOK
    <3>7. QED
      BY <3>5, <3>6 DEF HandlersTypeOK
  <2>3. ASSUME NEW t \in HandlerThreads, Get(t) PROVE HandlersTypeOK'
    BY <2>0, <2>3, SMTT(20) DEF Get, Asking, HandlersTypeOK
  <2>4. ASSUME NEW t \in HandlerThreads, Return(t) PROVE HandlersTypeOK'
    BY <2>4 DEF Return, HandlersTypeOK
  <2>5. ASSUME NEW t \in HandlerThreads, PutBack(t) PROVE HandlersTypeOK'
    BY <2>0, <2>5 DEF PutBack, HandlersTypeOK
  <2>6. ASSUME NEW t \in HandlerThreads, Finish(t) PROVE HandlersTypeOK'
    BY <2>6 DEF Finish, HandlersTypeOK
  <2>7. QED
    BY <2>1, <2>2, <2>3, <2>4, <2>5, <2>6 DEF HandlersNext, Progress
<1>3. QED
  BY <1>1, <1>2, PTL DEF HandlersSpec

(* A resource with a unit that somebody waits for is held by somebody. *)
LEMMA HolderOfExhausted ==
    ASSUME NEW p \in Pools, p # "slave", Exhausted(p)
    PROVE  \E t \in HandlerThreads, i \in 1..4 : i <= held[t] /\ chain[t][i] = p
<1>1. Cap[p] \in Nat /\ Cap[p] >= 1
  BY SizesAssumption DEF Cap, Pools
<1>2. Taken(p) # {}
  BY <1>1, FS_EmptySet DEF Exhausted
<1>3. QED
  BY <1>2 DEF Taken

-----------------------------------------------------------------------------
(* The state in which every busy thread waits contradicts the order of the
   pools. *)
LEMMA Progressing == HandlersTypeOK => NotStuck
<1> SUFFICES ASSUME HandlersTypeOK,
                    NEW u \in HandlerThreads, Busy(u),
                    \A t \in HandlerThreads : Busy(t) => Blocked(t)
             PROVE  FALSE
  BY DEF NotStuck
<1>1. \A t \in HandlerThreads : Shape(chain[t]) /\ Len(chain[t]) \in Nat
  BY EveryChain, LenProperties DEF HandlersTypeOK, Shape
<1>2. ASSUME NEW t \in HandlerThreads, held[t] > 0
      PROVE  Blocked(t) /\ held[t] + 1 \in 1..Len(chain[t])
  <2>1. Busy(t)
    BY <1>2 DEF Busy, HandlersTypeOK
  <2>2. QED
    BY <1>1, <2>1 DEF Blocked, Asking, HandlersTypeOK
<1>3. ASSUME NEW p \in Pools, p # "slave", NEW t \in HandlerThreads, Blocked(t), Wanted(t) = p
      PROVE  \E s \in HandlerThreads : Blocked(s) /\ Wanted(s) \in After(p)
  <2>1. PICK s \in HandlerThreads, i \in 1..4 : i <= held[s] /\ chain[s][i] = p
    BY <1>3, HolderOfExhausted DEF Blocked
  <2>2. held[s] \in Nat /\ held[s] > 0
    BY <2>1 DEF HandlersTypeOK
  <2>3. Blocked(s) /\ held[s] + 1 \in 1..Len(chain[s])
    BY <1>2, <2>2
  <2>4. chain[s][held[s] + 1] \in After(chain[s][i])
    BY <1>1, <2>1, <2>2, <2>3 DEF Shape
  <2>5. QED
    BY <2>1, <2>3, <2>4 DEF Wanted
<1>4. \A t \in HandlerThreads : Blocked(t) => Wanted(t) # "token"
  BY <1>3 DEF After, Pools
<1>5. \A t \in HandlerThreads : Blocked(t) => Wanted(t) # "slave"
  <2> SUFFICES ASSUME NEW t \in HandlerThreads, Blocked(t), Wanted(t) = "slave"
               PROVE  FALSE
    OBVIOUS
  <2>1. Cardinality(Taken("slave")) >= SlaveMax
    BY DEF Blocked, Exhausted, Cap, Pools
  <2> DEFINE T == Taken("slave")
             thread == [x \in T |-> x[1]]
  <2>2. ASSUME NEW x \in T
        PROVE  /\ x[1] \in Workers
               /\ x[2] \in 1..held[x[1]]
               /\ x[1] \in HandlerThreads /\ x = <<x[1], x[2]>>
               /\ chain[x[1]][x[2]] = "slave"
               /\ held[x[1]] \in Nat /\ held[x[1]] + 1 \in 1..Len(chain[x[1]])
    <3>1. PICK s \in HandlerThreads, i \in 1..4 :
            x = <<s, i>> /\ i <= held[s] /\ chain[s][i] = "slave"
      BY DEF Taken
    <3>2. held[s] \in Nat /\ held[s] > 0
      BY <3>1 DEF HandlersTypeOK
    <3>3. Blocked(s) /\ held[s] + 1 \in 1..Len(chain[s])
      BY <1>2, <3>2
    <3>4. s # Background
      <4>1. chain[s] \in ChainsOf(s) \cup {<<>>}
        BY DEF HandlersTypeOK
      <4>2. i \in 1..Len(chain[s]) /\ i < held[s] + 1
        BY <1>1, <3>1, <3>2, <3>3
      <4>3. QED
        BY <3>1, <3>3, <4>1, <4>2, BackgroundChain
    <3>5. s # Web
      BY <1>4, <3>2, <3>3, WebChain DEF HandlersTypeOK, Wanted
    <3>6. x[1] = s /\ x[2] = i
      BY <3>1
    <3>7. s \in Workers
      BY <3>4, <3>5 DEF HandlerThreads
    <3>8. i \in 1..held[s]
      BY <3>1, <3>2
    <3>9. QED
      BY <3>1, <3>2, <3>3, <3>6, <3>7, <3>8
  <2>3. ASSUME NEW x \in T, NEW y \in T, thread[x] = thread[y]
        PROVE  x = y
    <3>1. x[1] = y[1]
      BY <2>3
    <3> DEFINE c == chain[x[1]]
               k == held[x[1]] + 1
    <3>2. /\ x[2] \in 1..Len(c) /\ y[2] \in 1..Len(c) /\ k \in 1..Len(c)
          /\ x[2] < k /\ y[2] < k /\ c[x[2]] = "slave" /\ c[y[2]] = "slave"
      BY <1>1, <2>2, <3>1
    <3>3. Shape(c)
      BY <1>1, <2>2
    <3> HIDE DEF c, k
    <3>4. x[2] = y[2]
      BY <3>2, <3>3 DEF Shape
    <3>5. QED
      BY <2>2, <3>1, <3>4
  <2>4. thread \in Injection(T, Workers)
    BY <2>2, <2>3 DEF Injection, IsInjective
  <2>5. IsFiniteSet(T) /\ Cardinality(T) <= Cardinality(Workers)
    BY <2>4, SizesAssumption, FS_Injection
  <2>6. Cardinality(Workers) \in Nat /\ Cardinality(T) \in Nat
    BY <2>5, SizesAssumption, FS_CardinalityType
  <2>7. QED
    BY <2>1, <2>5, <2>6, SizesAssumption
<1>6. \A t \in HandlerThreads : Blocked(t) => Wanted(t) # "ranking"
  BY <1>3, <1>5 DEF After, Pools
<1>7. \A t \in HandlerThreads : Blocked(t) => Wanted(t) # "master"
  BY <1>3, <1>4, <1>6 DEF After, Pools
<1>8. \A t \in HandlerThreads : Blocked(t) => Wanted(t) # "rpc"
  BY <1>3, <1>4, <1>7 DEF After, Pools
<1>9. Blocked(u) /\ Wanted(u) \in Pools
  BY <1>1 DEF Blocked, Asking, Wanted, Shape, HandlersTypeOK
<1>10. QED
  BY <1>4, <1>5, <1>6, <1>7, <1>8, <1>9 DEF Pools

(* NotStuck holds in every reachable state: the nested pool calls of the
   handlers, the ranking refresh, the web service and the picture RPC never
   wait for each other in a circle as long as the pool "slave" is larger than
   the number of worker threads (128 and 64 in tc_http_server.conf). *)
THEOREM NoDeadlock == HandlersSpec => []NotStuck
BY HandlersTypeInvariant, Progressing, PTL
=============================================================================
