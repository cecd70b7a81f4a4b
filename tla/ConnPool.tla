------------------------------ MODULE ConnPool ------------------------------
(***************************************************************************)
(* A connection pool: CDBPool (MySQL) and CachePool (redis) are the same   *)
(* algorithm.  Connections are created on demand up to a maximum, queue in *)
(* a free list, and a call that finds none waits on a condition variable.  *)
(* A step is one critical section of the pool's mutex, or one move of a    *)
(* thread between the queues of the condition variable.                    *)
(*                                                                         *)
(* The program never destroys a pool, so abort_request_ stays false and    *)
(* the tests of it are left out.                                           *)
(***************************************************************************)
EXTENDS Naturals, Sequences, FiniteSets

CONSTANTS Threads,
          NoConn,   \* null
          Min, Max, \* connections opened by Init, and at most
          Waits,    \* kinds of calls made: timeout_ms <= 0 or > 0
          ServerFails  \* TRUE: opening a connection can fail

ASSUME PoolAssumption ==
    /\ Min \in Nat /\ Max \in Nat /\ Min <= Max
    /\ NoConn \notin 1..Max
    /\ Waits \subseteq {"forever", "timed"}
    /\ ServerFails \in BOOLEAN
    /\ IsFiniteSet(Threads)

VARIABLES
    free_list,   \* free_list_: connections, named in the order of their creation
    cur_cnt,     \* db_cur_conn_cnt_
    pc,          \* per thread: where it stands in GetDBConn, or "using"
    wait,        \* per thread: the kind of its call
    conn         \* per thread: the connection it uses

vars == <<free_list, cur_cnt, pc, wait, conn>>

Conns == 1..cur_cnt
Places == {"outside", "entering", "waiting", "notified", "expired", "using"}

TypeOK ==
    /\ free_list \in Seq(1..Max)
    /\ cur_cnt \in 0..Max
    /\ pc \in [Threads -> Places]
    /\ wait \in [Threads -> Waits \cup {"forever"}]
    /\ conn \in [Threads -> 1..Max \cup {NoConn}]

Waiters == {t \in Threads : pc[t] = "waiting"}
Users == {t \in Threads : pc[t] = "using"}
Awake == {t \in Threads : pc[t] \in {"notified", "expired"}}
Goto(t, place) == pc' = [pc EXCEPT ![t] = place]

Init ==
    /\ free_list = [i \in 1..Min |-> i]
    /\ cur_cnt = Min
    /\ pc = [t \in Threads |-> "outside"]
    /\ wait = [t \in Threads |-> "forever"]
    /\ conn = [t \in Threads |-> NoConn]

(* the end of GetDBConn: take the front of the list *)
TakeFront(t) ==
    /\ free_list # <<>>
    /\ conn' = [conn EXCEPT ![t] = Head(free_list)]
    /\ free_list' = Tail(free_list)
    /\ Goto(t, "using")
    /\ UNCHANGED <<cur_cnt, wait>>

StayEmptyHanded(t, place) ==
    Goto(t, place) /\ UNCHANGED <<free_list, cur_cnt, wait, conn>>

Call(t) ==
    /\ pc[t] = "outside"
    /\ \E w \in Waits : wait' = [wait EXCEPT ![t] = w]
    /\ Goto(t, "entering")
    /\ UNCHANGED <<free_list, cur_cnt, conn>>

(* GetDBConn up to the first wait.  A new connection goes through the empty
   list straight to the caller. *)
MayCreateOneMore == cur_cnt <= Max
MayCreate == cur_cnt < Max
Enter(t) ==
    /\ pc[t] = "entering"
    /\ \/ TakeFront(t)
       \/ /\ free_list = <<>>
          /\ MayCreate
          /\ cur_cnt' = cur_cnt + 1
          /\ conn' = [conn EXCEPT ![t] = cur_cnt + 1]
          /\ Goto(t, "using")
          /\ UNCHANGED <<free_list, wait>>
       \/ ServerFails /\ free_list = <<>> /\ MayCreate /\ StayEmptyHanded(t, "outside")
       \/ free_list = <<>> /\ ~MayCreate /\ StayEmptyHanded(t, "waiting")

(* wait tests its predicate again after every wake-up *)
TrustNotify(t) ==
    /\ pc[t] = "notified"
    /\ TakeFront(t) \/ (free_list = <<>> /\ StayEmptyHanded(t, "using"))
TestAgain(t) ==
    /\ pc[t] = "notified"
    /\ TakeFront(t) \/ (free_list = <<>> /\ StayEmptyHanded(t, "waiting"))

(* only a call with timeout_ms > 0 has a deadline; the list is tested once more *)
Expire(t) == pc[t] = "waiting" /\ wait[t] = "timed" /\ StayEmptyHanded(t, "expired")
LastTest(t) ==
    /\ pc[t] = "expired"
    /\ TakeFront(t) \/ (free_list = <<>> /\ StayEmptyHanded(t, "outside"))

SpuriousWakeup(t) == pc[t] = "waiting" /\ StayEmptyHanded(t, "notified")

(* what notify_one makes of the queue p *)
NotifyNobody(p, q) == q = p
NotifyOne(p, q) ==
    \/ (\A t \in Threads : p[t] # "waiting") /\ q = p
    \/ \E t \in Threads : p[t] = "waiting" /\ q = [p EXCEPT ![t] = "notified"]

(* RelDBConn, from the destructor of AutoRelDBCon: a connection that is in the
   list already is not put there twice *)
Listed(c) == \E i \in 1..Len(free_list) : free_list[i] = c
GiveBack(t) ==
    LET left == [pc EXCEPT ![t] = "outside"] IN
    IF Listed(conn[t])
    THEN UNCHANGED free_list /\ pc' = left
    ELSE free_list' = Append(free_list, conn[t]) /\ NotifyOne(left, pc')
Release(t) ==
    /\ pc[t] = "using"
    /\ GiveBack(t)
    /\ conn' = [conn EXCEPT ![t] = NoConn]
    /\ UNCHANGED <<cur_cnt, wait>>

Step(t) == \/ Enter(t) \/ TestAgain(t) \/ Expire(t) \/ LastTest(t)
           \/ SpuriousWakeup(t) \/ Release(t)
Next == \E t \in Threads : Call(t) \/ Step(t)

Spec == Init /\ [][Next]_vars

(* A thread that can take the mutex does, a deadline is an absolute time that
   wake-ups do not put off, and handlers end: their statements return. *)
Fairness == \A t \in Threads :
    /\ WF_vars(Enter(t)) /\ WF_vars(TestAgain(t)) /\ WF_vars(LastTest(t))
    /\ SF_vars(Expire(t)) /\ WF_vars(Release(t))
FairSpec == Spec /\ Fairness

-----------------------------------------------------------------------------
(* No connection serves two threads, or a thread and the free list: a thread
   would read the answer to another one's statement. *)
ExclusiveUse ==
    /\ \A t \in Threads : pc[t] = "using" <=> conn[t] # NoConn
    /\ \A s, t \in Threads : conn[s] = conn[t] /\ conn[s] # NoConn => s = t
    /\ \A t \in Threads : ~Listed(conn[t])
    /\ \A i, j \in 1..Len(free_list) : free_list[i] = free_list[j] => i = j

(* Exactly the connections opened so far are free or in use, so the pool never
   waits for connections that nobody has. *)
NoneLost ==
    \A c \in 1..Max : c \in Conns <=> Listed(c) \/ \E t \in Threads : conn[t] = c

(* What the counting below rests on: the list and the users share the opened
   connections, and threads wait only when no more may be opened. *)
Balance == Cardinality(Users) + Len(free_list) = cur_cnt
WaitersFindItFull ==
    \A t \in Threads :
        /\ pc[t] \in {"waiting", "notified", "expired"} => cur_cnt = Max
        /\ pc[t] = "expired" => "timed" \in Waits

(* While threads sleep, at least as many others are on their way to the free
   list as there are connections in it: no sleeper could have been served. *)
NoLostWakeup == Waiters # {} => Len(free_list) <= Cardinality(Awake)

CountInv == /\ TypeOK /\ ExclusiveUse /\ NoneLost
            /\ Balance /\ WaitersFindItFull /\ NoLostWakeup

(* When calls stop coming, everybody who waits is served. *)
QueueDrains ==
    <>[](\A t \in Threads : pc[t] # "entering") =>
        \A t \in Threads : pc[t] = "waiting" ~> pc[t] \notin {"waiting", "notified"}

(* The pool keeps the promise of BoundedPool, which HandlerPools builds on. *)
ClientOf(place) ==
    CASE place = "outside" -> "outside"
      [] place = "using" -> "using"
      [] OTHER -> "asking"
Abstract == INSTANCE BoundedPool WITH
    Impatient <- "timed" \in Waits,
    client <- [t \in Threads |-> ClientOf(pc[t])],
    inUse <- cur_cnt - Len(free_list)
ImplementsBoundedPool == Abstract!Spec
=============================================================================
