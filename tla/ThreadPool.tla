------------------------------ MODULE ThreadPool ------------------------------
(***************************************************************************)
(* muduo's thread pool as the server uses it: the queue has no bound, the  *)
(* pool is started once and never stopped, and only the I/O loops add      *)
(* tasks.  A critical section of the mutex is one step; module Http adds   *)
(* what the tasks do.                                                      *)
(***************************************************************************)
EXTENDS Naturals, Sequences, FiniteSets

CONSTANTS Workers, Conns
ASSUME PoolAssumption == IsFiniteSet(Workers)

VARIABLES queue,    \* tasks in the order they were added: the connections to read
          place     \* per thread: where it stands in runInThread and take

pool == <<queue, place>>

Testing == {w \in Workers : place[w] = "testing"}
Asleep == {w \in Workers : place[w] = "asleep"}

PoolTypeOK ==
    /\ queue \in Seq(Conns)
    /\ place \in [Workers -> {"off", "testing", "asleep", "busy"}]

start(threads) ==
    /\ queue = <<>>
    /\ place = [w \in Workers |-> IF w \in threads THEN "testing" ELSE "off"]

(* notEmpty_.notify() wakes one of the waiting threads, if there is one *)
NotifyNobody == UNCHANGED place
notify ==
    IF Asleep = {} THEN UNCHANGED place
    ELSE \E w \in Asleep : place' = [place EXCEPT ![w] = "testing"]

run(c) == queue' = Append(queue, c) /\ notify

(* take, with the mutex held: the loop over the empty queue, then the first task *)
wait(w) ==
    /\ w \in Testing /\ queue = <<>>
    /\ place' = [place EXCEPT ![w] = "asleep"] /\ UNCHANGED queue
SpuriousWakeup(w) ==
    /\ w \in Asleep
    /\ place' = [place EXCEPT ![w] = "testing"] /\ UNCHANGED queue
take(w, c) ==
    /\ w \in Testing /\ queue # <<>> /\ c = Head(queue)
    /\ queue' = Tail(queue)
    /\ place' = [place EXCEPT ![w] = "busy"]

finish(w) == place' = [place EXCEPT ![w] = "testing"] /\ UNCHANGED queue

(* A thread sleeps only while as many others as there are tasks are about to look
   at the queue: no task waits for a thread that nobody wakes. *)
NoTaskForgotten == Asleep # {} => Len(queue) <= Cardinality(Testing)
=============================================================================
