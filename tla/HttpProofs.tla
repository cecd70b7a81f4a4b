------------------------------ MODULE HttpProofs ------------------------------
(***************************************************************************)
(* For any number of workers and connections: the pool leaves no task to   *)
(* sleeping threads, a request that OnRead has to itself is handled once   *)
(* and whole, and connections live while they are used.                    *)
(***************************************************************************)
EXTENDS Http, SequenceTheorems, FiniteSetTheorems, TLAPS

LEMMA Appended ==
    ASSUME NEW S, NEW s \in Seq(S), NEW e \in S, NEW t, t = Append(s, e)
    PROVE  /\ t \in Seq(S) /\ Len(s) \in Nat /\ Len(t) = Len(s) + 1
           /\ \A i \in 1..Len(s) : t[i] = s[i]
           /\ t[Len(t)] = e
OBVIOUS

LEMMA Popped ==
    ASSUME NEW S, NEW s \in Seq(S), s # <<>>, NEW t, t = Tail(s)
    PROVE  /\ t \in Seq(S) /\ Len(s) \in Nat \ {0} /\ Len(t) = Len(s) - 1
           /\ Head(s) = s[1] /\ Head(s) \in S
           /\ \A i \in 1..Len(t) : t[i] = s[i + 1]
<1>1. Len(s) \in Nat \ {0}
  BY EmptySeq
<1> QED BY <1>1, HeadTailProperties

-----------------------------------------------------------------------------
(* Types *)
LEMMA TypeInit == Init => TypeOK
BY HttpAssumption DEF Init, TypeOK, PoolTypeOK, start, Bodies, Scenario

LEMMA ClientTypes ==
    ASSUME TypeOK, NEW c \in Conns, Sends(c) \/ Closes(c)
    PROVE  TypeOK'
<1> DEFINE C == [sent : 0..MaxSegs, got : Nat, closed : BOOLEAN]
<1>0. client \in [Conns -> C] /\ client[c] \in C
  BY DEF TypeOK
<1>1. client[c].sent < env.segs => client[c].sent + 1 \in 0..MaxSegs
  BY HttpAssumption DEF TypeOK, Scenario
<1>2. client' \in [Conns -> C]
  <2>1. CASE Sends(c)
    <3>1. [client[c] EXCEPT !.sent = @ + 1] \in C
      BY <1>0, <1>1, <2>1 DEF Sends
    <3> QED BY <1>0, <2>1, <3>1 DEF Sends
  <2>2. CASE Closes(c)
    <3>1. [client[c] EXCEPT !.closed = TRUE] \in C
      BY <1>0
    <3> QED BY <1>0, <2>2, <3>1 DEF Closes
  <2> QED BY <2>1, <2>2
<1>3. UNCHANGED <<env, queue, place, loops, buffer, out, parser, work, handled>>
  BY DEF Sends, Closes, pool
<1> QED BY <1>2, <1>3 DEF TypeOK, PoolTypeOK, loops, work

LEMMA BaseTypes ==
    ASSUME TypeOK, (\E c \in Conns : newConnection(c)) \/ removeConnectionInLoop
    PROVE  TypeOK'
<1>1. ASSUME NEW c \in Conns, newConnection(c) PROVE TypeOK'
  <2>1. io' \in Seq(Functors)
    BY <1>1, Appended DEF TypeOK, newConnection, Functors
  <2> QED BY <1>1, <2>1 DEF TypeOK, PoolTypeOK, newConnection, pool, work
<1>2. ASSUME removeConnectionInLoop PROVE TypeOK'
  <2>1. base' \in Seq(Conns) /\ Head(base) \in Conns
    BY <1>2, Popped DEF TypeOK, removeConnectionInLoop
  <2>2. io' \in Seq(Functors)
    BY <1>2, <2>1 DEF TypeOK, removeConnectionInLoop, Functors
  <2> QED BY <1>2, <2>1, <2>2 DEF TypeOK, PoolTypeOK, removeConnectionInLoop, pool, work
<1> QED BY <1>1, <1>2

LEMMA ReceivesTypes ==
    ASSUME TypeOK, NEW c \in Conns, NEW n \in Nat, Receives(c, n)
    PROVE  client' \in [Conns -> [sent : 0..MaxSegs, got : Nat, closed : BOOLEAN]]
<1> DEFINE C == [sent : 0..MaxSegs, got : Nat, closed : BOOLEAN]
           g == IF client[c].closed THEN client[c].got ELSE client[c].got + n
<1>1. client \in [Conns -> C] /\ client[c] \in C
  BY DEF TypeOK
<1>2. [client[c] EXCEPT !.got = g] \in C
  BY <1>1
<1>3. client' = [client EXCEPT ![c] = [client[c] EXCEPT !.got = g]]
  BY <1>1 DEF Receives
<1> QED BY <1>1, <1>2, <1>3

LEMMA SendTypes ==
    ASSUME TypeOK, NEW c \in Conns, sendInLoop(c)
    PROVE  /\ client' \in [Conns -> [sent : 0..MaxSegs, got : Nat, closed : BOOLEAN]]
           /\ out' \in [Conns -> Nat]
<1>1. CASE Receives(c, 1) /\ UNCHANGED out
  BY <1>1, ReceivesTypes DEF TypeOK
<1>2. CASE UNCHANGED client /\ out' = [out EXCEPT ![c] = @ + 1]
  BY <1>2 DEF TypeOK
<1> QED BY <1>1, <1>2 DEF sendInLoop, TypeOK

LEMMA FunctorTypes ==
    ASSUME TypeOK, doPendingFunctors
    PROVE  TypeOK'
<1>1. io # <<>> /\ io' \in Seq(Functors) /\ Head(io) \in Functors /\ Head(io).conn \in Conns
  <2>1. io \in Seq(Functors) /\ io # <<>> /\ io' = Tail(io)
    BY DEF TypeOK, doPendingFunctors, connectEstablished, SendFunctor, connectDestroyed, Pop
  <2>2. io' \in Seq(Functors) /\ Head(io) \in Functors
    BY <2>1, Popped
  <2> QED BY <2>1, <2>2 DEF Functors
<1>2. CASE connectEstablished
  BY <1>1, <1>2 DEF TypeOK, PoolTypeOK, connectEstablished, pool, work
<1>3. CASE SendFunctor
  BY <1>1, <1>3, SendTypes DEF TypeOK, PoolTypeOK, SendFunctor, pool, work
<1>4. CASE connectDestroyed
  BY <1>1, <1>4 DEF TypeOK, PoolTypeOK, connectDestroyed, pool, work
<1> QED BY <1>2, <1>3, <1>4 DEF doPendingFunctors

LEMMA NotifyTypes ==
    ASSUME TypeOK, notify
    PROVE  /\ place' \in [Workers -> {"off", "testing", "asleep", "busy"}]
           /\ \A w \in Workers : (place'[w] = "busy") = (place[w] = "busy")
<1>1. CASE UNCHANGED place
  BY <1>1 DEF TypeOK, PoolTypeOK
<1>2. ASSUME NEW v \in Asleep, place' = [place EXCEPT ![v] = "testing"]
      PROVE  /\ place' \in [Workers -> {"off", "testing", "asleep", "busy"}]
             /\ \A w \in Workers : (place'[w] = "busy") = (place[w] = "busy")
  BY <1>2 DEF TypeOK, PoolTypeOK, Asleep
<1> QED BY <1>1, <1>2 DEF notify

LEMMA ReadTypes ==
    ASSUME TypeOK, NEW c \in Conns, handleRead(c)
    PROVE  TypeOK'
<1>1. PICK n \in buffer[c] + 1 .. client[c].sent :
          buffer' = [buffer EXCEPT ![c] = n] /\ onMessage(c, n)
  BY DEF handleRead
<1>2. n \in 0..MaxSegs
  BY HttpAssumption DEF TypeOK
<1>3. CASE env.threads = {}
  <2>0. Parsed(n) \in [read_all : BOOLEAN, body : Bodies]
    BY DEF Parsed, Bodies
  <2>1. parser' \in [Conns -> [read_all : BOOLEAN, body : Bodies]]
    BY <1>1, <1>3, <2>0 DEF onMessage, OnReadInLoop, TypeOK
  <2>2. handled' \in [Conns -> Seq(Bodies)]
    <3>1. handled \in [Conns -> Seq(Bodies)] /\ handled[c] \in Seq(Bodies) /\ Parsed(n).body \in Bodies
      BY <2>0 DEF TypeOK
    <3>2. Append(handled[c], Parsed(n).body) \in Seq(Bodies)
      BY <3>1
    <3> QED BY <1>1, <1>3, <3>1, <3>2 DEF onMessage, OnReadInLoop
  <2>3. /\ client' \in [Conns -> [sent : 0..MaxSegs, got : Nat, closed : BOOLEAN]]
        /\ out' \in [Conns -> Nat] /\ UNCHANGED pool
    BY <1>1, <1>3, SendTypes DEF onMessage, OnReadInLoop, TypeOK
  <2> QED BY <1>1, <1>2, <2>1, <2>2, <2>3 DEF TypeOK, PoolTypeOK, handleRead, loops, work, pool
<1>4. CASE env.threads # {}
  <2>1. run(c) /\ UNCHANGED <<client, out, parser, handled>>
    BY <1>1, <1>4 DEF onMessage
  <2>2. queue' \in Seq(Conns)
    BY <2>1 DEF run, TypeOK, PoolTypeOK
  <2> QED BY <1>1, <1>2, <2>1, <2>2, NotifyTypes DEF TypeOK, PoolTypeOK, handleRead, loops, work, run
<1> QED BY <1>3, <1>4

LEMMA WriteCloseTypes ==
    ASSUME TypeOK, NEW c \in Conns, handleWrite(c) \/ handleClose(c)
    PROVE  TypeOK'
<1>1. CASE handleWrite(c)
  <2>1. client' \in [Conns -> [sent : 0..MaxSegs, got : Nat, closed : BOOLEAN]]
    BY <1>1, ReceivesTypes DEF TypeOK, handleWrite
  <2>2. out' \in [Conns -> Nat]
    BY <1>1 DEF TypeOK, handleWrite
  <2> QED BY <1>1, <2>1, <2>2 DEF TypeOK, PoolTypeOK, handleWrite, pool, loops, work
<1>2. CASE handleClose(c)
  <2>1. state' = [state EXCEPT ![c] = "disconnected"] /\ base' = Append(base, c)
    BY <1>2 DEF handleClose
  <2>2. /\ state' \in [Conns -> {"none", "connecting", "connected", "disconnected"}]
        /\ base' \in Seq(Conns)
    BY <2>1 DEF TypeOK
  <2>3. s_http_map' \subseteq Conns
    BY <1>2 DEF TypeOK, handleClose
  <2> QED BY <1>2, <2>2, <2>3 DEF TypeOK, PoolTypeOK, handleClose, pool, work
<1> QED BY <1>1, <1>2

LEMMA TakeTypes ==
    ASSUME TypeOK, NEW w \in Workers, Takes(w) \/ Waits(w)
    PROVE  TypeOK'
<1>1. CASE Takes(w)
  <2>1. PICK c \in Conns : take(w, c) /\ task' = [task EXCEPT ![w] = c]
    BY <1>1 DEF Takes
  <2>2. queue' \in Seq(Conns) /\ c # NoConn
    BY <2>1, Popped, HttpAssumption DEF take, TypeOK, PoolTypeOK
  <2> QED BY <1>1, <2>1, <2>2 DEF TypeOK, PoolTypeOK, Takes, take, Testing, Goto, loops, work
<1>2. CASE Waits(w)
  <2>1. PICK p \in {"testing", "asleep"} : place' = [place EXCEPT ![w] = p]
    BY <1>2 DEF Waits, wait, SpuriousWakeup
  <2>2. place[w] # "busy"
    BY <1>2 DEF Waits, wait, SpuriousWakeup, Testing, Asleep
  <2>3. place' \in [Workers -> {"off", "testing", "asleep", "busy"}]
    BY <2>1 DEF TypeOK, PoolTypeOK
  <2>4. \A v \in Workers : (place'[v] = "busy") = (place[v] = "busy")
    BY <2>1, <2>2 DEF TypeOK, PoolTypeOK
  <2>5. UNCHANGED <<env, client, queue, loops, buffer, out, parser, work, handled>>
    BY <1>2 DEF Waits, wait, SpuriousWakeup
  <2> QED BY <2>3, <2>4, <2>5 DEF TypeOK, PoolTypeOK, loops, work
<1> QED BY <1>1, <1>2

LEMMA OnReadTypes ==
    ASSUME TypeOK, NEW w \in Workers, OnRead(w)
    PROVE  TypeOK'
<1> DEFINE c == task[w]
<1>0. c \in Conns /\ step[w] # "idle" /\ place[w] = "busy"
  BY DEF TypeOK, OnRead, Peek, Reset, Execute, Handle, Send, QueueInLoop, Return, At
<1> DEFINE S == {"idle", "peek", "reset", "execute", "test", "send", "queue", "return"}
<1>s. ASSUME NEW s \in S \ {"idle"}, Goto(w, s)
      PROVE  step' \in [Workers -> S] /\ \A v \in Workers : (step'[v] = "idle") = (step[v] = "idle")
  BY <1>0, <1>s DEF TypeOK, Goto
<1>1. CASE Peek(w)
  BY <1>0, <1>1 DEF TypeOK, PoolTypeOK, Peek, At, Goto, pool, loops
<1>2. CASE Reset(w)
  BY <1>0, <1>2 DEF TypeOK, PoolTypeOK, Reset, At, Goto, pool, loops, Bodies
<1>3. CASE Execute(w)
  <2>1. PICK p : /\ p \in [read_all : BOOLEAN, body : Bodies]
                 /\ parser' = [parser EXCEPT ![c] = p]
    BY <1>3 DEF Execute, Parsed, Bodies
  <2> QED BY <1>0, <1>3, <2>1 DEF TypeOK, PoolTypeOK, Execute, At, Goto, pool, loops
<1>4. CASE Handle(w)
  <2>1. handled \in [Conns -> Seq(Bodies)] /\ handled[c] \in Seq(Bodies) /\ parser[c].body \in Bodies
    BY <1>0 DEF TypeOK
  <2>2. Append(handled[c], parser[c].body) \in Seq(Bodies)
    BY <2>1
  <2>3. handled' \in [Conns -> Seq(Bodies)]
    BY <1>0, <1>4, <2>1, <2>2 DEF Handle
  <2>4. Goto(w, "send") \/ Goto(w, "return")
    BY <1>4 DEF Handle
  <2>5. step' \in [Workers -> S] /\ \A v \in Workers : (step'[v] = "idle") = (step[v] = "idle")
    BY <1>s, <2>4
  <2>6. UNCHANGED <<env, client, queue, place, loops, buffer, out, parser, task, seen>>
    BY <1>4 DEF Handle, pool
  <2> QED BY <2>3, <2>5, <2>6 DEF TypeOK, PoolTypeOK, loops
<1>5. CASE Send(w)
  BY <1>0, <1>5 DEF TypeOK, PoolTypeOK, Send, At, Goto, pool, loops
<1>6. CASE QueueInLoop(w)
  <2>1. io' \in Seq(Functors)
    BY <1>0, <1>6 DEF TypeOK, QueueInLoop, Functors
  <2>2. step' \in [Workers -> S] /\ \A v \in Workers : (step'[v] = "idle") = (step[v] = "idle")
    BY <1>s, <1>6 DEF QueueInLoop
  <2>3. UNCHANGED <<env, client, queue, place, state, connections, s_http_map, base, buffer, out, parser, task, seen, handled>>
    BY <1>6 DEF QueueInLoop, pool
  <2> QED BY <2>1, <2>2, <2>3 DEF TypeOK, PoolTypeOK
<1>7. CASE Return(w)
  BY <1>0, <1>7, HttpAssumption DEF TypeOK, PoolTypeOK, Return, At, Goto, finish, loops
<1> QED BY <1>1, <1>2, <1>3, <1>4, <1>5, <1>6, <1>7 DEF OnRead

LEMMA TypeStep == TypeOK /\ [Next]_vars => TypeOK'
<1> SUFFICES ASSUME TypeOK, [Next]_vars PROVE TypeOK'
  OBVIOUS
<1>1. CASE UNCHANGED vars
  BY <1>1 DEF TypeOK, PoolTypeOK, vars, pool, loops, work
<1>2. CASE Next
  BY <1>2, ClientTypes, BaseTypes, FunctorTypes, ReadTypes, WriteCloseTypes, TakeTypes, OnReadTypes DEF Next
<1> QED BY <1>1, <1>2

(* Type correctness of the way from a segment to an answer. *)
THEOREM TypeCorrect == Spec => []TypeOK
BY TypeInit, TypeStep, PTL DEF Spec

-----------------------------------------------------------------------------
(* The pool's queue *)
LEMMA TestingFinite == IsFiniteSet(Testing) /\ Cardinality(Testing) \in Nat
<1>1. IsFiniteSet(Testing)
  BY PoolAssumption, FS_Subset DEF Testing
<1> QED BY <1>1, FS_CardinalityType

(* a thread that begins to test counts as one more *)
LEMMA OneMoreTests ==
    ASSUME PoolTypeOK, NEW w \in Workers \ Testing, place' = [place EXCEPT ![w] = "testing"]
    PROVE  Cardinality(Testing') = Cardinality(Testing) + 1 /\ Asleep' = Asleep \ {w}
<1>1. Testing' = Testing \cup {w} /\ Asleep' = Asleep \ {w}
  BY DEF PoolTypeOK, Testing, Asleep
<1> QED BY <1>1, TestingFinite, FS_AddElement

LEMMA OneLessTests ==
    ASSUME PoolTypeOK, NEW w \in Testing, place' = [place EXCEPT ![w] = "busy"]
    PROVE  Cardinality(Testing') = Cardinality(Testing) - 1 /\ Asleep' = Asleep
<1>1. Testing' = Testing \ {w} /\ Asleep' = Asleep
  BY DEF PoolTypeOK, Testing, Asleep
<1> QED BY <1>1, TestingFinite, FS_RemoveElement

LEMMA PoolInit == Init => NoTaskForgotten
BY DEF Init, start, NoTaskForgotten, Asleep

LEMMA PoolRun ==
    ASSUME PoolTypeOK, NoTaskForgotten, NEW c \in Conns, run(c)
    PROVE  NoTaskForgotten'
<1>1. Len(queue) \in Nat /\ Len(queue') = Len(queue) + 1
  BY DEF run, PoolTypeOK
<1>2. CASE Asleep = {}
  BY <1>2 DEF run, notify, NoTaskForgotten, Asleep
<1>3. CASE Asleep # {}
  <2>1. PICK w \in Asleep : place' = [place EXCEPT ![w] = "testing"]
    BY <1>3 DEF run, notify
  <2>2. w \in Workers \ Testing
    BY DEF Asleep, Testing
  <2>3. Cardinality(Testing') = Cardinality(Testing) + 1
    BY <2>1, <2>2, OneMoreTests
  <2> QED BY <1>1, <1>3, <2>3, TestingFinite DEF NoTaskForgotten
<1> QED BY <1>2, <1>3

LEMMA PoolTake ==
    ASSUME PoolTypeOK, NoTaskForgotten, NEW w \in Workers, NEW c \in Conns, take(w, c)
    PROVE  NoTaskForgotten'
<1>1. Len(queue) \in Nat \ {0} /\ Len(queue') = Len(queue) - 1
  BY Popped DEF take, PoolTypeOK
<1>2. Cardinality(Testing') = Cardinality(Testing) - 1 /\ Asleep' = Asleep
  BY OneLessTests DEF take
<1> QED BY <1>1, <1>2, TestingFinite DEF NoTaskForgotten

LEMMA PoolWait ==
    ASSUME PoolTypeOK, NoTaskForgotten, NEW w \in Workers, wait(w) \/ SpuriousWakeup(w) \/ (finish(w) /\ place[w] = "busy")
    PROVE  NoTaskForgotten'
<1>0. UNCHANGED queue /\ Len(queue) \in Nat
  BY DEF wait, SpuriousWakeup, finish, PoolTypeOK
<1>1. CASE wait(w)
  <2>1. Len(queue') = 0
    BY <1>0, <1>1 DEF wait
  <2>2. IsFiniteSet(Testing') /\ Cardinality(Testing') \in Nat
    <3>1. Testing' \subseteq Workers
      BY DEF Testing
    <3> QED BY <3>1, PoolAssumption, FS_Subset, FS_CardinalityType
  <2> QED BY <2>1, <2>2 DEF NoTaskForgotten
<1>2. CASE SpuriousWakeup(w) \/ (finish(w) /\ place[w] = "busy")
  <2>1. w \in Workers \ Testing /\ place' = [place EXCEPT ![w] = "testing"]
    BY <1>2 DEF SpuriousWakeup, finish, Asleep, Testing
  <2>2. Cardinality(Testing') = Cardinality(Testing) + 1 /\ Asleep' = Asleep \ {w}
    BY <2>1, OneMoreTests
  <2> QED BY <1>0, <2>2, TestingFinite DEF NoTaskForgotten
<1> QED BY <1>1, <1>2

LEMMA PoolStep == TypeOK /\ NoTaskForgotten /\ [Next]_vars => NoTaskForgotten'
<1> SUFFICES ASSUME TypeOK, NoTaskForgotten, [Next]_vars PROVE NoTaskForgotten'
  OBVIOUS
<1>0. PoolTypeOK
  BY DEF TypeOK
<1>1. CASE UNCHANGED pool
  BY <1>1 DEF pool, NoTaskForgotten, Asleep, Testing
<1>2. ASSUME NEW c \in Conns, handleRead(c), ~UNCHANGED pool PROVE NoTaskForgotten'
  <2>1. run(c)
    BY <1>2 DEF handleRead, onMessage, OnReadInLoop
  <2> QED BY <1>0, <2>1, PoolRun
<1>3. ASSUME NEW w \in Workers, Takes(w) \/ Waits(w) \/ Return(w) PROVE NoTaskForgotten'
  <2>1. CASE Takes(w)
    BY <1>0, <2>1, PoolTake DEF Takes
  <2>2. CASE Waits(w)
    BY <1>0, <2>2, PoolWait DEF Waits
  <2>3. CASE Return(w)
    <3>1. place[w] = "busy" /\ finish(w)
      BY <2>3 DEF Return, At, TypeOK
    <3> QED BY <1>0, <3>1, PoolWait
  <2> QED BY <1>3, <2>1, <2>2, <2>3
<1>4. CASE Next /\ ~UNCHANGED pool
  <2>1. \/ \E c \in Conns : handleRead(c)
        \/ \E w \in Workers : Takes(w) \/ Waits(w) \/ Return(w)
    BY <1>4 DEF Next, Sends, Closes, newConnection, handleWrite, handleClose, removeConnectionInLoop,
       doPendingFunctors, connectEstablished, SendFunctor, connectDestroyed, OnRead, Peek, Reset,
       Execute, Handle, Send, QueueInLoop
  <2> QED BY <1>2, <1>3, <1>4, <2>1
<1> QED BY <1>1, <1>4 DEF vars

(* No task waits in the queue while the threads that could take it sleep. *)
THEOREM PoolWakes == Spec => []NoTaskForgotten
<1>1. Init => TypeOK /\ NoTaskForgotten
  BY TypeInit, PoolInit
<1>2. TypeOK /\ NoTaskForgotten /\ [Next]_vars => TypeOK' /\ NoTaskForgotten'
  BY TypeStep, PoolStep
<1> QED BY <1>1, <1>2, PTL DEF Spec

-----------------------------------------------------------------------------
(* One request, one handler.  What OnRead and the handlers did so far is told by
   what the buffer holds: without the pool at once, with it by where the task of
   the connection is. *)
BufferBound == \A c \in Conns : buffer[c] <= client[c].sent /\ client[c].sent <= env.segs

HandledInLoop ==
    /\ queue = <<>> /\ \A w \in Workers : place[w] = "off"
    /\ \A c \in Conns : handled[c] = IF buffer[c] = env.segs THEN <<"whole">> ELSE <<>>

QueuedFresh ==
    /\ \A i, j \in 1..Len(queue) : i # j => queue[i] # queue[j]
    /\ \A i \in 1..Len(queue) : /\ buffer[queue[i]] = 1 /\ handled[queue[i]] = <<>>
                                /\ \A w \in Workers : task[w] # queue[i]

WorkerKnows(w) ==
    /\ buffer[task[w]] = 1
    /\ step[w] \in {"peek", "reset", "execute", "test"} => handled[task[w]] = <<>>
    /\ step[w] \in {"reset", "execute"} => seen[w] = 1
    /\ step[w] = "test" => parser[task[w]] = [read_all |-> TRUE, body |-> "whole"]
OneWorkerEach ==
    \A w \in Workers : task[w] # NoConn =>
        /\ WorkerKnows(w)
        /\ \A v \in Workers \ {w} : task[v] # task[w]

HandledByPool ==
    /\ QueuedFresh /\ OneWorkerEach
    /\ \A c \in Conns : handled[c] \in {<<>>, <<"whole">>} /\ (buffer[c] = 0 => handled[c] = <<>>)

OnceInv ==
    /\ TypeOK /\ BufferBound
    /\ env.threads = {} => HandledInLoop
    /\ env.threads # {} /\ env.segs = 1 => HandledByPool

LEMMA SegsPositive == TypeOK => env.segs \in Nat \ {0} /\ env.segs <= MaxSegs
BY HttpAssumption DEF TypeOK, Scenario

LEMMA OnceInit == Init => OnceInv
<1> SUFFICES ASSUME Init PROVE OnceInv
  OBVIOUS
<1>1. TypeOK /\ env.segs \in Nat \ {0}
  BY TypeInit, SegsPositive
<1>2. BufferBound
  BY <1>1 DEF Init, BufferBound
<1>3. env.threads = {} => HandledInLoop
  BY <1>1 DEF Init, start, HandledInLoop
<1>4. HandledByPool
  BY <1>1 DEF Init, start, HandledByPool, QueuedFresh, OneWorkerEach
<1> QED BY <1>1, <1>2, <1>3, <1>4 DEF OnceInv

(* answers change nothing of what was sent *)
LEMMA SentKept ==
    ASSUME TypeOK, NEW c \in Conns, NEW d \in Conns,
           sendInLoop(c) \/ (\E n \in Nat : Receives(c, n)) \/ Closes(c) \/ UNCHANGED client
    PROVE  client'[d].sent = client[d].sent
<1>0. client[d] \in [sent : 0..MaxSegs, got : Nat, closed : BOOLEAN]
  BY DEF TypeOK
<1>1. ASSUME NEW n \in Nat, Receives(c, n) PROVE client'[d].sent = client[d].sent
  BY <1>0, <1>1 DEF Receives, TypeOK
<1>2. CASE Closes(c)
  BY <1>0, <1>2 DEF Closes, TypeOK
<1> QED BY <1>1, <1>2 DEF sendInLoop

LEMMA BufferStep ==
    ASSUME TypeOK, BufferBound, Next
    PROVE  BufferBound' /\ UNCHANGED env
<1>0. UNCHANGED env
  BY DEF Next, Sends, Closes, newConnection, handleRead, handleWrite, handleClose, removeConnectionInLoop,
     doPendingFunctors, connectEstablished, SendFunctor, connectDestroyed, Takes, Waits,
     OnRead, Peek, Reset, Execute, Handle, Send, QueueInLoop, Return
<1>1. ASSUME NEW c \in Conns, Sends(c) PROVE BufferBound'
  <2>1. UNCHANGED buffer /\ client[c].sent < env.segs /\ client[c].sent \in Nat /\ env.segs \in Nat
    BY <1>1, SegsPositive DEF Sends, TypeOK
  <2>2. ASSUME NEW d \in Conns PROVE client'[d].sent = IF d = c THEN client[d].sent + 1 ELSE client[d].sent
    <3>1. client[d] \in [sent : 0..MaxSegs, got : Nat, closed : BOOLEAN]
      BY DEF TypeOK
    <3> QED BY <1>1, <3>1 DEF Sends, TypeOK
  <2>3. \A d \in Conns : buffer[d] \in Nat /\ client[d].sent \in Nat
    BY DEF TypeOK
  <2> QED BY <1>0, <2>1, <2>2, <2>3 DEF BufferBound
<1>2. ASSUME NEW c \in Conns, handleRead(c) PROVE BufferBound'
  <2>1. PICK n \in buffer[c] + 1 .. client[c].sent :
            buffer' = [buffer EXCEPT ![c] = n] /\ onMessage(c, n)
    BY <1>2 DEF handleRead
  <2>2. sendInLoop(c) \/ UNCHANGED client
    BY <2>1 DEF onMessage, OnReadInLoop
  <2>3. \A d \in Conns : client'[d].sent = client[d].sent
    BY <2>2, SentKept
  <2>4. \A d \in Conns : buffer'[d] <= client[d].sent
    BY <2>1 DEF BufferBound, TypeOK
  <2> QED BY <1>0, <2>3, <2>4 DEF BufferBound
<1>3. CASE UNCHANGED buffer /\ \A d \in Conns : client'[d].sent = client[d].sent
  BY <1>0, <1>3 DEF BufferBound
<1>4. ASSUME NEW c \in Conns, Closes(c) \/ newConnection(c) \/ handleWrite(c) \/ handleClose(c)
      PROVE  BufferBound'
  <2>1. UNCHANGED buffer
    BY <1>4 DEF Closes, newConnection, handleWrite, handleClose
  <2>2. Closes(c) \/ UNCHANGED client \/ Receives(c, out[c])
    BY <1>4 DEF newConnection, handleWrite, handleClose
  <2>3. \A d \in Conns : client'[d].sent = client[d].sent
    BY <2>2, SentKept DEF TypeOK
  <2> QED BY <1>3, <2>1, <2>3
<1>5. CASE doPendingFunctors
  <2>1. UNCHANGED buffer
    BY <1>5 DEF doPendingFunctors, connectEstablished, SendFunctor, connectDestroyed
  <2>2. UNCHANGED client \/ (SendFunctor /\ Head(io).conn \in Conns)
    <3>1. CASE SendFunctor
      <4>1. io \in Seq(Functors) /\ io # <<>>
        BY <3>1 DEF SendFunctor, Pop, TypeOK
      <4>2. Head(io) \in Functors
        BY <4>1, Popped
      <4> QED BY <3>1, <4>2 DEF Functors
    <3> QED BY <1>5, <3>1 DEF doPendingFunctors, connectEstablished, connectDestroyed
  <2>3. \A d \in Conns : client'[d].sent = client[d].sent
    BY <2>2, SentKept DEF SendFunctor
  <2> QED BY <1>3, <2>1, <2>3
<1>6. CASE removeConnectionInLoop \/ \E w \in Workers : Takes(w) \/ Waits(w) \/ OnRead(w)
  <2>1. UNCHANGED <<buffer, client>>
    BY <1>6 DEF removeConnectionInLoop, Takes, Waits, OnRead, Peek, Reset, Execute, Handle, Send,
       QueueInLoop, Return
  <2> QED BY <1>3, <2>1
<1> QED BY <1>0, <1>1, <1>2, <1>4, <1>5, <1>6 DEF Next

(* without the pool: the workers never start, and the segment that completes a
   request comes once *)
LEMMA LoopStep ==
    ASSUME OnceInv, env.threads = {}, Next
    PROVE  HandledInLoop'
<1>0. TypeOK /\ BufferBound /\ HandledInLoop /\ UNCHANGED env /\ BufferBound'
  BY BufferStep DEF OnceInv
<1>1. \A w \in Workers : ~Takes(w) /\ ~Waits(w) /\ ~OnRead(w)
  <2>1. \A w \in Workers : place[w] = "off" /\ step[w] = "idle"
    BY <1>0 DEF HandledInLoop, TypeOK
  <2> QED BY <2>1 DEF Takes, Waits, take, wait, SpuriousWakeup, Testing, Asleep, OnRead, Peek, Reset,
         Execute, Handle, Send, QueueInLoop, Return, At
<1>2. ASSUME NEW c \in Conns, handleRead(c) PROVE HandledInLoop'
  <2>1. PICK n \in buffer[c] + 1 .. client[c].sent :
            buffer' = [buffer EXCEPT ![c] = n] /\ OnReadInLoop(c, n)
    BY <1>2 DEF handleRead, onMessage
  <2>2. buffer[c] \in Nat /\ client[c].sent \in Nat /\ client[c].sent <= env.segs /\ env.segs \in Nat
    <3>1. client[c] \in [sent : 0..MaxSegs, got : Nat, closed : BOOLEAN] /\ buffer[c] \in 0..MaxSegs
      BY <1>0 DEF TypeOK
    <3>2. env.segs \in Nat /\ client[c].sent <= env.segs
      BY <1>0, SegsPositive DEF BufferBound
    <3> QED BY <3>1, <3>2
  <2>3. buffer[c] # env.segs /\ handled[c] = <<>>
    BY <1>0, <2>1, <2>2 DEF HandledInLoop
  <2>4. handled' = [handled EXCEPT ![c] = IF n = env.segs THEN <<"whole">> ELSE <<>>]
    <3>1. CASE n = env.segs
      <4>1. handled' = [handled EXCEPT ![c] = Append(<<>>, "whole")]
        BY <1>0, <2>1, <2>3, <3>1 DEF OnReadInLoop, Parsed, TypeOK
      <4>2. Append(<<>>, "whole") = <<"whole">>
        OBVIOUS
      <4> QED BY <3>1, <4>1, <4>2
    <3>2. CASE n # env.segs
      BY <1>0, <2>1, <2>3, <3>2 DEF OnReadInLoop, Parsed, TypeOK
    <3> QED BY <3>1, <3>2
  <2>5. UNCHANGED pool
    BY <2>1 DEF OnReadInLoop
  <2> QED BY <1>0, <2>1, <2>4, <2>5 DEF HandledInLoop, TypeOK, pool
<1>3. CASE UNCHANGED <<pool, buffer, handled>>
  BY <1>0, <1>3 DEF HandledInLoop, pool
<1> QED BY <1>1, <1>2, <1>3 DEF Next, Sends, Closes, newConnection, handleWrite, handleClose,
       removeConnectionInLoop, doPendingFunctors, connectEstablished, SendFunctor, connectDestroyed

(* with the pool, a request in one segment *)
Untouched == UNCHANGED <<queue, task, step, seen, buffer, parser, handled>>

LEMMA UntouchedStep ==
    ASSUME HandledByPool, Untouched
    PROVE  HandledByPool'
BY DEF Untouched, HandledByPool, QueuedFresh, OneWorkerEach, WorkerKnows

LEMMA ArrivalStep ==
    ASSUME OnceInv, env.threads # {}, env.segs = 1, NEW c \in Conns, handleRead(c)
    PROVE  HandledByPool'
<1>0. TypeOK /\ BufferBound /\ HandledByPool
  BY DEF OnceInv
<1>1. PICK n \in buffer[c] + 1 .. client[c].sent :
          buffer' = [buffer EXCEPT ![c] = n] /\ run(c) /\ UNCHANGED <<parser, handled>>
  BY DEF handleRead, onMessage
<1>2. n = 1 /\ buffer[c] = 0
  <2>1. client[c] \in [sent : 0..MaxSegs, got : Nat, closed : BOOLEAN] /\ buffer[c] \in 0..MaxSegs
    BY <1>0 DEF TypeOK
  <2> QED BY <1>0, <1>1, <2>1 DEF BufferBound
<1>3. /\ UNCHANGED <<parser, handled, task, step, seen>> /\ handled[c] = <<>>
      /\ \A d \in Conns : d # c => buffer'[d] = buffer[d]
      /\ buffer'[c] = 1
  BY <1>0, <1>1, <1>2 DEF handleRead, work, TypeOK, HandledByPool
<1>4. /\ queue' \in Seq(Conns) /\ Len(queue) \in Nat /\ Len(queue') = Len(queue) + 1
      /\ \A i \in 1..Len(queue) : queue'[i] = queue[i] /\ queue[i] \in Conns /\ queue[i] # c
      /\ queue'[Len(queue')] = c
  <2>1. \A i \in 1..Len(queue) : queue[i] \in Conns
    BY <1>0 DEF TypeOK, PoolTypeOK
  <2>2. \A i \in 1..Len(queue) : queue[i] # c
    BY <1>0, <1>2 DEF HandledByPool, QueuedFresh
  <2>3. queue \in Seq(Conns) /\ queue' = Append(queue, c)
    BY <1>0, <1>1 DEF TypeOK, PoolTypeOK, run
  <2> QED BY <2>1, <2>2, <2>3, Appended
<1>5. \A w \in Workers : task[w] # NoConn => task[w] # c /\ task[w] \in Conns
  BY <1>0, <1>2 DEF HandledByPool, OneWorkerEach, WorkerKnows, TypeOK
<1>6. c # NoConn
  BY HttpAssumption
<1>7. QueuedFresh'
  <2>1. \A i, j \in 1..Len(queue') : i # j => queue'[i] # queue'[j]
    <3> SUFFICES ASSUME NEW i \in 1..Len(queue'), NEW j \in 1..Len(queue'), i # j, queue'[i] = queue'[j]
                 PROVE  FALSE
      OBVIOUS
    <3>1. CASE i \in 1..Len(queue) /\ j \in 1..Len(queue)
      BY <1>0, <1>4, <3>1 DEF HandledByPool, QueuedFresh
    <3>2. CASE i = Len(queue') \/ j = Len(queue')
      BY <1>4, <3>2
    <3> QED BY <1>4, <3>1, <3>2
  <2>2. ASSUME NEW i \in 1..Len(queue')
        PROVE  /\ buffer'[queue'[i]] = 1 /\ handled'[queue'[i]] = <<>>
               /\ \A w \in Workers : task'[w] # queue'[i]
    <3>1. CASE i \in 1..Len(queue)
      BY <1>0, <1>3, <1>4, <3>1 DEF HandledByPool, QueuedFresh
    <3>2. CASE i = Len(queue')
      BY <1>3, <1>4, <1>5, <1>6, <3>2
    <3> QED BY <1>4, <3>1, <3>2
  <2> QED BY <2>1, <2>2 DEF QueuedFresh
<1>8. OneWorkerEach'
  BY <1>0, <1>3, <1>5 DEF HandledByPool, OneWorkerEach, WorkerKnows
<1> QED BY <1>0, <1>3, <1>7, <1>8 DEF HandledByPool

LEMMA TakesStep ==
    ASSUME OnceInv, env.threads # {}, env.segs = 1, NEW w \in Workers, Takes(w)
    PROVE  HandledByPool'
<1>0. TypeOK /\ HandledByPool
  BY DEF OnceInv
<1>1. PICK c \in Conns : take(w, c) /\ task' = [task EXCEPT ![w] = c]
  BY DEF Takes
<1>2. UNCHANGED <<buffer, parser, handled, seen>> /\ step' = [step EXCEPT ![w] = "peek"]
  BY DEF Takes, Goto
<1>3. /\ queue # <<>> /\ c = queue[1] /\ Len(queue) \in Nat \ {0} /\ Len(queue') = Len(queue) - 1
      /\ \A i \in 1..Len(queue') : queue'[i] = queue[i + 1]
  BY <1>0, <1>1, Popped DEF take, TypeOK, PoolTypeOK
<1>4. /\ buffer[c] = 1 /\ handled[c] = <<>> /\ \A v \in Workers : task[v] # c
      /\ \A i \in 1..Len(queue') : queue'[i] # c
  BY <1>0, <1>3 DEF HandledByPool, QueuedFresh
<1>5. \A v \in Workers : task'[v] = (IF v = w THEN c ELSE task[v])
                           /\ step'[v] = (IF v = w THEN "peek" ELSE step[v])
  BY <1>0, <1>1, <1>2 DEF TypeOK
<1>6. QueuedFresh'
  <2>1. \A i \in 1..Len(queue') : i + 1 \in 1..Len(queue)
    BY <1>3
  <2>2. \A i, j \in 1..Len(queue') : i # j => queue'[i] # queue'[j]
    BY <1>0, <1>3, <2>1 DEF HandledByPool, QueuedFresh
  <2>3. ASSUME NEW i \in 1..Len(queue')
        PROVE  /\ buffer'[queue'[i]] = 1 /\ handled'[queue'[i]] = <<>>
               /\ \A v \in Workers : task'[v] # queue'[i]
    BY <1>0, <1>2, <1>3, <1>4, <1>5, <2>1 DEF HandledByPool, QueuedFresh
  <2> QED BY <2>2, <2>3 DEF QueuedFresh
<1>7. OneWorkerEach'
  BY <1>0, <1>2, <1>4, <1>5 DEF HandledByPool, OneWorkerEach, WorkerKnows
<1> QED BY <1>0, <1>2, <1>6, <1>7 DEF HandledByPool

(* OnRead: the worker has the connection to itself *)
LEMMA OnReadStep ==
    ASSUME OnceInv, env.threads # {}, env.segs = 1, NEW w \in Workers, OnRead(w)
    PROVE  HandledByPool'
<1> DEFINE c == task[w]
<1>0. TypeOK /\ HandledByPool /\ QueuedFresh /\ OneWorkerEach
  BY DEF OnceInv, HandledByPool
<1>1. c \in Conns /\ c # NoConn /\ step[w] # "idle"
  BY <1>0, HttpAssumption DEF TypeOK, OnRead, Peek, Reset, Execute, Handle, Send, QueueInLoop, Return, At
<1>2. WorkerKnows(w) /\ \A v \in Workers \ {w} : task[v] # c
  BY <1>0, <1>1 DEF OneWorkerEach
<1>3. UNCHANGED <<queue, buffer>>
  BY DEF OnRead, Peek, Reset, Execute, Handle, Send, QueueInLoop, Return, pool, finish
<1>4. CASE Peek(w)
  <2>1. /\ UNCHANGED <<task, parser, handled>> /\ seen' = [seen EXCEPT ![w] = 1]
        /\ step' = [step EXCEPT ![w] = "reset"] /\ step[w] = "peek"
    BY <1>2, <1>4 DEF Peek, At, Goto, WorkerKnows
  <2>2. OneWorkerEach'
    BY <1>0, <1>2, <1>3, <2>1 DEF OneWorkerEach, WorkerKnows, TypeOK
  <2> QED BY <1>0, <1>3, <2>1, <2>2 DEF HandledByPool, QueuedFresh
<1>5. CASE Reset(w)
  <2>1. /\ UNCHANGED <<task, seen, handled>>
        /\ \A d \in Conns : d # c => parser'[d] = parser[d]
        /\ step' = [step EXCEPT ![w] = "execute"] /\ step[w] = "reset"
    BY <1>0, <1>5 DEF Reset, At, Goto, TypeOK
  <2>2. OneWorkerEach'
    BY <1>0, <1>2, <1>3, <2>1 DEF OneWorkerEach, WorkerKnows, TypeOK
  <2> QED BY <1>0, <1>3, <2>1, <2>2 DEF HandledByPool, QueuedFresh
<1>6. CASE Execute(w)
  <2>1. step[w] = "execute" /\ seen[w] = 1 /\ ~Races(w)
    BY <1>2, <1>6 DEF Execute, At, WorkerKnows, Races
  <2>2. Parsed(seen[w]) = [read_all |-> TRUE, body |-> "whole"]
    BY <2>1 DEF Parsed
  <2>3. /\ UNCHANGED <<task, seen, handled>>
        /\ \A d \in Conns : parser'[d] = IF d = c THEN [read_all |-> TRUE, body |-> "whole"] ELSE parser[d]
        /\ step' = [step EXCEPT ![w] = "test"]
    BY <1>0, <1>6, <2>1, <2>2 DEF Execute, Goto, TypeOK
  <2>4. OneWorkerEach'
    <3>1. ASSUME NEW v \in Workers, task[v] # NoConn, v # w PROVE WorkerKnows(v)'
      <4>1. task[v] \in Conns /\ task[v] # c /\ WorkerKnows(v) /\ step'[v] = step[v]
        BY <1>0, <1>1, <1>2, <2>3, <3>1 DEF OneWorkerEach, TypeOK
      <4> QED BY <1>3, <2>3, <4>1 DEF WorkerKnows
    <3>2. WorkerKnows(w)'
      <4>1. step'[w] = "test" /\ handled[c] = <<>> /\ buffer[c] = 1
        BY <1>0, <1>2, <2>1, <2>3 DEF WorkerKnows, TypeOK
      <4> QED BY <1>1, <1>3, <2>3, <4>1 DEF WorkerKnows
    <3> QED BY <1>0, <2>3, <3>1, <3>2 DEF OneWorkerEach
  <2> QED BY <1>0, <1>3, <2>3, <2>4 DEF HandledByPool, QueuedFresh
<1>7. CASE Handle(w)
  <2>1. /\ UNCHANGED <<task, seen, parser>> /\ step[w] = "test"
        /\ step' = [step EXCEPT ![w] = "send"]
        /\ handled' = [handled EXCEPT ![c] = Append(<<>>, "whole")]
    BY <1>0, <1>1, <1>2, <1>7 DEF Handle, At, Goto, WorkerKnows, TypeOK
  <2>2. Append(<<>>, "whole") = <<"whole">>
    OBVIOUS
  <2>3. \A d \in Conns : handled'[d] = IF d = c THEN <<"whole">> ELSE handled[d]
    BY <1>0, <2>1, <2>2 DEF TypeOK
  <2>4. QueuedFresh'
    <3>1. \A i \in 1..Len(queue) : queue[i] \in Conns /\ queue[i] # c
      <4>1. queue \in Seq(Conns)
        BY <1>0 DEF TypeOK, PoolTypeOK
      <4>2. \A i \in 1..Len(queue) : task[w] # queue[i]
        BY <1>0 DEF QueuedFresh
      <4> QED BY <4>1, <4>2
    <3> QED BY <1>0, <1>3, <2>1, <2>3, <3>1 DEF QueuedFresh
  <2>5. OneWorkerEach'
    BY <1>0, <1>2, <1>3, <2>1, <2>3 DEF OneWorkerEach, WorkerKnows, TypeOK
  <2> QED BY <1>0, <1>2, <1>3, <2>3, <2>4, <2>5 DEF HandledByPool, WorkerKnows
<1>8. CASE Send(w) \/ QueueInLoop(w)
  <2>1. PICK s \in {"queue", "return"} : step' = [step EXCEPT ![w] = s]
    BY <1>8 DEF Send, QueueInLoop, Goto
  <2>2. UNCHANGED <<task, seen, parser, handled>>
    BY <1>8 DEF Send, QueueInLoop
  <2>3. OneWorkerEach'
    BY <1>0, <1>2, <1>3, <2>1, <2>2 DEF OneWorkerEach, WorkerKnows, TypeOK
  <2> QED BY <1>0, <1>3, <2>2, <2>3 DEF HandledByPool, QueuedFresh
<1>9. CASE Return(w)
  <2>1. /\ UNCHANGED <<seen, parser, handled>>
        /\ step' = [step EXCEPT ![w] = "idle"] /\ task' = [task EXCEPT ![w] = NoConn]
    BY <1>9 DEF Return, Goto
  <2>2. QueuedFresh'
    <3>1. \A i \in 1..Len(queue) : queue[i] # NoConn
      BY <1>0, HttpAssumption DEF TypeOK, PoolTypeOK
    <3> QED BY <1>0, <1>3, <2>1, <3>1 DEF QueuedFresh, TypeOK
  <2>3. OneWorkerEach'
    BY <1>0, <1>2, <1>3, <2>1 DEF OneWorkerEach, WorkerKnows, TypeOK
  <2> QED BY <1>0, <1>3, <2>1, <2>2, <2>3 DEF HandledByPool
<1> QED BY <1>4, <1>5, <1>6, <1>7, <1>8, <1>9 DEF OnRead

LEMMA OnceStep == OnceInv /\ [Next]_vars => OnceInv'
<1> SUFFICES ASSUME OnceInv, [Next]_vars PROVE OnceInv'
  OBVIOUS
<1>0. TypeOK /\ BufferBound /\ TypeOK'
  BY TypeStep DEF OnceInv
<1>1. CASE UNCHANGED vars
  BY <1>0, <1>1 DEF OnceInv, BufferBound, HandledInLoop, HandledByPool, QueuedFresh, OneWorkerEach, WorkerKnows,
     vars, pool, loops, work
<1>2. CASE Next
  <2>1. BufferBound' /\ UNCHANGED env
    BY <1>0, <1>2, BufferStep
  <2>2. env.threads = {} => HandledInLoop'
    BY <1>2, LoopStep
  <2>3. env.threads # {} /\ env.segs = 1 => HandledByPool'
    <3> SUFFICES ASSUME env.threads # {}, env.segs = 1 PROVE HandledByPool'
      OBVIOUS
    <3>1. CASE Untouched
      BY <3>1, UntouchedStep DEF OnceInv
    <3>2. CASE \E c \in Conns : handleRead(c)
      BY <3>2, ArrivalStep
    <3>3. CASE \E w \in Workers : Takes(w) \/ OnRead(w)
      BY <3>3, TakesStep, OnReadStep
    <3>4. \/ Untouched \/ \E c \in Conns : handleRead(c)
          \/ \E w \in Workers : Takes(w) \/ OnRead(w)
      BY <1>2 DEF Next, Untouched, Sends, Closes, newConnection, handleWrite, handleClose,
         removeConnectionInLoop, doPendingFunctors, connectEstablished, SendFunctor, connectDestroyed,
         Waits, wait, SpuriousWakeup, pool, work
    <3> QED BY <3>1, <3>2, <3>3, <3>4
  <2> QED BY <1>0, <2>1, <2>2, <2>3 DEF OnceInv
<1> QED BY <1>1, <1>2

(* OnRead gives a handler each request once, and all of it, as long as it has the
   connection to itself. *)
THEOREM OnceAndWhole == Spec => []HandledOnce
<1>1. OnceInv => HandledOnce
  BY DEF OnceInv, HandledOnce, Alone, HandledInLoop, HandledByPool
<1> QED BY <1>1, OnceInit, OnceStep, PTL DEF Spec

-----------------------------------------------------------------------------
(* Connections are used while they live.  What the loops know of a connection
   whatever the clients do: *)
Establishing(i) == io[i].do = "established"
LoopsInv ==
    /\ \A c \in Conns : c \in s_http_map <=> state[c] = "connected"
    /\ \A c \in Conns : state[c] = "connecting" => c \in connections
    /\ \A c \in Conns : state[c] = "disconnected" => client[c].closed
    /\ \A i \in 1..Len(base) : state[base[i]] = "disconnected"
    /\ \A i \in 1..Len(io) : Establishing(i) =>
           /\ state[io[i].conn] = "connecting"
           /\ \A j \in 1..Len(io) \ {i} : Establishing(j) => io[j].conn # io[i].conn

(* With the pool and requests of one segment: who waits for an answer has none yet,
   there is one functor for it at most, and nobody gets a second one. *)
Sending(i) == io[i].do = "send"
SendsOnce ==
    \A i \in 1..Len(io) : Sending(i) =>
        /\ handled[io[i].conn] # <<>>
        /\ \A w \in Workers : task[w] = io[i].conn => step[w] = "return"
        /\ \A j \in 1..Len(io) \ {i} : Sending(j) => io[j].conn # io[i].conn
Unanswered(c) ==
    \/ handled[c] = <<>>
    \/ \E w \in Workers : task[w] = c /\ step[w] \in {"send", "queue"}
    \/ \E i \in 1..Len(io) : Sending(i) /\ io[i].conn = c
AnswersInv ==
    /\ SendsOnce
    /\ \A w \in Workers : step[w] \in {"send", "queue"} => handled[task[w]] # <<>>
    /\ \A c \in Conns : Unanswered(c) => client[c].got = 0 /\ out[c] = 0
    /\ \A c \in Conns : client[c].got + out[c] <= 1

(* Without the pool: an answer is sent where its request is handled. *)
AnswersInLoop ==
    /\ \A i \in 1..Len(io) : ~Sending(i)
    /\ \A c \in Conns : handled[c] = <<>> => client[c].got = 0 /\ out[c] = 0
    /\ \A c \in Conns : client[c].got + out[c] <= 1

(* Patient clients close after their answer came. *)
ClosesLate == env.patient => \A c \in Conns : client[c].closed => client[c].got > 0

AliveInv ==
    /\ OnceInv /\ LoopsInv /\ ClosesLate
    /\ env.threads = {} => AnswersInLoop
    /\ env.threads # {} /\ env.segs = 1 => AnswersInv

LEMMA IoFacts ==
    ASSUME TypeOK
    PROVE  /\ Len(io) \in Nat /\ \A i \in 1..Len(io) : io[i] \in Functors /\ io[i].conn \in Conns
           /\ Len(base) \in Nat /\ \A i \in 1..Len(base) : base[i] \in Conns
<1>1. io \in Seq(Functors) /\ base \in Seq(Conns)
  BY DEF TypeOK
<1>2. \A i \in 1..Len(io) : io[i] \in Functors
  BY <1>1
<1>3. \A f \in Functors : f.conn \in Conns
  BY DEF Functors
<1> QED BY <1>1, <1>2, <1>3

(* a functor more, or one less, at io *)
LEMMA Queues ==
    ASSUME TypeOK, NEW f \in Functors, io' = Append(io, f)
    PROVE  /\ Len(io) \in Nat /\ Len(io') = Len(io) + 1 /\ io'[Len(io')] = f
           /\ \A i \in 1..Len(io) : io'[i] = io[i]
BY Appended DEF TypeOK

LEMMA Pops ==
    ASSUME TypeOK, io # <<>>, io' = Tail(io)
    PROVE  /\ Len(io) \in Nat \ {0} /\ Len(io') = Len(io) - 1 /\ Head(io) = io[1]
           /\ io[1] \in Functors /\ io[1].conn \in Conns
           /\ \A i \in 1..Len(io') : io'[i] = io[i + 1] /\ i + 1 \in 2..Len(io)
<1>1. /\ Len(io) \in Nat \ {0} /\ Len(io') = Len(io) - 1 /\ Head(io) = io[1]
      /\ \A i \in 1..Len(io') : io'[i] = io[i + 1]
  BY Popped DEF TypeOK
<1>2. \A i \in 1..Len(io') : i + 1 \in 2..Len(io)
  BY <1>1
<1> QED BY <1>1, <1>2, IoFacts

(* a client that left does not come back, and answers are not taken away *)
LEMMA ClientKeeps ==
    ASSUME TypeOK, Next, NEW d \in Conns
    PROVE  /\ client[d].closed => client'[d].closed
           /\ client'[d].closed => client[d].closed \/ (env.patient => client[d].got > 0)
           /\ client'[d].got >= client[d].got
<1>0. client[d] \in [sent : 0..MaxSegs, got : Nat, closed : BOOLEAN]
  BY DEF TypeOK
<1>r. ASSUME NEW c \in Conns, NEW n \in Nat, Receives(c, n)
      PROVE  client[d].closed = client'[d].closed /\ client'[d].got >= client[d].got
  BY <1>0, <1>r DEF Receives, TypeOK
<1>s. ASSUME NEW c \in Conns, sendInLoop(c)
      PROVE  client[d].closed = client'[d].closed /\ client'[d].got >= client[d].got
  <2>1. Receives(c, 1) \/ UNCHANGED client
    BY <1>s DEF sendInLoop
  <2>2. 1 \in Nat
    OBVIOUS
  <2> QED BY <1>0, <1>r, <2>1, <2>2
<1>1. ASSUME NEW c \in Conns, Sends(c) \/ Closes(c)
      PROVE  /\ client[d].closed => client'[d].closed
             /\ client'[d].closed => client[d].closed \/ (env.patient => client[d].got > 0)
             /\ client'[d].got >= client[d].got
  <2>1. CASE d # c
    BY <1>0, <1>1, <2>1 DEF Sends, Closes, TypeOK
  <2>2. CASE d = c /\ Sends(c)
    BY <1>0, <2>2 DEF Sends, TypeOK
  <2>3. CASE d = c /\ Closes(c)
    BY <1>0, <2>3 DEF Closes, TypeOK
  <2> QED BY <1>1, <2>1, <2>2, <2>3
<1>2. ASSUME NEW c \in Conns, handleWrite(c)
      PROVE  client[d].closed = client'[d].closed /\ client'[d].got >= client[d].got
  BY <1>2, <1>r DEF handleWrite, TypeOK
<1>3. ASSUME NEW c \in Conns, handleRead(c)
      PROVE  client[d].closed = client'[d].closed /\ client'[d].got >= client[d].got
  <2>1. sendInLoop(c) \/ UNCHANGED client
    BY <1>3 DEF handleRead, onMessage, OnReadInLoop
  <2> QED BY <1>0, <1>s, <2>1
<1>4. CASE SendFunctor
  <2>1. Head(io).conn \in Conns
    BY <1>4, Pops DEF SendFunctor, Pop
  <2> QED BY <1>4, <1>s, <2>1 DEF SendFunctor
<1>5. CASE UNCHANGED client
  BY <1>0, <1>5
<1> QED BY <1>1, <1>2, <1>3, <1>4, <1>5 DEF Next, newConnection, handleClose, removeConnectionInLoop,
       doPendingFunctors, connectEstablished, connectDestroyed, Takes, Waits, OnRead, Peek, Reset,
       Execute, Handle, Send, QueueInLoop, Return

LEMMA LoopsInit == Init => LoopsInv
BY DEF Init, LoopsInv

LEMMA LoopsStep ==
    ASSUME TypeOK, LoopsInv, Next
    PROVE  LoopsInv'
<1>0. \A d \in Conns : client[d].closed => client'[d].closed
  BY ClientKeeps
<1>1. CASE UNCHANGED loops
  BY <1>0, <1>1 DEF loops, LoopsInv, Establishing
<1>2. ASSUME NEW c \in Conns, newConnection(c) PROVE LoopsInv'
  <2> DEFINE f == [do |-> "established", conn |-> c]
  <2>1. f \in Functors /\ io' = Append(io, f) /\ state[c] = "none"
    BY <1>2 DEF newConnection, Functors
  <2>2. /\ Len(io) \in Nat /\ Len(io') = Len(io) + 1 /\ io'[Len(io')] = f
        /\ \A i \in 1..Len(io) : io'[i] = io[i]
    BY <2>1, Queues
  <2>3. \A d \in Conns : state'[d] = IF d = c THEN "connecting" ELSE state[d]
    BY <1>2 DEF newConnection, TypeOK
  <2>4. \A i \in 1..Len(io) : Establishing(i) => io[i].conn # c /\ state'[io[i].conn] = "connecting"
    BY <2>1, <2>3, IoFacts DEF LoopsInv
  <2>5. \A i \in 1..Len(base) : state'[base[i]] = "disconnected"
    BY <2>1, <2>3, IoFacts DEF LoopsInv
  <2>6. \A i \in 1..Len(io') : Establishing(i)' =>
            /\ state'[io'[i].conn] = "connecting"
            /\ \A j \in 1..Len(io') \ {i} : Establishing(j)' => io'[j].conn # io'[i].conn
    <3> SUFFICES ASSUME NEW i \in 1..Len(io'), Establishing(i)'
                 PROVE  /\ state'[io'[i].conn] = "connecting"
                        /\ \A j \in 1..Len(io') \ {i} : Establishing(j)' => io'[j].conn # io'[i].conn
      OBVIOUS
    <3>1. CASE i \in 1..Len(io)
      <4>1. Establishing(i) /\ io'[i] = io[i]
        BY <2>2, <3>1 DEF Establishing
      <4>2. io'[i].conn # c /\ state'[io'[i].conn] = "connecting"
        BY <2>4, <3>1, <4>1
      <4>3. ASSUME NEW j \in 1..Len(io') \ {i}, Establishing(j)'
            PROVE  io'[j].conn # io'[i].conn
        <5>1. CASE j \in 1..Len(io)
          <6>1. Establishing(j) /\ io'[j] = io[j]
            BY <2>2, <4>3, <5>1 DEF Establishing
          <6>2. io[j].conn # io[i].conn
            BY <3>1, <4>1, <5>1, <6>1 DEF LoopsInv
          <6> QED BY <4>1, <6>1, <6>2
        <5>2. CASE j = Len(io')
          BY <2>2, <4>2, <5>2
        <5> QED BY <2>2, <5>1, <5>2
      <4> QED BY <4>2, <4>3
    <3>2. CASE i = Len(io')
      BY <2>2, <2>3, <2>4, <3>2 DEF Establishing
    <3> QED BY <2>2, <3>1, <3>2
  <2>7. /\ \A d \in Conns : d \in s_http_map' <=> state'[d] = "connected"
        /\ \A d \in Conns : state'[d] = "connecting" => d \in connections'
        /\ \A d \in Conns : state'[d] = "disconnected" => client'[d].closed
    BY <1>0, <1>2, <2>1, <2>3 DEF LoopsInv, newConnection
  <2>8. UNCHANGED base
    BY <1>2 DEF newConnection
  <2> QED BY <2>5, <2>6, <2>7, <2>8 DEF LoopsInv
<1>3. CASE removeConnectionInLoop
  <2> DEFINE c == Head(base)
             f == [do |-> "destroyed", conn |-> c]
  <2>1. /\ Len(base) \in Nat \ {0} /\ c = base[1] /\ c \in Conns /\ Len(base') = Len(base) - 1
        /\ \A i \in 1..Len(base') : base'[i] = base[i + 1]
    <3>1. base \in Seq(Conns) /\ base # <<>> /\ base' = Tail(base)
      BY <1>3 DEF removeConnectionInLoop, TypeOK
    <3> QED BY <3>1, Popped
  <2>2. \A i \in 1..Len(base') : i + 1 \in 1..Len(base)
    BY <2>1
  <2>3. state[c] = "disconnected" /\ \A i \in 1..Len(base') : state[base'[i]] = "disconnected"
    BY <2>1, <2>2 DEF LoopsInv
  <2>4. f \in Functors /\ io' = Append(io, f)
    BY <1>3, <2>1 DEF removeConnectionInLoop, Functors
  <2>5. /\ Len(io) \in Nat /\ Len(io') = Len(io) + 1 /\ io'[Len(io')] = f
        /\ \A i \in 1..Len(io) : io'[i] = io[i]
    BY <2>4, Queues
  <2>6. \A i \in 1..Len(io') : Establishing(i)' => i \in 1..Len(io) /\ Establishing(i) /\ io'[i] = io[i]
    BY <2>5 DEF Establishing
  <2>7. UNCHANGED <<state, s_http_map>> /\ connections' = connections \ {c}
    BY <1>3 DEF removeConnectionInLoop
  <2>8. /\ \A d \in Conns : d \in s_http_map' <=> state'[d] = "connected"
        /\ \A d \in Conns : state'[d] = "connecting" => d \in connections'
        /\ \A d \in Conns : state'[d] = "disconnected" => client'[d].closed
    BY <1>0, <2>3, <2>7 DEF LoopsInv
  <2>9. \A i \in 1..Len(io') : Establishing(i)' =>
            /\ state'[io'[i].conn] = "connecting"
            /\ \A j \in 1..Len(io') \ {i} : Establishing(j)' => io'[j].conn # io'[i].conn
    BY <2>6, <2>7 DEF LoopsInv
  <2> QED BY <2>3, <2>7, <2>8, <2>9 DEF LoopsInv
<1>4. CASE doPendingFunctors
  <2>1. /\ io # <<>> /\ io' = Tail(io)
        /\ UNCHANGED <<base, connections>>
    BY <1>4 DEF doPendingFunctors, connectEstablished, SendFunctor, connectDestroyed, Pop
  <2>2. /\ Len(io) \in Nat \ {0} /\ Len(io') = Len(io) - 1 /\ Head(io) = io[1] /\ io[1].conn \in Conns
        /\ \A i \in 1..Len(io') : io'[i] = io[i + 1] /\ i + 1 \in 2..Len(io)
    BY <2>1, Pops
  <2>3. CASE connectEstablished
    <3> DEFINE c == io[1].conn
    <3>1. Establishing(1) /\ c \in Conns /\ state[c] = "connecting"
      BY <2>2, <2>3 DEF connectEstablished, Pop, Establishing, LoopsInv
    <3>2. /\ \A d \in Conns : state'[d] = IF d = c THEN "connected" ELSE state[d]
          /\ s_http_map' = s_http_map \cup {c}
      BY <2>2, <2>3 DEF connectEstablished, TypeOK
    <3>3. ASSUME NEW i \in 1..Len(io'), Establishing(i)'
          PROVE  /\ state'[io'[i].conn] = "connecting"
                 /\ \A j \in 1..Len(io') \ {i} : Establishing(j)' => io'[j].conn # io'[i].conn
      <4>1. Establishing(i + 1) /\ i + 1 \in 1..Len(io) /\ i + 1 # 1
        BY <2>2, <3>3 DEF Establishing
      <4>2. io[i + 1].conn \in Conns /\ io[i + 1].conn # c /\ state[io[i + 1].conn] = "connecting"
        BY <3>1, <4>1, <2>2, IoFacts DEF LoopsInv
      <4>3. \A j \in 1..Len(io') \ {i} : Establishing(j)' => io'[j].conn # io'[i].conn
        <5> SUFFICES ASSUME NEW j \in 1..Len(io') \ {i}, Establishing(j)'
                     PROVE  io'[j].conn # io'[i].conn
          OBVIOUS
        <5>1. j + 1 \in 1..Len(io) \ {i + 1} /\ Establishing(j + 1) /\ io'[j] = io[j + 1]
          BY <2>2 DEF Establishing
        <5> QED BY <2>2, <4>1, <5>1 DEF LoopsInv
      <4> QED BY <2>2, <3>2, <4>2, <4>3
    <3>4. \A i \in 1..Len(base) : state'[base[i]] = "disconnected"
      BY <3>1, <3>2, IoFacts DEF LoopsInv
    <3>5. \A d \in Conns : d \in s_http_map' <=> state'[d] = "connected"
      BY <3>1, <3>2 DEF LoopsInv
    <3>6. \A d \in Conns : /\ state'[d] = "connecting" => d \in connections
                           /\ state'[d] = "disconnected" => client'[d].closed
      BY <1>0, <3>2 DEF LoopsInv
    <3> QED BY <2>1, <3>3, <3>4, <3>5, <3>6 DEF LoopsInv
  <2>4. CASE SendFunctor \/ connectDestroyed
    <3>1. UNCHANGED <<state, s_http_map>>
      BY <2>4 DEF SendFunctor, connectDestroyed
    <3>2. ASSUME NEW i \in 1..Len(io'), Establishing(i)'
          PROVE  /\ state'[io'[i].conn] = "connecting"
                 /\ \A j \in 1..Len(io') \ {i} : Establishing(j)' => io'[j].conn # io'[i].conn
      <4>1. Establishing(i + 1) /\ i + 1 \in 1..Len(io) /\ io'[i] = io[i + 1]
        BY <2>2, <3>2 DEF Establishing
      <4>2. \A j \in 1..Len(io') \ {i} : Establishing(j)' =>
                j + 1 \in 1..Len(io) \ {i + 1} /\ Establishing(j + 1) /\ io'[j] = io[j + 1]
        BY <2>2 DEF Establishing
      <4> QED BY <3>1, <4>1, <4>2 DEF LoopsInv
    <3>3. /\ \A d \in Conns : d \in s_http_map' <=> state'[d] = "connected"
          /\ \A d \in Conns : state'[d] = "connecting" => d \in connections
          /\ \A d \in Conns : state'[d] = "disconnected" => client'[d].closed
          /\ \A i \in 1..Len(base) : state'[base[i]] = "disconnected"
      BY <1>0, <3>1 DEF LoopsInv
    <3> QED BY <2>1, <3>2, <3>3 DEF LoopsInv
  <2> QED BY <1>4, <2>3, <2>4 DEF doPendingFunctors
<1>5. ASSUME NEW c \in Conns, handleClose(c) PROVE LoopsInv'
  <2>1. /\ \A d \in Conns : state'[d] = IF d = c THEN "disconnected" ELSE state[d]
        /\ state[c] = "connected" /\ client[c].closed
    BY <1>5 DEF handleClose, TypeOK
  <2>2. /\ base' \in Seq(Conns) /\ Len(base) \in Nat /\ Len(base') = Len(base) + 1 /\ base'[Len(base')] = c
        /\ \A i \in 1..Len(base) : base'[i] = base[i]
    BY <1>5, Appended DEF handleClose, TypeOK
  <2>3. \A i \in 1..Len(base') : state'[base'[i]] = "disconnected"
    <3> SUFFICES ASSUME NEW i \in 1..Len(base') PROVE state'[base'[i]] = "disconnected"
      OBVIOUS
    <3>1. CASE i \in 1..Len(base)
      BY <2>1, <2>2, <3>1, IoFacts DEF LoopsInv
    <3>2. CASE i = Len(base')
      BY <2>1, <2>2, <3>2
    <3> QED BY <2>2, <3>1, <3>2
  <2>4. \A i \in 1..Len(io) : Establishing(i) => state'[io[i].conn] = "connecting"
    BY <2>1, IoFacts DEF LoopsInv
  <2>5. UNCHANGED <<connections, io, client>> /\ s_http_map' = s_http_map \ {c}
    BY <1>5 DEF handleClose
  <2>6. /\ \A d \in Conns : d \in s_http_map' <=> state'[d] = "connected"
        /\ \A d \in Conns : state'[d] = "connecting" => d \in connections
        /\ \A d \in Conns : state'[d] = "disconnected" => client'[d].closed
    BY <2>1, <2>5 DEF LoopsInv
  <2>7. \A i \in 1..Len(io') : Establishing(i)' => Establishing(i)
    BY <2>5 DEF Establishing
  <2>8. \A i \in 1..Len(io') : Establishing(i)' =>
            /\ state'[io'[i].conn] = "connecting"
            /\ \A j \in 1..Len(io') \ {i} : Establishing(j)' => io'[j].conn # io'[i].conn
    BY <2>4, <2>5, <2>7 DEF LoopsInv
  <2> QED BY <2>3, <2>5, <2>6, <2>8 DEF LoopsInv
<1>6. ASSUME NEW w \in Workers, QueueInLoop(w) PROVE LoopsInv'
  <2> DEFINE f == [do |-> "send", conn |-> task[w]]
  <2>1. f \in Functors /\ io' = Append(io, f)
    BY <1>6 DEF QueueInLoop, Functors, TypeOK, At
  <2>2. /\ Len(io) \in Nat /\ Len(io') = Len(io) + 1 /\ io'[Len(io')] = f
        /\ \A i \in 1..Len(io) : io'[i] = io[i]
    BY <2>1, Queues
  <2>3. \A i \in 1..Len(io') : Establishing(i)' => i \in 1..Len(io) /\ Establishing(i) /\ io'[i] = io[i]
    BY <2>2 DEF Establishing
  <2>4. UNCHANGED <<client, state, connections, s_http_map, base>>
    BY <1>6 DEF QueueInLoop
  <2>5. \A i \in 1..Len(io') : Establishing(i)' =>
            /\ state'[io'[i].conn] = "connecting"
            /\ \A j \in 1..Len(io') \ {i} : Establishing(j)' => io'[j].conn # io'[i].conn
    BY <2>3, <2>4 DEF LoopsInv
  <2> QED BY <2>4, <2>5 DEF LoopsInv
<1> QED BY <1>1, <1>2, <1>3, <1>4, <1>5, <1>6 DEF Next, Sends, Closes, handleRead, handleWrite, Takes, Waits,
       OnRead, Peek, Reset, Execute, Handle, Send, Return

(* What is sent and what is received, in all *)
LEMMA SendsOne ==
    ASSUME TypeOK, NEW c \in Conns, sendInLoop(c)
    PROVE  /\ client'[c].got + out'[c] <= client[c].got + out[c] + 1
           /\ \A d \in Conns \ {c} : client'[d].got = client[d].got /\ out'[d] = out[d]
<1>0. /\ client \in [Conns -> [sent : 0..MaxSegs, got : Nat, closed : BOOLEAN]]
      /\ client[c].got \in Nat /\ out[c] \in Nat /\ out \in [Conns -> Nat]
  BY DEF TypeOK
<1>1. CASE UNCHANGED <<client, out>>
  BY <1>0, <1>1
<1>2. CASE Receives(c, 1) /\ UNCHANGED out
  BY <1>0, <1>2 DEF Receives
<1>3. CASE UNCHANGED client /\ out' = [out EXCEPT ![c] = @ + 1]
  BY <1>0, <1>3
<1> QED BY <1>1, <1>2, <1>3 DEF sendInLoop

LEMMA ClientsKeepSum ==
    ASSUME TypeOK, NEW c \in Conns, Sends(c) \/ Closes(c) \/ handleWrite(c), NEW d \in Conns
    PROVE  /\ client'[d].got + out'[d] <= client[d].got + out[d]
           /\ client[d].got = 0 /\ out[d] = 0 => client'[d].got = 0 /\ out'[d] = 0
<1>0. /\ client \in [Conns -> [sent : 0..MaxSegs, got : Nat, closed : BOOLEAN]]
      /\ client[d].got \in Nat /\ out[d] \in Nat /\ out \in [Conns -> Nat]
  BY DEF TypeOK
<1>1. CASE Sends(c) \/ Closes(c)
  <2>1. UNCHANGED out /\ client'[d].got = client[d].got
    BY <1>0, <1>1 DEF Sends, Closes
  <2> QED BY <1>0, <2>1
<1>2. CASE handleWrite(c)
  <2>1. CASE c # d
    BY <1>0, <1>2, <2>1 DEF handleWrite, Receives
  <2>2. CASE c = d
    BY <1>0, <1>2, <2>2 DEF handleWrite, Receives
  <2> QED BY <2>1, <2>2
<1> QED BY <1>1, <1>2

LEMMA ClosesLateStep ==
    ASSUME TypeOK, ClosesLate, Next, UNCHANGED env
    PROVE  ClosesLate'
<1> SUFFICES ASSUME env.patient, NEW c \in Conns, client'[c].closed PROVE client'[c].got > 0
  BY DEF ClosesLate
<1>1. client[c].got > 0 /\ client'[c].got >= client[c].got
  BY ClientKeeps DEF ClosesLate
<1>2. client[c].got \in Nat /\ client'[c].got \in Nat
  <2>1. TypeOK'
    BY TypeStep
  <2> QED BY <2>1 DEF TypeOK
<1> QED BY <1>1, <1>2

(* A step that sends nothing and answers nobody keeps AnswersInv. *)
LEMMA AnswersMove ==
    ASSUME AnswersInv, UNCHANGED <<client, out>>, SendsOnce',
           \A w \in Workers : step'[w] \in {"send", "queue"} => handled'[task'[w]] # <<>>,
           \A c \in Conns : Unanswered(c)' => Unanswered(c)
    PROVE  AnswersInv'
BY DEF AnswersInv

LEMMA AnswersAppend ==
    ASSUME TypeOK, AnswersInv, NEW f \in Functors, f.do # "send", io' = Append(io, f),
           UNCHANGED <<client, out, handled, task, step>>
    PROVE  AnswersInv'
<1>1. /\ Len(io) \in Nat /\ Len(io') = Len(io) + 1 /\ io'[Len(io')] = f
      /\ \A i \in 1..Len(io) : io'[i] = io[i]
  BY Queues
<1>2. \A i \in 1..Len(io') : Sending(i)' => i \in 1..Len(io) /\ Sending(i) /\ io'[i] = io[i]
  BY <1>1 DEF Sending
<1>3. SendsOnce'
  BY <1>2 DEF AnswersInv, SendsOnce
<1>4. \A c \in Conns : Unanswered(c)' => Unanswered(c)
  BY <1>2 DEF Unanswered
<1> QED BY <1>3, <1>4, AnswersMove DEF AnswersInv

(* after a functor was taken, nobody waits for the answer it sent *)
LEMMA AnswersPop ==
    ASSUME TypeOK, AnswersInv, io # <<>>, io' = Tail(io), UNCHANGED <<handled, task, step>>
    PROVE  /\ SendsOnce'
           /\ \A c \in Conns : Unanswered(c)' => Unanswered(c)
           /\ Sending(1) => \A c \in Conns : c = io[1].conn => ~Unanswered(c)'
<1>1. /\ Len(io) \in Nat \ {0} /\ Len(io') = Len(io) - 1
      /\ \A i \in 1..Len(io') : io'[i] = io[i + 1] /\ i + 1 \in 2..Len(io)
  BY Pops
<1>2. \A i \in 1..Len(io') : /\ io'[i] = io[i + 1] /\ i + 1 \in 1..Len(io) \ {1}
                             /\ Sending(i)' => Sending(i + 1)
  BY <1>1 DEF Sending
<1>3. SendsOnce'
  <2> SUFFICES ASSUME NEW i \in 1..Len(io'), Sending(i)'
               PROVE  /\ handled[io'[i].conn] # <<>>
                      /\ \A w \in Workers : task[w] = io'[i].conn => step[w] = "return"
                      /\ \A j \in 1..Len(io') \ {i} : Sending(j)' => io'[j].conn # io'[i].conn
    BY DEF SendsOnce
  <2>1. \A j \in 1..Len(io') \ {i} : j + 1 # i + 1
    BY <1>1
  <2> QED BY <1>2, <2>1 DEF AnswersInv, SendsOnce
<1>4. \A c \in Conns : Unanswered(c)' => Unanswered(c)
  BY <1>2 DEF Unanswered
<1>5. ASSUME Sending(1), NEW c \in Conns, c = io[1].conn PROVE ~Unanswered(c)'
  <2>1. /\ handled[c] # <<>>
        /\ \A w \in Workers : task[w] = c => step[w] = "return"
        /\ \A j \in 1..Len(io) \ {1} : Sending(j) => io[j].conn # c
    BY <1>1, <1>5 DEF AnswersInv, SendsOnce
  <2> QED BY <1>2, <2>1 DEF Unanswered
<1> QED BY <1>3, <1>4, <1>5

LEMMA AnswersLoop ==
    ASSUME TypeOK, AnswersInv,
           removeConnectionInLoop \/ doPendingFunctors \/ \E c \in Conns : newConnection(c)
    PROVE  AnswersInv'
<1>1. ASSUME NEW c \in Conns, newConnection(c) PROVE AnswersInv'
  <2> DEFINE f == [do |-> "established", conn |-> c]
  <2>1. f \in Functors /\ f.do # "send"
    BY DEF Functors
  <2> QED BY <1>1, <2>1, AnswersAppend DEF newConnection, work
<1>2. CASE removeConnectionInLoop
  <2> DEFINE f == [do |-> "destroyed", conn |-> Head(base)]
  <2>1. Head(base) \in Conns
    BY <1>2, Popped DEF removeConnectionInLoop, TypeOK
  <2>2. f \in Functors /\ f.do # "send"
    BY <2>1 DEF Functors
  <2> QED BY <1>2, <2>2, AnswersAppend DEF removeConnectionInLoop, work
<1>3. CASE doPendingFunctors
  <2>1. /\ io # <<>> /\ io' = Tail(io) /\ UNCHANGED <<handled, task, step>>
    BY <1>3 DEF doPendingFunctors, connectEstablished, SendFunctor, connectDestroyed, Pop, work
  <2>2. /\ SendsOnce' /\ \A c \in Conns : Unanswered(c)' => Unanswered(c)
        /\ Sending(1) => \A c \in Conns : c = io[1].conn => ~Unanswered(c)'
        /\ \A w \in Workers : step'[w] \in {"send", "queue"} => handled'[task'[w]] # <<>>
    BY <2>1, AnswersPop DEF AnswersInv
  <2>3. CASE connectEstablished \/ connectDestroyed
    BY <2>2, <2>3, AnswersMove DEF connectEstablished, connectDestroyed
  <2>4. CASE SendFunctor
    <3>1. PICK c \in Conns : c = io[1].conn /\ Sending(1) /\ sendInLoop(c)
      BY <2>1, <2>4, Pops DEF SendFunctor, Pop, Sending
    <3>2. ASSUME NEW d \in Conns, d # c PROVE client'[d] = client[d] /\ out'[d] = out[d]
      <4>1. client' = client \/ Receives(c, 1)
        BY <3>1 DEF sendInLoop
      <4>2. out' = out \/ out' = [out EXCEPT ![c] = @ + 1]
        BY <3>1 DEF sendInLoop
      <4>3. client'[d] = client[d]
        BY <3>2, <4>1 DEF Receives, TypeOK
      <4> QED BY <3>2, <4>2, <4>3 DEF TypeOK
    <3>3. \A d \in Conns : Unanswered(d)' => client'[d].got = 0 /\ out'[d] = 0
      BY <2>2, <3>1, <3>2 DEF AnswersInv
    <3>4. \A d \in Conns : client'[d].got + out'[d] <= 1
      <4>1. client[c].got = 0 /\ out[c] = 0
        <5>1. 1 \in 1..Len(io)
          BY <2>1, Pops
        <5> QED BY <3>1, <5>1 DEF AnswersInv, Unanswered
      <4>2. client'[c].got + out'[c] <= 1
        BY <3>1, <4>1, SendsOne
      <4> QED BY <3>2, <4>2 DEF AnswersInv
    <3> QED BY <2>2, <3>3, <3>4 DEF AnswersInv
  <2> QED BY <1>3, <2>3, <2>4 DEF doPendingFunctors
<1> QED BY <1>1, <1>2, <1>3

(* clients, segments, answers and the end of a connection leave the requests
   where they are *)
LEMMA AnswersEvents ==
    ASSUME TypeOK, AnswersInv, Next, env.threads # {},
           UNCHANGED <<handled, task, step, io>>
    PROVE  AnswersInv'
<1>1. SendsOnce' /\ \A c \in Conns : Unanswered(c)' => Unanswered(c)
  BY DEF AnswersInv, SendsOnce, Unanswered, Sending
<1>s. ~SendFunctor
  <2> SUFFICES ASSUME SendFunctor PROVE FALSE
    OBVIOUS
  <2>1. io \in Seq(Functors) /\ io # <<>> /\ io' = Tail(io) /\ io' = io
    BY DEF SendFunctor, Pop, TypeOK
  <2>2. Len(io') = Len(io) - 1 /\ Len(io) \in Nat
    BY <2>1, Popped
  <2> QED BY <2>1, <2>2
<1>2. \A w \in Workers : step'[w] \in {"send", "queue"} => handled'[task'[w]] # <<>>
  BY DEF AnswersInv
<1>3. \A c \in Conns : client'[c].got + out'[c] <= 1
  <2>1. CASE UNCHANGED <<client, out>>
    BY <2>1 DEF AnswersInv
  <2>2. ASSUME NEW d \in Conns, Sends(d) \/ Closes(d) \/ handleWrite(d)
        PROVE  \A c \in Conns : client'[c].got + out'[c] <= 1
    <3> SUFFICES ASSUME NEW c \in Conns PROVE client'[c].got + out'[c] <= 1
      OBVIOUS
    <3>1. client'[c].got + out'[c] <= client[c].got + out[c] /\ client[c].got + out[c] <= 1
      BY <2>2, ClientsKeepSum DEF AnswersInv
    <3>2. client[c].got \in Nat /\ out[c] \in Nat /\ client'[c].got \in Nat /\ out'[c] \in Nat
      <4>1. TypeOK'
        BY TypeStep
      <4> QED BY <4>1 DEF TypeOK
    <3> QED BY <3>1, <3>2
  <2> QED BY <1>s, <2>1, <2>2 DEF Next, newConnection, handleRead, onMessage, handleClose, removeConnectionInLoop,
         doPendingFunctors, connectEstablished, connectDestroyed, Takes, Waits, OnRead, Peek, Reset,
         Execute, Handle, Send, QueueInLoop, Return
<1>4. \A c \in Conns : Unanswered(c) => client'[c].got = 0 /\ out'[c] = 0
  <2> SUFFICES ASSUME NEW c \in Conns, Unanswered(c) PROVE client'[c].got = 0 /\ out'[c] = 0
    OBVIOUS
  <2>0. client[c].got = 0 /\ out[c] = 0 /\ client[c] \in [sent : 0..MaxSegs, got : Nat, closed : BOOLEAN]
    BY DEF AnswersInv, TypeOK
  <2>1. CASE UNCHANGED <<client, out>>
    BY <2>0, <2>1
  <2>2. ASSUME NEW d \in Conns, Sends(d) \/ Closes(d) PROVE client'[c].got = 0 /\ out'[c] = 0
    <3>1. CASE d # c
      BY <2>0, <2>2, <3>1 DEF Sends, Closes, TypeOK
    <3>2. CASE d = c /\ Sends(c)
      BY <2>0, <3>2 DEF Sends, TypeOK
    <3>3. CASE d = c /\ Closes(c)
      BY <2>0, <3>3 DEF Closes, TypeOK
    <3> QED BY <2>2, <3>1, <3>2, <3>3
  <2>3. ASSUME NEW d \in Conns, handleWrite(d) PROVE client'[c].got = 0 /\ out'[c] = 0
    <3>1. d # c
      BY <2>0, <2>3 DEF handleWrite
    <3> QED BY <2>0, <2>3, <3>1 DEF handleWrite, Receives, TypeOK
  <2>4. ASSUME NEW d \in Conns, handleRead(d) PROVE client'[c].got = 0 /\ out'[c] = 0
    BY <2>0, <2>4 DEF handleRead, onMessage
  <2> QED BY <1>s, <2>1, <2>2, <2>3, <2>4 DEF Next, newConnection, handleClose, removeConnectionInLoop,
         doPendingFunctors, connectEstablished, connectDestroyed, Takes, Waits, OnRead, Peek, Reset,
         Execute, Handle, Send, QueueInLoop, Return
<1> QED BY <1>1, <1>2, <1>3, <1>4 DEF AnswersInv

(* A worker acts: what it has in hand has no functor before its answer is queued. *)
LEMMA AnswersWorker ==
    ASSUME OnceInv, AnswersInv, env.threads # {}, env.segs = 1,
           NEW w \in Workers, Takes(w) \/ OnRead(w)
    PROVE  AnswersInv'
<1> DEFINE c == task[w]
<1>0. TypeOK /\ HandledByPool /\ QueuedFresh /\ OneWorkerEach
  BY DEF OnceInv, HandledByPool
<1>1. \A v \in Workers \ {w} : task'[v] = task[v] /\ step'[v] = step[v]
  BY <1>0 DEF Takes, OnRead, Peek, Reset, Execute, Handle, Send, QueueInLoop, Return, Goto, TypeOK
<1>2. UNCHANGED <<client, out>>
  BY DEF Takes, OnRead, Peek, Reset, Execute, Handle, Send, QueueInLoop, Return
<1>3. \A i \in 1..Len(io) : Sending(i) =>
          handled[io[i].conn] # <<>> /\ (c = io[i].conn => step[w] = "return")
  BY DEF AnswersInv, SendsOnce
<1>4. CASE Takes(w)
  <2>1. PICK d \in Conns : take(w, d) /\ task' = [task EXCEPT ![w] = d]
    BY <1>4 DEF Takes
  <2>2. queue # <<>> /\ d = queue[1] /\ Len(queue) \in Nat \ {0}
    BY <1>0, <2>1, Popped DEF take, TypeOK, PoolTypeOK
  <2>3. handled[d] = <<>>
    BY <1>0, <2>2 DEF QueuedFresh
  <2>4. task'[w] = d /\ step'[w] = "peek" /\ UNCHANGED <<handled, io>>
    BY <1>0, <1>4, <2>1 DEF Takes, Goto, TypeOK, loops
  <2>5. SendsOnce'
    BY <1>1, <1>3, <2>3, <2>4 DEF AnswersInv, SendsOnce, Sending
  <2>6. \A e \in Conns : Unanswered(e)' => Unanswered(e)
    BY <1>1, <2>4 DEF Unanswered, Sending
  <2> QED BY <1>1, <1>2, <2>4, <2>5, <2>6, AnswersMove DEF AnswersInv
<1>5. ASSUME OnRead(w)
      PROVE  /\ c \in Conns /\ c # NoConn /\ WorkerKnows(w)
             /\ \A v \in Workers \ {w} : task[v] # c
  <2>1. step[w] # "idle"
    BY <1>5 DEF OnRead, Peek, Reset, Execute, Handle, Send, QueueInLoop, Return, At
  <2>2. c \in Conns /\ c # NoConn
    BY <1>0, <2>1, HttpAssumption DEF TypeOK
  <2> QED BY <1>0, <2>2 DEF OneWorkerEach
<1>6. CASE Peek(w) \/ Reset(w) \/ Execute(w) \/ Return(w)
  <2>1. /\ UNCHANGED <<handled, io>>
        /\ step'[w] \notin {"send", "queue"}
        /\ (task'[w] = c /\ step[w] # "return") \/ task'[w] = NoConn
    BY <1>0, <1>6 DEF Peek, Reset, Execute, Return, At, Goto, loops, TypeOK
  <2>2. SendsOnce'
    <3>1. \A i \in 1..Len(io) : io[i].conn # NoConn
      BY <1>0, IoFacts, HttpAssumption
    <3> QED BY <1>1, <1>3, <2>1, <3>1 DEF AnswersInv, SendsOnce, Sending
  <2>3. \A e \in Conns : Unanswered(e)' => Unanswered(e)
    BY <1>1, <2>1 DEF Unanswered, Sending
  <2> QED BY <1>1, <1>2, <2>1, <2>2, <2>3, AnswersMove DEF AnswersInv
<1>7. CASE Handle(w)
  <2>1. step[w] = "test" /\ handled[c] = <<>> /\ parser[c].read_all
    BY <1>5, <1>7 DEF OnRead, Handle, At, WorkerKnows
  <2>2. /\ handled' = [handled EXCEPT ![c] = Append(@, parser[c].body)]
        /\ step' = [step EXCEPT ![w] = "send"] /\ UNCHANGED <<task, io>>
    BY <1>7, <2>1 DEF Handle, Goto, loops
  <2>3. handled'[c] # <<>> /\ \A e \in Conns \ {c} : handled'[e] = handled[e]
    <3>1. Append(<<>>, parser[c].body) # <<>>
      OBVIOUS
    <3> QED BY <1>0, <1>5, <1>7, <2>1, <2>2, <3>1 DEF OnRead, TypeOK
  <2>4. \A i \in 1..Len(io) : Sending(i) => io[i].conn \in Conns \ {c}
    BY <1>0, <1>3, <2>1, IoFacts
  <2>5. SendsOnce'
    BY <1>1, <2>2, <2>3, <2>4 DEF AnswersInv, SendsOnce, Sending
  <2>6. \A e \in Conns : Unanswered(e)' => Unanswered(e)
    BY <1>1, <2>1, <2>2, <2>3 DEF Unanswered, Sending
  <2>7. \A v \in Workers : step'[v] \in {"send", "queue"} => handled'[task'[v]] # <<>>
    <3>1. \A v \in Workers \ {w} : step[v] \in {"send", "queue"} => task[v] \in Conns \ {c}
      <4>1. OnRead(w)
        BY <1>7 DEF OnRead
      <4>2. \A v \in Workers \ {w} : task[v] # c
        BY <1>5, <4>1
      <4>3. ASSUME NEW v \in Workers \ {w}, step[v] \in {"send", "queue"} PROVE task[v] \in Conns
        <5>1. step[v] # "idle"
          BY <4>3
        <5> QED BY <1>0, <5>1 DEF TypeOK
      <4> QED BY <4>2, <4>3
    <3> QED BY <1>1, <2>2, <2>3, <3>1 DEF AnswersInv
  <2> QED BY <1>2, <2>5, <2>6, <2>7, AnswersMove
<1>8. CASE Send(w)
  <2>1. /\ UNCHANGED <<handled, io, task>> /\ step[w] = "send"
        /\ step'[w] \in {"queue", "return"}
    BY <1>0, <1>8 DEF Send, At, Goto, loops, TypeOK
  <2>2. SendsOnce'
    BY <1>1, <1>3, <2>1 DEF AnswersInv, SendsOnce, Sending
  <2>3. \A e \in Conns : Unanswered(e)' => Unanswered(e)
    BY <1>1, <2>1 DEF Unanswered, Sending
  <2> QED BY <1>1, <1>2, <2>1, <2>2, <2>3, AnswersMove DEF AnswersInv
<1>9. CASE QueueInLoop(w)
  <2> DEFINE f == [do |-> "send", conn |-> c]
  <2>1. /\ UNCHANGED <<handled, task>> /\ step[w] = "queue" /\ step'[w] = "return"
        /\ io' = Append(io, f) /\ f \in Functors
    BY <1>0, <1>5, <1>9 DEF OnRead, QueueInLoop, At, Goto, TypeOK, Functors
  <2>2. /\ Len(io) \in Nat /\ Len(io') = Len(io) + 1 /\ io'[Len(io')] = f
        /\ \A i \in 1..Len(io) : io'[i] = io[i]
    BY <1>0, <2>1, Queues
  <2>3. handled[c] # <<>> /\ \A v \in Workers : task[v] = c => step'[v] = "return"
    BY <1>5, <1>9, <2>1 DEF OnRead, AnswersInv
  <2>4. \A i \in 1..Len(io) : Sending(i) => io[i].conn # c
    BY <1>3, <2>1
  <2>5. SendsOnce'
    <3> SUFFICES ASSUME NEW i \in 1..Len(io'), Sending(i)'
                 PROVE  /\ handled[io'[i].conn] # <<>>
                        /\ \A v \in Workers : task[v] = io'[i].conn => step'[v] = "return"
                        /\ \A j \in 1..Len(io') \ {i} : Sending(j)' => io'[j].conn # io'[i].conn
      BY <2>1 DEF SendsOnce
    <3>1. CASE i \in 1..Len(io)
      BY <1>1, <2>1, <2>2, <2>4, <3>1 DEF AnswersInv, SendsOnce, Sending
    <3>2. CASE i = Len(io')
      BY <2>2, <2>3, <2>4, <3>2 DEF Sending
    <3> QED BY <2>2, <3>1, <3>2
  <2>6. ASSUME NEW e \in Conns, Unanswered(e)' PROVE Unanswered(e)
    <3>1. CASE e = c
      BY <2>1, <3>1 DEF Unanswered
    <3>2. CASE e # c
      <4>1. \A i \in 1..Len(io') : Sending(i)' /\ io'[i].conn = e => i \in 1..Len(io) /\ Sending(i) /\ io[i].conn = e
        BY <2>2, <3>2 DEF Sending
      <4> QED BY <1>1, <2>1, <2>6, <4>1 DEF Unanswered
    <3> QED BY <3>1, <3>2
  <2> QED BY <1>1, <1>2, <2>1, <2>5, <2>6, AnswersMove DEF AnswersInv
<1> QED BY <1>4, <1>6, <1>7, <1>8, <1>9 DEF OnRead

LEMMA AnswersStep ==
    ASSUME OnceInv, AnswersInv, env.threads # {}, env.segs = 1, Next
    PROVE  AnswersInv'
<1>0. TypeOK
  BY DEF OnceInv
<1>1. CASE UNCHANGED <<handled, task, step, io>>
  BY <1>0, <1>1, AnswersEvents
<1>2. CASE removeConnectionInLoop \/ doPendingFunctors \/ \E c \in Conns : newConnection(c)
  BY <1>0, <1>2, AnswersLoop
<1>3. CASE \E w \in Workers : Takes(w) \/ OnRead(w)
  BY <1>3, AnswersWorker
<1>4. \A c \in Conns : handleRead(c) => UNCHANGED <<handled, task, step, io>>
  BY DEF handleRead, onMessage, loops, work
<1> QED BY <1>1, <1>2, <1>3, <1>4 DEF Next, Sends, Closes, handleWrite, handleClose, Waits, loops, work

(* without the pool nothing is sent through a functor *)
LEMMA NoFunctorStep ==
    ASSUME OnceInv, env.threads = {}, Next, \A i \in 1..Len(io) : ~Sending(i)
    PROVE  (\A i \in 1..Len(io) : ~Sending(i))'
<1>0. TypeOK /\ HandledInLoop
  BY DEF OnceInv
<1>1. CASE UNCHANGED io
  BY <1>1 DEF Sending
<1>2. CASE doPendingFunctors
  <2>1. io # <<>> /\ io' = Tail(io)
    BY <1>2 DEF doPendingFunctors, connectEstablished, SendFunctor, connectDestroyed, Pop
  <2>2. \A i \in 1..Len(io') : io'[i] = io[i + 1] /\ i + 1 \in 1..Len(io)
    BY <1>0, <2>1, Pops
  <2> QED BY <2>2 DEF Sending
<1>3. ASSUME NEW f \in Functors, f.do # "send", io' = Append(io, f)
      PROVE  (\A i \in 1..Len(io) : ~Sending(i))'
  <2>1. /\ Len(io) \in Nat /\ Len(io') = Len(io) + 1 /\ io'[Len(io')] = f
        /\ \A i \in 1..Len(io) : io'[i] = io[i]
    BY <1>0, <1>3, Queues
  <2> QED BY <1>3, <2>1 DEF Sending
<1>4. ASSUME NEW c \in Conns, newConnection(c) PROVE (\A i \in 1..Len(io) : ~Sending(i))'
  <2>1. [do |-> "established", conn |-> c] \in Functors
    BY DEF Functors
  <2> QED BY <1>3, <1>4, <2>1 DEF newConnection
<1>5. CASE removeConnectionInLoop
  <2>1. Head(base) \in Conns
    BY <1>0, <1>5, Popped DEF removeConnectionInLoop, TypeOK
  <2>2. [do |-> "destroyed", conn |-> Head(base)] \in Functors
    BY <2>1 DEF Functors
  <2> QED BY <1>3, <1>5, <2>2 DEF removeConnectionInLoop
<1>6. \A w \in Workers : ~QueueInLoop(w)
  BY <1>0 DEF HandledInLoop, TypeOK, QueueInLoop, At
<1> QED BY <1>1, <1>2, <1>4, <1>5, <1>6 DEF Next, Sends, Closes, handleRead, handleWrite, handleClose,
       Takes, Waits, OnRead, Peek, Reset, Execute, Handle, Send, Return, loops

(* without the pool, who has an answer has been handled *)
LEMMA AnswersInLoopStep ==
    ASSUME OnceInv, env.threads = {}, Next, AnswersInLoop
    PROVE  AnswersInLoop'
<1>0. TypeOK /\ BufferBound /\ HandledInLoop
  BY DEF OnceInv
<1>1. (\A i \in 1..Len(io) : ~Sending(i))'
  BY NoFunctorStep DEF AnswersInLoop
<1> DEFINE Sums == /\ \A d \in Conns : handled'[d] = <<>> => client'[d].got = 0 /\ out'[d] = 0
                   /\ \A d \in Conns : client'[d].got + out'[d] <= 1
<1>2. CASE UNCHANGED <<client, out, handled>>
  BY <1>1, <1>2 DEF AnswersInLoop
<1>3. ASSUME NEW c \in Conns, Sends(c) \/ Closes(c) \/ handleWrite(c) PROVE Sums
  <2>1. UNCHANGED handled
    BY <1>3 DEF Sends, Closes, handleWrite
  <2>2. ASSUME NEW d \in Conns
        PROVE  /\ handled'[d] = <<>> => client'[d].got = 0 /\ out'[d] = 0
               /\ client'[d].got + out'[d] <= 1
    <3>1. client'[d].got + out'[d] <= client[d].got + out[d] /\ client[d].got + out[d] <= 1
          /\ (client[d].got = 0 /\ out[d] = 0 => client'[d].got = 0 /\ out'[d] = 0)
      BY <1>0, <1>3, ClientsKeepSum DEF AnswersInLoop
    <3>2. client[d].got \in Nat /\ out[d] \in Nat /\ client'[d].got \in Nat /\ out'[d] \in Nat
      <4>1. TypeOK'
        BY <1>0, TypeStep
      <4> QED BY <1>0, <4>1 DEF TypeOK
    <3> QED BY <2>1, <3>1, <3>2 DEF AnswersInLoop
  <2> QED BY <2>2
<1>4. ASSUME NEW c \in Conns, handleRead(c), ~UNCHANGED <<client, out, handled>> PROVE Sums
  <2>1. PICK n \in buffer[c] + 1 .. client[c].sent : OnReadInLoop(c, n)
    BY <1>4 DEF handleRead, onMessage
  <2>2. /\ sendInLoop(c) /\ handled' = [handled EXCEPT ![c] = Append(@, Parsed(n).body)]
    BY <1>4, <2>1 DEF OnReadInLoop
  <2>3. handled[c] = <<>> /\ client[c].got = 0 /\ out[c] = 0
    <3>1. buffer[c] \in Nat /\ client[c].sent \in Nat /\ client[c].sent <= env.segs /\ env.segs \in Nat
      <4>1. client[c] \in [sent : 0..MaxSegs, got : Nat, closed : BOOLEAN] /\ buffer[c] \in 0..MaxSegs
        BY <1>0 DEF TypeOK
      <4>2. env.segs \in Nat /\ client[c].sent <= env.segs
        BY <1>0, SegsPositive DEF BufferBound
      <4> QED BY <4>1, <4>2
    <3>2. buffer[c] # env.segs
      BY <2>1, <3>1
    <3> QED BY <1>0, <3>2 DEF HandledInLoop, AnswersInLoop
  <2>4. handled'[c] # <<>> /\ \A d \in Conns \ {c} : handled'[d] = handled[d]
    <3>1. Append(<<>>, Parsed(n).body) # <<>>
      OBVIOUS
    <3> QED BY <1>0, <2>2, <2>3, <3>1 DEF TypeOK
  <2>5. client'[c].got + out'[c] <= 1
    BY <1>0, <2>2, <2>3, SendsOne
  <2>6. \A d \in Conns \ {c} : client'[d].got = client[d].got /\ out'[d] = out[d]
    BY <1>0, <2>2, SendsOne
  <2> QED BY <2>4, <2>5, <2>6 DEF AnswersInLoop
<1>5. ~SendFunctor
  <2> SUFFICES ASSUME SendFunctor PROVE FALSE
    OBVIOUS
  <2>1. io # <<>> /\ Head(io).do = "send" /\ io' = Tail(io)
    BY DEF SendFunctor, Pop
  <2>2. Len(io) \in Nat \ {0} /\ io[1] = Head(io)
    BY <1>0, <2>1, Pops
  <2> QED BY <2>1, <2>2 DEF AnswersInLoop, Sending
<1>6. \A w \in Workers : ~OnRead(w)
  <2>1. \A w \in Workers : step[w] = "idle"
    BY <1>0 DEF HandledInLoop, TypeOK
  <2> QED BY <2>1 DEF OnRead, Peek, Reset, Execute, Handle, Send, QueueInLoop, Return, At
<1>7. Sums \/ UNCHANGED <<client, out, handled>>
  BY <1>3, <1>4, <1>5, <1>6 DEF Next, newConnection, handleClose, removeConnectionInLoop, doPendingFunctors,
     connectEstablished, connectDestroyed, Takes, Waits
<1> QED BY <1>1, <1>2, <1>7 DEF AnswersInLoop

LEMMA AliveInit == Init => AliveInv
<1> SUFFICES ASSUME Init PROVE AliveInv
  OBVIOUS
<1>1. OnceInv /\ LoopsInv
  BY OnceInit, LoopsInit
<1>2. AnswersInv /\ AnswersInLoop /\ ClosesLate
  <2>1. Len(io) = 0 /\ \A c \in Conns : client[c] = [sent |-> 0, got |-> 0, closed |-> FALSE] /\ out[c] = 0
    BY DEF Init
  <2>2. \A w \in Workers : step[w] = "idle"
    BY DEF Init
  <2> QED BY <2>1, <2>2 DEF AnswersInv, AnswersInLoop, ClosesLate, SendsOnce
<1> QED BY <1>1, <1>2 DEF AliveInv

LEMMA AliveStep == AliveInv /\ [Next]_vars => AliveInv'
<1> SUFFICES ASSUME AliveInv, [Next]_vars PROVE AliveInv'
  OBVIOUS
<1>0. OnceInv /\ LoopsInv /\ TypeOK /\ OnceInv'
  BY OnceStep DEF AliveInv, OnceInv
<1>1. CASE UNCHANGED vars
  BY <1>0, <1>1 DEF AliveInv, LoopsInv, ClosesLate, Establishing, Sending, AnswersInv, AnswersInLoop, SendsOnce,
     Unanswered, vars, pool, loops, work
<1>2. CASE Next
  <2>1. UNCHANGED env /\ LoopsInv'
    BY <1>0, <1>2, BufferStep, LoopsStep DEF OnceInv
  <2>2. env.threads = {} => AnswersInLoop'
    BY <1>0, <1>2, AnswersInLoopStep DEF AliveInv
  <2>3. env.threads # {} /\ env.segs = 1 => AnswersInv'
    BY <1>0, <1>2, AnswersStep DEF AliveInv
  <2>4. ClosesLate'
    BY <1>0, <1>2, <2>1, ClosesLateStep DEF AliveInv
  <2> QED BY <1>0, <2>1, <2>2, <2>3, <2>4 DEF AliveInv
<1> QED BY <1>1, <1>2

(* A connection is destroyed only after it was closed, and no answer is sent on a
   destroyed one, as long as OnRead has it to itself and its client waits. *)
THEOREM AliveThroughout == Spec => []AliveWhenUsed
<1>1. ASSUME AliveInv PROVE AliveWhenUsed
  <2>0. TypeOK /\ LoopsInv
    BY <1>1 DEF AliveInv, OnceInv
  <2>1. \A c \in Conns : Destroyed(c) => state[c] = "disconnected"
    BY <2>0 DEF LoopsInv, Destroyed, Held, TypeOK
  <2>2. ASSUME Alone, env.threads = {} \/ env.patient, NEW i \in 1..Len(io), io[i].do = "send"
        PROVE  ~Destroyed(io[i].conn)
    <3>1. env.threads # {} /\ env.segs = 1 /\ env.patient
      BY <1>1, <2>2 DEF AliveInv, AnswersInLoop, Alone, Sending
    <3>2. io[i].conn \in Conns /\ client[io[i].conn].got = 0
      BY <1>1, <2>0, <2>2, <3>1, IoFacts DEF AliveInv, AnswersInv, Unanswered, Sending
    <3>3. ~client[io[i].conn].closed
      BY <1>1, <3>1, <3>2 DEF AliveInv, ClosesLate
    <3> QED BY <2>0, <2>1, <3>2, <3>3 DEF LoopsInv
  <2> QED BY <2>0, <2>1, <2>2 DEF AliveWhenUsed, LoopsInv
<1> QED BY <1>1, AliveInit, AliveStep, PTL DEF Spec

(* No client is answered twice, though workers send while clients close: one request
   is handled once, and its handler queues one answer. *)
THEOREM OneAnswerEach == Spec => []AnsweredOnce
<1>1. ASSUME AliveInv PROVE AnsweredOnce
  <2>0. TypeOK /\ (env.threads = {} => HandledInLoop) /\ (env.threads # {} /\ env.segs = 1 => HandledByPool)
    BY <1>1 DEF AliveInv, OnceInv
  <2> SUFFICES ASSUME Alone, NEW c \in Conns PROVE client[c].got + out[c] <= Len(handled[c])
    BY DEF AnsweredOnce
  <2>1. /\ handled[c] = <<>> => client[c].got = 0 /\ out[c] = 0
        /\ client[c].got + out[c] <= 1
    BY <1>1 DEF AliveInv, AnswersInLoop, AnswersInv, Unanswered, Alone
  <2>2. handled[c] \in {<<>>, <<"whole">>}
    BY <2>0 DEF HandledInLoop, HandledByPool, Alone
  <2>3. Len(<<>>) = 0 /\ Len(<<"whole">>) = 1
    OBVIOUS
  <2>4. CASE handled[c] = <<>>
    <3>1. client[c].got + out[c] = 0
      BY <2>1, <2>4
    <3> QED BY <2>3, <2>4, <3>1
  <2>5. CASE handled[c] = <<"whole">>
    BY <2>1, <2>3, <2>5
  <2> QED BY <2>2, <2>4, <2>5
<1> QED BY <1>1, AliveInit, AliveStep, PTL DEF Spec

-----------------------------------------------------------------------------
(* Whoever waits is waited for. *)
Opened == \A c \in Conns :
    /\ client[c].sent > 0 => state[c] # "none"
    /\ buffer[c] > 0 => state[c] \in {"connected", "disconnected"}
(* a request that was read whole *)
OnItsWay == \A c \in Conns :
    buffer[c] = env.segs /\ ~client[c].closed /\ client[c].got = 0 => Coming(c)
WayInv == AliveInv /\ NobodyStranded /\ Opened /\ (Alone => OnItsWay)

LEMMA PendingMore ==
    ASSUME TypeOK, NEW f \in Functors, io' = Append(io, f), NEW do, NEW d
    PROVE  /\ f.do = do /\ f.conn = d => Pending(do, d)'
           /\ Pending(do, d) => Pending(do, d)'
<1>1. /\ Len(io) \in Nat /\ Len(io') = Len(io) + 1 /\ io'[Len(io')] = f
      /\ \A i \in 1..Len(io) : io'[i] = io[i]
  BY Queues
<1>2. Len(io') \in 1..Len(io') /\ \A i \in 1..Len(io) : i \in 1..Len(io')
  BY <1>1
<1> QED BY <1>1, <1>2 DEF Pending

LEMMA PendingLess ==
    ASSUME TypeOK, io # <<>>, io' = Tail(io), NEW do, NEW d, Pending(do, d)
    PROVE  (Head(io).do = do /\ Head(io).conn = d) \/ Pending(do, d)'
<1>1. /\ Len(io) \in Nat \ {0} /\ Len(io') = Len(io) - 1 /\ Head(io) = io[1]
      /\ \A i \in 1..Len(io') : io'[i] = io[i + 1]
  BY Pops
<1>2. PICK i \in 1..Len(io) : io[i].do = do /\ io[i].conn = d
  BY DEF Pending
<1>3. CASE i # 1
  <2>1. i - 1 \in 1..Len(io') /\ io'[i - 1] = io[i]
    BY <1>1, <1>3
  <2> QED BY <1>2, <2>1 DEF Pending
<1> QED BY <1>1, <1>2, <1>3

(* A functor waits until the loop runs it. *)
LEMMA PendingKept ==
    ASSUME TypeOK, Next, NEW do, NEW d, Pending(do, d)
    PROVE  Pending(do, d)' \/ (doPendingFunctors /\ io # <<>> /\ Head(io).do = do /\ Head(io).conn = d)
<1>1. CASE UNCHANGED io
  BY <1>1 DEF Pending
<1>2. CASE doPendingFunctors
  <2>1. io # <<>> /\ io' = Tail(io)
    BY <1>2 DEF doPendingFunctors, connectEstablished, SendFunctor, connectDestroyed, Pop
  <2> QED BY <1>2, <2>1, PendingLess
<1>3. ASSUME NEW f \in Functors, io' = Append(io, f) PROVE Pending(do, d)'
  BY <1>3, PendingMore
<1>4. ASSUME NEW c \in Conns, newConnection(c) PROVE Pending(do, d)'
  <2>1. [do |-> "established", conn |-> c] \in Functors
    BY DEF Functors
  <2> QED BY <1>3, <1>4, <2>1 DEF newConnection
<1>5. CASE removeConnectionInLoop
  <2>1. Head(base) \in Conns
    BY <1>5, Popped DEF removeConnectionInLoop, TypeOK
  <2>2. [do |-> "destroyed", conn |-> Head(base)] \in Functors
    BY <2>1 DEF Functors
  <2> QED BY <1>3, <1>5, <2>2 DEF removeConnectionInLoop
<1>6. ASSUME NEW w \in Workers, QueueInLoop(w) PROVE Pending(do, d)'
  <2>1. task[w] \in Conns
    BY <1>6 DEF QueueInLoop, At, TypeOK
  <2>2. [do |-> "send", conn |-> task[w]] \in Functors
    BY <2>1 DEF Functors
  <2> QED BY <1>3, <1>6, <2>2 DEF QueueInLoop
<1>7. \/ UNCHANGED io \/ doPendingFunctors \/ removeConnectionInLoop
      \/ (\E c \in Conns : newConnection(c)) \/ (\E w \in Workers : QueueInLoop(w))
  BY DEF Next, Sends, Closes, handleRead, handleWrite, handleClose, Takes, Waits, OnRead, Peek, Reset,
     Execute, Handle, Send, Return, loops
<1> QED BY <1>1, <1>2, <1>4, <1>5, <1>6, <1>7

(* How a connection changes its state *)
LEMMA StateMoves ==
    ASSUME TypeOK, Next, NEW c \in Conns, state'[c] # state[c]
    PROVE  \/ newConnection(c) /\ state'[c] = "connecting"
           \/ connectEstablished /\ Head(io).conn = c /\ state'[c] = "connected"
           \/ handleClose(c) /\ state'[c] = "disconnected"
<1>1. ASSUME NEW d \in Conns, newConnection(d) PROVE newConnection(c) /\ state'[c] = "connecting"
  BY <1>1 DEF newConnection, TypeOK
<1>2. ASSUME NEW d \in Conns, handleClose(d) PROVE handleClose(c) /\ state'[c] = "disconnected"
  BY <1>2 DEF handleClose, TypeOK
<1>3. CASE connectEstablished
  BY <1>3 DEF connectEstablished, TypeOK
<1>4. \/ UNCHANGED state \/ connectEstablished
      \/ \E d \in Conns : newConnection(d) \/ handleClose(d)
  BY DEF Next, Sends, Closes, handleRead, handleWrite, removeConnectionInLoop, doPendingFunctors, SendFunctor,
     connectDestroyed, Takes, Waits, OnRead, Peek, Reset, Execute, Handle, Send, QueueInLoop, Return, loops
<1> QED BY <1>1, <1>2, <1>3, <1>4

LEMMA StrandedStep ==
    ASSUME TypeOK, LoopsInv, NobodyStranded, Next
    PROVE  NobodyStranded'
<1> SUFFICES ASSUME NEW c \in Conns
             PROVE  /\ state'[c] = "connecting" => Pending("established", c)'
                    /\ state'[c] = "disconnected" /\ c \in connections' => Leaving(c)'
  BY DEF NobodyStranded
<1>1. ASSUME state'[c] = "connecting" PROVE Pending("established", c)'
  <2>1. CASE state[c] = "connecting"
    <3>1. Pending("established", c)
      BY <2>1 DEF NobodyStranded
    <3>2. ASSUME doPendingFunctors, io # <<>>, Head(io).do = "established", Head(io).conn = c PROVE FALSE
      <4>1. connectEstablished
        BY <3>2 DEF doPendingFunctors, SendFunctor, connectDestroyed, Pop
      <4>2. state'[c] = "connected"
        BY <3>2, <4>1 DEF connectEstablished, TypeOK
      <4> QED BY <1>1, <4>2
    <3> QED BY <3>1, <3>2, PendingKept
  <2>2. CASE state[c] # "connecting"
    <3>1. newConnection(c)
      BY <1>1, <2>2, StateMoves
    <3>2. [do |-> "established", conn |-> c] \in Functors
      BY DEF Functors
    <3> QED BY <3>1, <3>2, PendingMore DEF newConnection
  <2> QED BY <2>1, <2>2
<1>2. ASSUME state'[c] = "disconnected", c \in connections' PROVE Leaving(c)'
  <2>m. ASSUME NEW d \in Conns, base' = Append(base, d) PROVE Leaving(d)' /\ (Leaving(c) => Leaving(c)')
    <3>1. /\ Len(base) \in Nat /\ Len(base') = Len(base) + 1 /\ base'[Len(base')] = d
          /\ \A i \in 1..Len(base) : base'[i] = base[i]
      BY <2>m, Appended DEF TypeOK
    <3>2. Len(base') \in 1..Len(base') /\ \A i \in 1..Len(base) : i \in 1..Len(base')
      BY <3>1
    <3> QED BY <3>1, <3>2 DEF Leaving
  <2>1. CASE state[c] # "disconnected"
    <3>1. handleClose(c)
      BY <1>2, <2>1, StateMoves
    <3> QED BY <2>m, <3>1 DEF handleClose
  <2>2. CASE state[c] = "disconnected"
    <3>1. c \in connections /\ Leaving(c)
      <4>1. ASSUME NEW d \in Conns, newConnection(d) PROVE c \in connections
        <5>1. d # c
          BY <2>2, <4>1 DEF newConnection
        <5> QED BY <1>2, <4>1, <5>1 DEF newConnection
      <4>2. connections' \subseteq connections \/ \E d \in Conns : newConnection(d)
        <5>1. CASE UNCHANGED connections
          BY <5>1
        <5>2. CASE removeConnectionInLoop
          BY <5>2 DEF removeConnectionInLoop
        <5>3. UNCHANGED connections \/ removeConnectionInLoop \/ \E d \in Conns : newConnection(d)
          BY DEF Next, Sends, Closes, handleRead, handleWrite, handleClose, doPendingFunctors, connectEstablished,
             SendFunctor, connectDestroyed, Takes, Waits, OnRead, Peek, Reset, Execute, Handle, Send,
             QueueInLoop, Return, loops
        <5> QED BY <5>1, <5>2, <5>3
      <4>3. c \in connections
        BY <1>2, <4>1, <4>2
      <4> QED BY <2>2, <4>3 DEF NobodyStranded
    <3>2. CASE UNCHANGED base
      BY <3>1, <3>2 DEF Leaving
    <3>3. CASE removeConnectionInLoop
      <4>1. /\ base # <<>> /\ base' = Tail(base) /\ Head(base) # c
        BY <1>2, <3>3 DEF removeConnectionInLoop
      <4>2. /\ Len(base) \in Nat \ {0} /\ Len(base') = Len(base) - 1 /\ Head(base) = base[1]
            /\ \A i \in 1..Len(base') : base'[i] = base[i + 1]
        BY <4>1, Popped DEF TypeOK
      <4>3. PICK i \in 1..Len(base) : base[i] = c
        BY <3>1 DEF Leaving
      <4>4. i - 1 \in 1..Len(base') /\ base'[i - 1] = c
        BY <4>1, <4>2, <4>3
      <4> QED BY <4>4 DEF Leaving
    <3>4. ASSUME NEW d \in Conns, handleClose(d) PROVE Leaving(c)'
      BY <2>m, <3>1, <3>4 DEF handleClose
    <3>5. UNCHANGED base \/ removeConnectionInLoop \/ \E d \in Conns : handleClose(d)
      BY DEF Next, Sends, Closes, newConnection, handleRead, handleWrite, doPendingFunctors, connectEstablished,
         SendFunctor, connectDestroyed, Takes, Waits, OnRead, Peek, Reset, Execute, Handle, Send,
         QueueInLoop, Return, loops
    <3> QED BY <3>2, <3>3, <3>4, <3>5
  <2> QED BY <2>1, <2>2
<1> QED BY <1>1, <1>2

LEMMA SentMoves ==
    ASSUME TypeOK, Next, NEW c \in Conns, ~Sends(c)
    PROVE  client'[c].sent = client[c].sent
<1>1. ASSUME NEW d \in Conns, Sends(d) PROVE client'[c].sent = client[c].sent
  <2>1. d # c
    BY <1>1
  <2> QED BY <1>1, <2>1 DEF Sends, TypeOK
<1>2. ASSUME NEW d \in Conns, Closes(d) \/ handleWrite(d) \/ handleRead(d)
      PROVE  client'[c].sent = client[c].sent
  <2>1. CASE Closes(d) \/ handleRead(d)
    <3>1. Closes(d) \/ sendInLoop(d) \/ UNCHANGED client
      BY <2>1 DEF handleRead, onMessage, OnReadInLoop
    <3> QED BY <3>1, SentKept
  <2>2. CASE handleWrite(d)
    <3>1. out[d] \in Nat /\ Receives(d, out[d])
      BY <2>2 DEF handleWrite, TypeOK
    <3> QED BY <3>1, SentKept
  <2> QED BY <1>2, <2>1, <2>2
<1>3. CASE SendFunctor
  <2>1. Head(io).conn \in Conns
    BY <1>3, Pops DEF SendFunctor, Pop
  <2> QED BY <1>3, <2>1, SentKept DEF SendFunctor
<1>4. CASE UNCHANGED client
  BY <1>4
<1> QED BY <1>1, <1>2, <1>3, <1>4 DEF Next, newConnection, handleClose, removeConnectionInLoop,
       doPendingFunctors, connectEstablished, connectDestroyed, Takes, Waits, OnRead, Peek, Reset,
       Execute, Handle, Send, QueueInLoop, Return

LEMMA BufferMoves ==
    ASSUME TypeOK, Next, NEW c \in Conns, ~handleRead(c)
    PROVE  buffer'[c] = buffer[c]
<1>1. ASSUME NEW d \in Conns, handleRead(d) PROVE buffer'[c] = buffer[c]
  <2>1. d # c
    BY <1>1
  <2> QED BY <1>1, <2>1 DEF handleRead, TypeOK
<1>2. CASE UNCHANGED buffer
  BY <1>2
<1> QED BY <1>1, <1>2 DEF Next, Sends, Closes, newConnection, handleWrite, handleClose, removeConnectionInLoop,
       doPendingFunctors, connectEstablished, SendFunctor, connectDestroyed, Takes, Waits, OnRead, Peek,
       Reset, Execute, Handle, Send, QueueInLoop, Return

LEMMA OpenedStep ==
    ASSUME TypeOK, BufferBound, Opened, Next
    PROVE  Opened'
<1> SUFFICES ASSUME NEW c \in Conns
             PROVE  /\ client'[c].sent > 0 => state'[c] # "none"
                    /\ buffer'[c] > 0 => state'[c] \in {"connected", "disconnected"}
  BY DEF Opened
<1>0. TypeOK'
  BY TypeStep
<1>1. state[c] \in {"connected", "disconnected"} => state'[c] \in {"connected", "disconnected"}
  BY StateMoves DEF newConnection
<1>2. state[c] # "none" => state'[c] # "none"
  BY StateMoves
<1>3. client'[c].sent > 0 => state[c] # "none"
  <2>1. CASE Sends(c)
    BY <2>1 DEF Sends
  <2>2. CASE ~Sends(c)
    <3>1. client'[c].sent = client[c].sent
      BY <2>2, SentMoves
    <3> QED BY <3>1 DEF Opened
  <2> QED BY <2>1, <2>2
<1>4. buffer'[c] > 0 => state[c] \in {"connected", "disconnected"}
  <2>1. CASE handleRead(c)
    BY <2>1 DEF handleRead
  <2>2. CASE ~handleRead(c)
    <3>1. buffer'[c] = buffer[c]
      BY <2>2, BufferMoves
    <3> QED BY <3>1 DEF Opened
  <2> QED BY <2>1, <2>2
<1> QED BY <1>1, <1>2, <1>3, <1>4

(* Who is sent an answer has it, or it waits to be written. *)
LEMMA SentComes ==
    ASSUME TypeOK, NEW c \in Conns, sendInLoop(c), state[c] # "disconnected", ~client[c].closed
    PROVE  client'[c].got > 0 \/ out'[c] > 0
<1>0. /\ client \in [Conns -> [sent : 0..MaxSegs, got : Nat, closed : BOOLEAN]]
      /\ client[c].got \in Nat /\ out[c] \in Nat /\ out \in [Conns -> Nat]
  BY DEF TypeOK
<1>1. CASE Receives(c, 1)
  <2>1. client'[c].got = client[c].got + 1
    BY <1>0, <1>1 DEF Receives
  <2> QED BY <1>0, <2>1
<1>2. CASE out' = [out EXCEPT ![c] = @ + 1]
  BY <1>0, <1>2
<1> QED BY <1>1, <1>2 DEF sendInLoop

LEMMA QueueKept ==
    ASSUME TypeOK, Next, NEW c \in Conns, Queued(c)
    PROVE  Queued(c)' \/ \E w \in Workers : task'[w] = c /\ step'[w] = "peek"
<1>1. CASE UNCHANGED queue
  BY <1>1 DEF Queued
<1>2. ASSUME NEW d \in Conns, run(d) PROVE Queued(c)'
  <2>1. /\ Len(queue) \in Nat /\ Len(queue') = Len(queue) + 1
        /\ \A i \in 1..Len(queue) : queue'[i] = queue[i]
    BY <1>2, Appended DEF run, TypeOK, PoolTypeOK
  <2>2. \A i \in 1..Len(queue) : i \in 1..Len(queue')
    BY <2>1
  <2> QED BY <2>1, <2>2 DEF Queued
<1>3. ASSUME NEW w \in Workers, Takes(w)
      PROVE  Queued(c)' \/ (task'[w] = c /\ step'[w] = "peek")
  <2>1. PICK d \in Conns : take(w, d) /\ task' = [task EXCEPT ![w] = d]
    BY <1>3 DEF Takes
  <2>2. /\ queue # <<>> /\ Len(queue) \in Nat \ {0} /\ Len(queue') = Len(queue) - 1 /\ d = queue[1]
        /\ \A i \in 1..Len(queue') : queue'[i] = queue[i + 1]
    BY <2>1, Popped DEF take, TypeOK, PoolTypeOK
  <2>3. task'[w] = d /\ step'[w] = "peek"
    BY <1>3, <2>1 DEF Takes, Goto, TypeOK
  <2>4. PICK i \in 1..Len(queue) : queue[i] = c
    BY DEF Queued
  <2>5. CASE i # 1
    <3>1. i - 1 \in 1..Len(queue') /\ queue'[i - 1] = c
      BY <2>2, <2>4, <2>5
    <3> QED BY <3>1 DEF Queued
  <2> QED BY <2>2, <2>3, <2>4, <2>5
<1>4. ASSUME NEW d \in Conns, handleRead(d) PROVE run(d) \/ UNCHANGED queue
  BY <1>4 DEF handleRead, onMessage, OnReadInLoop, pool
<1>5. \/ UNCHANGED queue \/ (\E d \in Conns : handleRead(d))
      \/ \E w \in Workers : Takes(w)
  BY DEF Next, Sends, Closes, newConnection, handleWrite, handleClose, removeConnectionInLoop, doPendingFunctors,
     connectEstablished, SendFunctor, connectDestroyed, Waits, wait, SpuriousWakeup, OnRead, Peek, Reset,
     Execute, Handle, Send, QueueInLoop, Return, finish, pool
<1> QED BY <1>1, <1>2, <1>3, <1>4, <1>5

(* A worker with a whole request goes on until its answer is queued, unless the
   connection is closed meanwhile. *)
LEMMA WorkerBrings ==
    ASSUME OnceInv, LoopsInv, Opened, env.threads # {}, env.segs = 1, Next,
           NEW w \in Workers, NEW c \in Conns, task[w] = c, step[w] # "return", ~client[c].closed
    PROVE  Coming(c)'
<1>0. TypeOK /\ OneWorkerEach /\ c # NoConn /\ place[w] = "busy"
  BY HttpAssumption DEF OnceInv, HandledByPool, TypeOK
<1>1. WorkerKnows(w) /\ state[c] = "connected"
  <2>1. WorkerKnows(w) /\ buffer[c] = 1
    BY <1>0 DEF OneWorkerEach, WorkerKnows
  <2> QED BY <1>0, <2>1 DEF Opened, LoopsInv
<1>2. CASE task'[w] = task[w] /\ step'[w] = step[w]
  BY <1>2 DEF Coming
<1>3. CASE Peek(w) \/ Reset(w) \/ Execute(w)
  <2>1. UNCHANGED task /\ step'[w] \in {"reset", "execute", "test"}
    BY <1>0, <1>3 DEF Peek, Reset, Execute, Goto, TypeOK
  <2> QED BY <2>1 DEF Coming
<1>4. CASE Handle(w)
  <2>1. parser[c].read_all
    BY <1>1, <1>4 DEF Handle, At, WorkerKnows
  <2>2. UNCHANGED task /\ step'[w] = "send"
    BY <1>0, <1>4, <2>1 DEF Handle, Goto, TypeOK
  <2> QED BY <2>2 DEF Coming
<1>5. CASE Send(w)
  <2>1. UNCHANGED task /\ step'[w] = "queue"
    BY <1>0, <1>1, <1>5 DEF Send, Goto, TypeOK
  <2> QED BY <2>1 DEF Coming
<1>6. CASE QueueInLoop(w)
  <2>1. [do |-> "send", conn |-> c] \in Functors
    BY DEF Functors
  <2>2. Pending("send", c)'
    BY <1>0, <1>6, <2>1, PendingMore DEF QueueInLoop
  <2> QED BY <2>2 DEF Coming
<1>7. ~Return(w) /\ ~Takes(w)
  BY <1>0 DEF Return, At, Takes, take, Testing
<1>8. ASSUME NEW v \in Workers \ {w}, Takes(v) \/ Waits(v) \/ OnRead(v)
      PROVE  task'[w] = task[w] /\ step'[w] = step[w]
  BY <1>0, <1>8 DEF Takes, Waits, OnRead, Peek, Reset, Execute, Handle, Send, QueueInLoop, Return, Goto, TypeOK, work
<1>9. CASE UNCHANGED <<task, step>>
  BY <1>2, <1>9
<1>10. \/ UNCHANGED <<task, step>>
       \/ \E v \in Workers : Takes(v) \/ Waits(v) \/ OnRead(v)
  BY DEF Next, Sends, Closes, newConnection, handleRead, handleWrite, handleClose, removeConnectionInLoop,
     doPendingFunctors, connectEstablished, SendFunctor, connectDestroyed, work
<1>11. Waits(w) => UNCHANGED <<task, step>>
  BY DEF Waits, work
<1> QED BY <1>2, <1>3, <1>4, <1>5, <1>6, <1>7, <1>8, <1>9, <1>10, <1>11 DEF OnRead

(* An answer that waits to be written is received, or goes on waiting. *)
LEMMA OutKept ==
    ASSUME TypeOK, Next, NEW c \in Conns, out[c] > 0, ~client[c].closed
    PROVE  client'[c].got > 0 \/ out'[c] > 0
<1>0. /\ client \in [Conns -> [sent : 0..MaxSegs, got : Nat, closed : BOOLEAN]]
      /\ client[c].got \in Nat /\ out[c] \in Nat /\ out \in [Conns -> Nat]
  BY DEF TypeOK
<1>1. ASSUME NEW d \in Conns, sendInLoop(d) PROVE out'[c] > 0
  BY <1>0, <1>1 DEF sendInLoop
<1>2. ASSUME NEW d \in Conns, handleWrite(d) PROVE client'[c].got > 0 \/ out'[c] > 0
  <2>1. CASE d = c
    <3>1. client'[c].got = client[c].got + out[c]
      BY <1>0, <1>2, <2>1 DEF handleWrite, Receives
    <3> QED BY <1>0, <3>1
  <2>2. CASE d # c
    BY <1>0, <1>2, <2>2 DEF handleWrite
  <2> QED BY <2>1, <2>2
<1>3. ASSUME NEW d \in Conns, handleRead(d) PROVE out'[c] > 0
  <2>1. sendInLoop(d) \/ UNCHANGED out
    BY <1>3 DEF handleRead, onMessage, OnReadInLoop
  <2> QED BY <1>0, <1>1, <2>1
<1>4. CASE SendFunctor
  <2>1. Head(io).conn \in Conns
    BY <1>4, Pops DEF SendFunctor, Pop
  <2> QED BY <1>1, <1>4, <2>1 DEF SendFunctor
<1>5. CASE UNCHANGED out
  BY <1>0, <1>5
<1> QED BY <1>2, <1>3, <1>4, <1>5 DEF Next, Sends, Closes, newConnection, handleClose, removeConnectionInLoop,
       doPendingFunctors, connectEstablished, connectDestroyed, Takes, Waits, OnRead, Peek, Reset,
       Execute, Handle, Send, QueueInLoop, Return

LEMMA WayStep ==
    ASSUME OnceInv, LoopsInv, Opened, Alone, OnItsWay, Next, UNCHANGED env
    PROVE  OnItsWay'
<1> SUFFICES ASSUME NEW c \in Conns, buffer'[c] = env.segs, ~client'[c].closed, client'[c].got = 0
             PROVE  Coming(c)'
  BY DEF OnItsWay
<1>0. TypeOK /\ TypeOK'
  BY TypeStep DEF OnceInv
<1>1. ~client[c].closed /\ client[c].got = 0
  <2>1. client'[c].got >= client[c].got /\ (client[c].closed => client'[c].closed)
    BY <1>0, ClientKeeps
  <2>2. client[c].got \in Nat
    BY <1>0 DEF TypeOK
  <2> QED BY <2>1, <2>2
<1>2. CASE buffer[c] # env.segs
  <2>1. handleRead(c)
    BY <1>0, <1>2, BufferMoves
  <2>2. PICK n \in buffer[c] + 1 .. client[c].sent :
            buffer' = [buffer EXCEPT ![c] = n] /\ onMessage(c, n)
    BY <2>1 DEF handleRead
  <2>3. n = env.segs
    BY <1>0, <2>2 DEF TypeOK
  <2>4. CASE env.threads = {}
    <3>1. sendInLoop(c) /\ state[c] = "connected"
      BY <2>1, <2>2, <2>3, <2>4 DEF handleRead, onMessage, OnReadInLoop, Parsed
    <3>2. out'[c] > 0
      BY <1>0, <1>1, <3>1, SentComes
    <3> QED BY <3>2 DEF Coming
  <2>5. CASE env.threads # {}
    <3>1. queue' = Append(queue, c) /\ queue \in Seq(Conns)
      BY <1>0, <2>2, <2>5 DEF onMessage, run, TypeOK, PoolTypeOK
    <3>2. Len(queue') \in 1..Len(queue') /\ queue'[Len(queue')] = c
      BY <3>1, Appended
    <3> QED BY <3>2 DEF Coming, Queued
  <2> QED BY <2>4, <2>5
<1>3. CASE buffer[c] = env.segs
  <2>1. Coming(c) /\ state[c] # "disconnected"
    BY <1>1, <1>3 DEF OnItsWay, LoopsInv
  <2>2. CASE out[c] > 0
    <3>1. out'[c] > 0
      BY <1>0, <1>1, <2>2, OutKept
    <3> QED BY <3>1 DEF Coming
  <2>3. CASE Queued(c)
    BY <1>0, <2>3, QueueKept DEF Coming
  <2>4. ASSUME NEW w \in Workers, task[w] = c, step[w] # "return" PROVE Coming(c)'
    <3>1. env.threads # {}
      <4>1. place[w] = "busy"
        BY <1>0, <2>4, HttpAssumption DEF TypeOK
      <4> QED BY <4>1 DEF OnceInv, HandledInLoop
    <3>2. env.segs = 1
      BY <3>1 DEF Alone
    <3> QED BY <1>1, <2>4, <3>1, <3>2, WorkerBrings
  <2>5. CASE Pending("send", c)
    <3>1. CASE Pending("send", c)'
      BY <3>1 DEF Coming
    <3>2. CASE doPendingFunctors /\ io # <<>> /\ Head(io).do = "send" /\ Head(io).conn = c
      <4>1. sendInLoop(c)
        BY <3>2 DEF doPendingFunctors, connectEstablished, SendFunctor, connectDestroyed, Pop
      <4>2. out'[c] > 0
        BY <1>0, <1>1, <2>1, <4>1, SentComes
      <4> QED BY <4>2 DEF Coming
    <3> QED BY <1>0, <2>5, <3>1, <3>2, PendingKept
  <2> QED BY <2>1, <2>2, <2>3, <2>4, <2>5 DEF Coming
<1> QED BY <1>2, <1>3

LEMMA WayInit == Init => WayInv
<1> SUFFICES ASSUME Init PROVE WayInv
  OBVIOUS
<1>1. TypeOK /\ env.segs \in Nat \ {0}
  BY TypeInit, SegsPositive
<1>2. \A c \in Conns : buffer[c] = 0 /\ client[c].sent = 0 /\ state[c] = "none"
  BY DEF Init
<1>3. NobodyStranded /\ Opened /\ OnItsWay
  BY <1>1, <1>2 DEF NobodyStranded, Opened, OnItsWay
<1> QED BY <1>3, AliveInit DEF WayInv

LEMMA WayNext == WayInv /\ [Next]_vars => WayInv'
<1> SUFFICES ASSUME WayInv, [Next]_vars PROVE WayInv'
  OBVIOUS
<1>0. AliveInv /\ AliveInv' /\ OnceInv /\ LoopsInv /\ TypeOK /\ BufferBound
  BY AliveStep DEF WayInv, AliveInv, OnceInv
<1>1. CASE UNCHANGED vars
  BY <1>0, <1>1 DEF WayInv, NobodyStranded, Opened, OnItsWay, Alone, Coming, Pending, Leaving, Queued,
     vars, pool, loops, work
<1>2. CASE Next
  <2>1. UNCHANGED env
    BY <1>0, <1>2, BufferStep
  <2>2. NobodyStranded' /\ Opened'
    BY <1>0, <1>2, StrandedStep, OpenedStep DEF WayInv
  <2>3. Alone' => OnItsWay'
    BY <1>0, <1>2, <2>1, WayStep DEF WayInv, Alone
  <2> QED BY <1>0, <2>2, <2>3 DEF WayInv
<1> QED BY <1>1, <1>2

(* A connection that is being established or was closed has a functor that will act
   on it, so that the loops cannot forget it. *)
THEOREM LoopsRemember == Spec => []NobodyStranded
<1>1. WayInv => NobodyStranded
  BY DEF WayInv
<1> QED BY <1>1, WayInit, WayNext, PTL DEF Spec

(* A client who has sent his request and stays has an answer or something on its
   way that leads to one: no request is dropped between segment and answer. *)
THEOREM AnswersComing == Spec => []AnswerOnItsWay
<1>1. ASSUME WayInv PROVE AnswerOnItsWay
  <2>0. TypeOK /\ BufferBound /\ LoopsInv /\ Opened /\ NobodyStranded
    BY <1>1 DEF WayInv, AliveInv, OnceInv
  <2> SUFFICES ASSUME Alone, NEW c \in Conns,
                      client[c].sent = env.segs, ~client[c].closed, client[c].got = 0
               PROVE  \/ Pending("established", c)
                      \/ state[c] = "connected" /\ (buffer[c] < env.segs \/ Coming(c))
    BY DEF AnswerOnItsWay
  <2>1. env.segs \in Nat \ {0} /\ buffer[c] \in Nat /\ buffer[c] <= env.segs
    BY <2>0, SegsPositive DEF BufferBound, TypeOK
  <2>2. state[c] \in {"connecting", "connected"}
    <3>1. state[c] # "none"
      BY <2>0, <2>1 DEF Opened
    <3> QED BY <2>0, <3>1 DEF LoopsInv, TypeOK
  <2>3. buffer[c] < env.segs \/ Coming(c)
    BY <1>1, <2>1 DEF WayInv, OnItsWay
  <2> QED BY <2>0, <2>2, <2>3 DEF NobodyStranded
<1> QED BY <1>1, WayInit, WayNext, PTL DEF Spec
=============================================================================
