--------------------------------- MODULE Http ---------------------------------
(***************************************************************************)
(* From a TCP segment to an answer: muduo's connections and loops as far   *)
(* as the server uses them, HttpServer with its map of connections, the    *)
(* thread pool, and CHttpConn::OnRead with its parser.                     *)
(*                                                                         *)
(* One I/O loop stands for all (connections share only the map, under its  *)
(* mutex, and the pool), beside the base loop that accepts and removes     *)
(* connections.  The input buffer is never drained: each OnRead parses all *)
(* of it from the start.  A connection carries one request, in one or more *)
(* segments; the write-complete callback, which only logs, is left out.    *)
(***************************************************************************)
EXTENDS ThreadPool

CONSTANTS MaxSegs,
          Scenarios,   \* the scenarios to explore
          NoConn       \* null value

(* threads of the pool ({}: requests are handled in the I/O loop), connections,
   segments of a request, and whether clients wait for their answer *)
Scenario == [threads : SUBSET Workers, conns : SUBSET Conns, segs : 1..MaxSegs,
             patient : BOOLEAN]
ASSUME HttpAssumption ==
    /\ MaxSegs \in Nat \ {0} /\ NoConn \notin Conns
    /\ \A e \in Scenarios : e \in Scenario

VARIABLES
    env,           \* the scenario
    client,        \* per connection: segments sent, answers received, closed
    state, connections, s_http_map, io, base,
                   \* TcpConnection::state_, the maps of TcpServer and HttpServer,
                   \* functors that wait for the two loops
    buffer, out,   \* per connection: segments read, answers not yet written
    parser,        \* per connection: what the parser holds
    step, task, seen,
                   \* per worker: where it stands in OnRead, of which connection,
                   \* and the segments it found in the buffer
    handled        \* per connection: the requests that handlers got

loops == <<state, connections, s_http_map, io, base>>
work == <<step, task, seen>>
vars == <<env, client, pool, loops, buffer, out, parser, work, handled>>

Bodies == {"none", "part", "whole", "mixed"}
Functors == [do : {"established", "send", "destroyed"}, conn : Conns]

TypeOK ==
    /\ PoolTypeOK
    /\ env \in Scenarios
    /\ client \in [Conns -> [sent : 0..MaxSegs, got : Nat, closed : BOOLEAN]]
    /\ state \in [Conns -> {"none", "connecting", "connected", "disconnected"}]
    /\ connections \subseteq Conns /\ s_http_map \subseteq Conns
    /\ io \in Seq(Functors) /\ base \in Seq(Conns)
    /\ buffer \in [Conns -> 0..MaxSegs] /\ out \in [Conns -> Nat]
    /\ parser \in [Conns -> [read_all : BOOLEAN, body : Bodies]]
    /\ step \in [Workers -> {"idle", "peek", "reset", "execute", "test", "send", "queue", "return"}]
    /\ task \in [Workers -> Conns \cup {NoConn}]
    /\ seen \in [Workers -> 0..MaxSegs]
    /\ handled \in [Conns -> Seq(Bodies)]
    /\ \A w \in Workers : (place[w] = "busy") = (task[w] # NoConn) /\ (step[w] = "idle") = (task[w] = NoConn)

Init ==
    /\ env \in Scenarios
    /\ client = [c \in Conns |-> [sent |-> 0, got |-> 0, closed |-> FALSE]]
    /\ start(env.threads)
    /\ state = [c \in Conns |-> "none"] /\ connections = {} /\ s_http_map = {}
    /\ io = <<>> /\ base = <<>>
    /\ buffer = [c \in Conns |-> 0] /\ out = [c \in Conns |-> 0]
    /\ parser = [c \in Conns |-> [read_all |-> FALSE, body |-> "none"]]
    /\ step = [w \in Workers |-> "idle"] /\ task = [w \in Workers |-> NoConn]
    /\ seen = [w \in Workers |-> 0]
    /\ handled = [c \in Conns |-> <<>>]

(* shared_ptr: what keeps a connection.  A task keeps the CHttpConn, which keeps
   it; the functor that send queues has a raw pointer. *)
Queued(c) == \E i \in 1..Len(queue) : queue[i] = c
Held(c) == \/ c \in connections \cup s_http_map \/ Queued(c)
           \/ \E w \in Workers : task[w] = c
           \/ \E i \in 1..Len(base) : base[i] = c
           \/ \E i \in 1..Len(io) : io[i].conn = c /\ io[i].do # "send"
Destroyed(c) == state[c] # "none" /\ ~Held(c)

-----------------------------------------------------------------------------
(* Clients *)
Sends(c) ==
    /\ state[c] # "none" /\ ~client[c].closed /\ client[c].sent < env.segs
    /\ client' = [client EXCEPT ![c].sent = @ + 1]
    /\ UNCHANGED <<env, pool, loops, buffer, out, parser, work, handled>>
Closes(c) ==
    /\ state[c] # "none" /\ ~client[c].closed
    /\ env.patient => client[c].got > 0
    /\ client' = [client EXCEPT ![c].closed = TRUE]
    /\ UNCHANGED <<env, pool, loops, buffer, out, parser, work, handled>>
Receives(c, n) == client' = [client EXCEPT ![c].got = IF client[c].closed THEN @ ELSE @ + n]

-----------------------------------------------------------------------------
(* The base loop *)
newConnection(c) ==
    /\ c \in env.conns /\ state[c] = "none"
    /\ state' = [state EXCEPT ![c] = "connecting"]
    /\ connections' = connections \cup {c}
    /\ io' = Append(io, [do |-> "established", conn |-> c])
    /\ UNCHANGED <<env, client, pool, s_http_map, base, buffer, out, parser, work, handled>>
removeConnectionInLoop ==
    /\ base # <<>> /\ base' = Tail(base)
    /\ connections' = connections \ {Head(base)}
    /\ io' = Append(io, [do |-> "destroyed", conn |-> Head(base)])
    /\ UNCHANGED <<env, client, pool, state, s_http_map, buffer, out, parser, work, handled>>

-----------------------------------------------------------------------------
(* The I/O loop: functors *)
HeadersSuffice(n) == IF n = env.segs THEN [read_all |-> TRUE, body |-> "whole"]
                     ELSE [read_all |-> TRUE, body |-> "part"]
Parsed(n) == IF n = env.segs THEN [read_all |-> TRUE, body |-> "whole"]
             ELSE [read_all |-> FALSE, body |-> "part"]

(* sendInLoop writes what the socket takes and leaves the rest to handleWrite; on
   a connection that was destroyed it finds whatever the memory holds. *)
RestDropped(c) ==
    \/ UNCHANGED <<client, out>>
    \/ state[c] # "disconnected" /\ out[c] = 0 /\ Receives(c, 1) /\ UNCHANGED out
sendInLoop(c) ==
    \/ state[c] = "disconnected" /\ UNCHANGED <<client, out>>
    \/ state[c] # "disconnected" /\ out[c] = 0 /\ Receives(c, 1) /\ UNCHANGED out
    \/ /\ state[c] # "disconnected" /\ UNCHANGED client
       /\ out' = [out EXCEPT ![c] = @ + 1]

Pop(do) == io # <<>> /\ Head(io).do = do /\ io' = Tail(io)
connectEstablished ==
    /\ Pop("established")
    /\ state' = [state EXCEPT ![Head(io).conn] = "connected"]
    /\ s_http_map' = s_http_map \cup {Head(io).conn}
    /\ UNCHANGED <<env, client, pool, connections, base, buffer, out, parser, work, handled>>
SendFunctor ==
    /\ Pop("send") /\ sendInLoop(Head(io).conn)
    /\ UNCHANGED <<env, pool, state, connections, s_http_map, base, buffer, parser, work, handled>>
connectDestroyed ==
    /\ Pop("destroyed")
    /\ UNCHANGED <<env, client, pool, state, connections, s_http_map, base, buffer, out,
                   parser, work, handled>>
doPendingFunctors == connectEstablished \/ SendFunctor \/ connectDestroyed

(* The I/O loop: events.  onMessage hands OnRead to the pool, or calls it. *)
OnReadInLoop(c, n) ==
    /\ parser' = [parser EXCEPT ![c] = Parsed(n)]
    /\ IF Parsed(n).read_all
       THEN handled' = [handled EXCEPT ![c] = Append(@, Parsed(n).body)] /\ sendInLoop(c)
       ELSE UNCHANGED <<handled, client, out>>
    /\ UNCHANGED pool
onMessage(c, n) ==
    IF env.threads = {} THEN OnReadInLoop(c, n)
    ELSE run(c) /\ UNCHANGED <<client, out, parser, handled>>
handleRead(c) ==
    /\ state[c] = "connected"
    /\ \E n \in buffer[c] + 1 .. client[c].sent :
          buffer' = [buffer EXCEPT ![c] = n] /\ onMessage(c, n)
    /\ UNCHANGED <<env, loops, work>>

handleWrite(c) ==
    /\ state[c] = "connected" /\ out[c] > 0
    /\ out' = [out EXCEPT ![c] = 0] /\ Receives(c, out[c])
    /\ UNCHANGED <<env, pool, loops, buffer, parser, work, handled>>

KeepsEntry(c) ==
    /\ state[c] = "connected" /\ client[c].closed
    /\ state' = [state EXCEPT ![c] = "disconnected"]
    /\ base' = Append(base, c)
    /\ UNCHANGED <<env, client, pool, connections, s_http_map, io, buffer, out, parser, work, handled>>
handleClose(c) ==
    /\ state[c] = "connected" /\ client[c].closed
    /\ state' = [state EXCEPT ![c] = "disconnected"]
    /\ s_http_map' = s_http_map \ {c}
    /\ base' = Append(base, c)
    /\ UNCHANGED <<env, client, pool, connections, io, buffer, out, parser, work, handled>>

-----------------------------------------------------------------------------
(* A worker: take, then OnRead *)
At(w, s) == step[w] = s
Goto(w, s) == step' = [step EXCEPT ![w] = s]

Takes(w) ==
    /\ \E c \in Conns : take(w, c) /\ task' = [task EXCEPT ![w] = c]
    /\ Goto(w, "peek")
    /\ UNCHANGED <<env, client, loops, buffer, out, parser, seen, handled>>
Waits(w) ==
    /\ wait(w) \/ SpuriousWakeup(w)
    /\ UNCHANGED <<env, client, loops, buffer, out, parser, work, handled>>

Peek(w) ==
    /\ At(w, "peek") /\ Goto(w, "reset")
    /\ seen' = [seen EXCEPT ![w] = buffer[task[w]]]
    /\ UNCHANGED <<env, client, pool, loops, buffer, out, parser, task, handled>>
Reset(w) ==
    /\ At(w, "reset") /\ Goto(w, "execute")
    /\ parser' = [parser EXCEPT ![task[w]] = [read_all |-> FALSE, body |-> "none"]]
    /\ UNCHANGED <<env, client, pool, loops, buffer, out, task, seen, handled>>

(* Two workers in one parser, or a buffer that grows while it is parsed, are data
   races: the outcome can be anything. *)
Races(w) ==
    \/ buffer[task[w]] # seen[w]
    \/ \E v \in Workers \ {w} : task[v] = task[w] /\ step[v] \in {"execute", "test"}
Execute(w) ==
    /\ At(w, "execute") /\ Goto(w, "test")
    /\ \E p \in IF Races(w) THEN [read_all : BOOLEAN, body : Bodies \ {"none"}] ELSE {Parsed(seen[w])} :
          parser' = [parser EXCEPT ![task[w]] = p]
    /\ UNCHANGED <<env, client, pool, loops, buffer, out, task, seen, handled>>

(* IsReadAll, then the copies of url and body, then the handler *)
Handle(w) ==
    /\ At(w, "test")
    /\ IF parser[task[w]].read_all
       THEN /\ handled' = [handled EXCEPT ![task[w]] = Append(@, parser[task[w]].body)]
            /\ Goto(w, "send")
       ELSE Goto(w, "return") /\ UNCHANGED handled
    /\ UNCHANGED <<env, client, pool, loops, buffer, out, parser, task, seen>>

(* send: the state is tested here, and the functor is queued afterwards *)
Send(w) ==
    /\ At(w, "send") /\ Goto(w, IF state[task[w]] = "connected" THEN "queue" ELSE "return")
    /\ UNCHANGED <<env, client, pool, loops, buffer, out, parser, task, seen, handled>>
QueueInLoop(w) ==
    /\ At(w, "queue") /\ Goto(w, "return")
    /\ io' = Append(io, [do |-> "send", conn |-> task[w]])
    /\ UNCHANGED <<env, client, pool, state, connections, s_http_map, base, buffer, out,
                   parser, task, seen, handled>>
KeepsTask(w) ==
    /\ At(w, "return") /\ Goto(w, "idle") /\ finish(w)
    /\ UNCHANGED <<env, client, loops, buffer, out, parser, task, seen, handled>>
Return(w) ==
    /\ At(w, "return") /\ Goto(w, "idle") /\ finish(w)
    /\ task' = [task EXCEPT ![w] = NoConn]
    /\ UNCHANGED <<env, client, loops, buffer, out, parser, seen, handled>>

OnRead(w) == Peek(w) \/ Reset(w) \/ Execute(w) \/ Handle(w) \/ Send(w) \/ QueueInLoop(w) \/ Return(w)

-----------------------------------------------------------------------------
Next ==
    \/ \E c \in Conns : Sends(c) \/ Closes(c) \/ newConnection(c)
                        \/ handleRead(c) \/ handleWrite(c) \/ handleClose(c)
    \/ removeConnectionInLoop \/ doPendingFunctors
    \/ \E w \in Workers : Takes(w) \/ Waits(w) \/ OnRead(w)

Spec == Init /\ [][Next]_vars

(* Each round of a loop serves every ready connection and runs the functors;
   threads go on and handlers end.  Nothing is assumed of clients. *)
FairSpec ==
    /\ Spec
    /\ WF_vars(removeConnectionInLoop) /\ WF_vars(doPendingFunctors)
    /\ \A c \in Conns : WF_vars(handleRead(c)) /\ WF_vars(handleWrite(c)) /\ WF_vars(handleClose(c))
    /\ \A w \in Workers : WF_vars(Takes(w)) /\ WF_vars(wait(w) /\ Waits(w)) /\ WF_vars(OnRead(w))

-----------------------------------------------------------------------------
(* One task per connection at most, or none but the loop: then OnRead has the
   parser to itself. *)
Alone == env.threads = {} \/ env.segs = 1

(* A handler gets a request once, and all of it. *)
HandledOnce == Alone => \A c \in Conns : handled[c] \in {<<>>, <<"whole">>}

(* While a connection is established it has its entry in the map; it is destroyed
   only after it was closed (the assertion of its destructor), and nothing is sent
   on a destroyed one when clients wait for their answer. *)
AliveWhenUsed ==
    /\ \A c \in Conns : c \in s_http_map <=> state[c] = "connected"
    /\ \A c \in Conns : Destroyed(c) => state[c] = "disconnected"
    /\ Alone /\ (env.threads = {} \/ env.patient) =>
           \A i \in 1..Len(io) : io[i].do = "send" => ~Destroyed(io[i].conn)

(* A client gets no more answers than its requests were handled, counting those
   that are still to be written, also when it closes while they are on their way. *)
AnsweredOnce == Alone => \A c \in Conns : client[c].got + out[c] <= Len(handled[c])

(* Who has sent his request and stays gets an answer. *)
Answered ==
    Alone => \A c \in Conns :
        client[c].sent = env.segs /\ ~client[c].closed ~> client[c].got > 0 \/ client[c].closed

(* What that rests on: who has sent his request, stays and has no answer is waited
   for by a functor, a segment, a task, a worker or an answer half written; and who
   connects or has left, by a functor of the loop that has to act on it. *)
Pending(do, c) == \E i \in 1..Len(io) : io[i].do = do /\ io[i].conn = c
Leaving(c) == \E i \in 1..Len(base) : base[i] = c
Coming(c) ==
    \/ Queued(c) \/ \E w \in Workers : task[w] = c /\ step[w] # "return"
    \/ Pending("send", c) \/ out[c] > 0
AnswerOnItsWay ==
    Alone => \A c \in Conns :
        client[c].sent = env.segs /\ ~client[c].closed /\ client[c].got = 0 =>
            \/ Pending("established", c)
            \/ state[c] = "connected" /\ (buffer[c] < env.segs \/ Coming(c))
NobodyStranded == \A c \in Conns :
    /\ state[c] = "connecting" => Pending("established", c)
    /\ state[c] = "disconnected" /\ c \in connections => Leaving(c)

(* A connection that its client has closed is destroyed in the end, whatever the
   tasks that still hold it do. *)
ClosedAreDestroyed == \A c \in Conns : client[c].closed ~> Destroyed(c)
=============================================================================
