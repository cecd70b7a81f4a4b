---------------------------- MODULE HandlerPools ----------------------------
(***************************************************************************)
(* Who holds which connection while waiting for which.  Handlers take      *)
(* connections of several pools one after the other, each call waits       *)
(* without a deadline, and destructors give them back in reverse order.    *)
(* Sharing a picture also waits for the short-URL server of the same       *)
(* process, one thread that serves one client after the other and takes    *)
(* connections for it: to the waiting handler it is a resource with one    *)
(* unit, held until the answer is there.                                   *)
(*                                                                         *)
(* The pools are those of BoundedPool, with calls that never give up and   *)
(* servers that accept connections.  Names differ from those of ConnPool,  *)
(* so that a module can extend both.                                       *)
(***************************************************************************)
EXTENDS Naturals, Sequences, FiniteSets

CONSTANTS Workers,    \* threads of the handler pool
          Background, \* the thread that refreshes the ranking lists
          Web,        \* the thread of the short-URL web service
          SlaveMax, MasterMax, TokenMax, RankingMax  \* maxconncnt of the pools

HandlerThreads == Workers \cup {Background, Web}

Pools == {"master", "slave", "token", "ranking", "rpc"}
Cap == [p \in Pools |-> CASE p = "master" -> MasterMax
                          [] p = "slave" -> SlaveMax
                          [] p = "token" -> TokenMax
                          [] p = "ranking" -> RankingMax
                          [] p = "rpc" -> 1]

(* What keeps the nesting below from locking up: workers hold one connection
   of "slave" while they ask for a second one, so there must be more of them
   than workers. *)
ASSUME SizesAssumption ==
    /\ IsFiniteSet(Workers)
    /\ SlaveMax \in Nat /\ SlaveMax > Cardinality(Workers)
    /\ MasterMax \in Nat \ {0} /\ TokenMax \in Nat \ {0} /\ RankingMax \in Nat \ {0}
    /\ Background # Web /\ Background \notin Workers /\ Web \notin Workers

(* Resources in the order in which a handler takes them.  Error returns give
   back what was taken so far: the beginnings of a chain are chains. *)
ShareOrDelete == <<"master", "ranking">>
CancelOrPv    == <<"master", "ranking">>
InstantUploadSwapped == <<"token", "master">>
InstantUpload == <<"master", "token">>
ListShared    == <<"slave", "slave">>
RankingList   == <<"slave", "ranking", "slave">>
Single        == {<<"master">>, <<"slave">>, <<"token">>}
SharePicture  == <<"slave", "rpc", "master", "token">>
RefreshSwapped == <<"ranking", "master">>
Refresh       == <<"ranking", "slave">>
Resolve       == <<"slave", "token">>

Beginnings(c) == {SubSeq(c, 1, n) : n \in 1..Len(c)}
ChainsOf(t) ==
    IF t = Background THEN Beginnings(Refresh)
    ELSE IF t = Web THEN Beginnings(Resolve)
    ELSE Single \cup Beginnings(ShareOrDelete) \cup Beginnings(CancelOrPv)
         \cup Beginnings(InstantUpload) \cup Beginnings(ListShared)
         \cup Beginnings(RankingList) \cup Beginnings(SharePicture)

VARIABLES chain,   \* per thread: the chain of its current handler, or <<>>
          held,    \* per thread: how many resources of the chain it has
          leaving  \* per thread: destructors are running

handlerVars == <<chain, held, leaving>>

HandlersTypeOK ==
    /\ \A t \in HandlerThreads : chain[t] \in ChainsOf(t) \cup {<<>>}
    /\ chain = [t \in HandlerThreads |-> chain[t]]
    /\ held \in [HandlerThreads -> Nat]
    /\ \A t \in HandlerThreads : held[t] <= Len(chain[t])
    /\ leaving \in [HandlerThreads -> BOOLEAN]

HandlersInit ==
    /\ chain = [t \in HandlerThreads |-> <<>>]
    /\ held = [t \in HandlerThreads |-> 0]
    /\ leaving = [t \in HandlerThreads |-> FALSE]

(* units of p in use, as pairs of a thread and a position in its chain *)
Taken(p) == {x \in HandlerThreads \X (1..4) : x[2] <= held[x[1]] /\ chain[x[1]][x[2]] = p}
Exhausted(p) == Cardinality(Taken(p)) >= Cap[p]

Busy(t) == chain[t] # <<>>
Wanted(t) == chain[t][held[t] + 1]
Asking(t) == Busy(t) /\ ~leaving[t] /\ held[t] < Len(chain[t])
Blocked(t) == Asking(t) /\ Exhausted(Wanted(t))

Start(t) ==
    /\ ~Busy(t)
    /\ \E c \in ChainsOf(t) : chain' = [chain EXCEPT ![t] = c]
    /\ UNCHANGED <<held, leaving>>

Get(t) ==
    /\ Asking(t)
    /\ ~Exhausted(Wanted(t))
    /\ held' = [held EXCEPT ![t] = @ + 1]
    /\ UNCHANGED <<chain, leaving>>

(* the handler has done its work *)
Return(t) ==
    /\ Busy(t) /\ ~leaving[t] /\ held[t] = Len(chain[t])
    /\ leaving' = [leaving EXCEPT ![t] = TRUE]
    /\ UNCHANGED <<chain, held>>

PutBack(t) ==
    /\ leaving[t] /\ held[t] > 0
    /\ held' = [held EXCEPT ![t] = @ - 1]
    /\ UNCHANGED <<chain, leaving>>

Finish(t) ==
    /\ leaving[t] /\ held[t] = 0
    /\ chain' = [chain EXCEPT ![t] = <<>>]
    /\ leaving' = [leaving EXCEPT ![t] = FALSE]
    /\ UNCHANGED held

Progress(t) == Get(t) \/ Return(t) \/ PutBack(t) \/ Finish(t)
HandlersNext == \E t \in HandlerThreads : Start(t) \/ Progress(t)
HandlersSpec == HandlersInit /\ [][HandlersNext]_handlerVars

(* Handlers run on, their statements return, and a thread that a pool can serve
   and that no other one overtakes is served (QueueDrains of ConnPool). *)
FairHandlersSpec == HandlersSpec /\ \A t \in HandlerThreads : WF_handlerVars(Progress(t))

-----------------------------------------------------------------------------
(* No set of handlers waits for connections that only its members hold: one of
   the busy threads can go on, whatever the others have taken.  Threads outside
   the set may be idle, so this covers a part of the server locking up as well. *)
NotStuck == (\E t \in HandlerThreads : Busy(t)) => \E t \in HandlerThreads : Busy(t) /\ ~Blocked(t)

(* When no request comes any more, each one under way ends. *)
AllFinish ==
    <>[][\A t \in HandlerThreads : ~Start(t)]_handlerVars => <>[](\A t \in HandlerThreads : ~Busy(t))
=============================================================================
