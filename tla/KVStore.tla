------------------------------- MODULE KVStore -------------------------------
(***************************************************************************)
(* The first-level cache: a map with expiry times under one mutex, a list  *)
(* of its keys in the order of their last use, and a queue of asynchronous *)
(* sets that one worker thread runs.  The ranking lists are its only       *)
(* content, so every key has the prefix that invalidations name.           *)
(*                                                                         *)
(* An action is one critical section of mutex_ or of task_mutex_.  The     *)
(* file of persistToFile survives a crash; a restart fills the queue       *)
(* (preheatCache), loads the file and serves.  setMaxCapacity is called    *)
(* before that, and the destructor, which stops the worker, never: main    *)
(* does not return.                                                        *)
(***************************************************************************)
EXTENDS Naturals, Sequences, FiniteSets

CONSTANTS Keys, Values,
          NoTask,       \* an empty std::function
          Capacity,     \* setMaxCapacity
          TTL,          \* 60 s for every entry
          MaxTime,      \* bound of the clock
          MaxQueue      \* bound of the task queue

ASSUME KVAssumption == /\ IsFiniteSet(Keys) /\ NoTask \notin Keys \cup (Keys \X Values)
                       /\ Capacity \in Nat \ {0} /\ TTL \in Nat
                       /\ MaxTime \in Nat /\ MaxQueue \in Nat

VARIABLES
    store,        \* store_: keys to values and expiry times
    access_order, \* access_order_: keys, the most recently used first
    used,         \* the key of the latest hit of get or of the latest set
    now,          \* system_clock
    task_queue,   \* task_queue_: pairs of a key and a value to set
    worker,       \* where the worker thread stands
    task,         \* the task it has taken from the queue
    notifying,    \* callers of asyncSet between the push and notify_one
    file,         \* what persistToFile wrote last
    phase         \* main: "starting", "serving", or "stuck" in loadFromFile

contents == <<store, access_order, used>>
queueing == <<task_queue, worker, task, notifying>>
vars == <<store, access_order, used, now, task_queue, worker, task, notifying, file, phase>>

Entries == [value : Values, expire : 0..MaxTime + TTL]
Cached == DOMAIN store
Expired(k) == now > store[k].expire
(* the keys of a list that are in K, in their order *)
Nth(P, j) == CHOOSE i \in P : Cardinality({m \in P : m <= i}) = j
Kept(s, K) ==
    LET places == {i \in 1..Len(s) : s[i] \in K}
    IN [j \in 1..Cardinality(places) |-> s[Nth(places, j)]]
Only(f, K) == [k \in K |-> f[k]]
PartsOf(f) == {Only(f, K) : K \in SUBSET DOMAIN f}

TypeOK ==
    /\ Cached \subseteq Keys /\ store \in [Cached -> Entries]
    /\ access_order \in Seq(Keys) /\ used \in Keys \cup {NoTask}
    /\ now \in 0..MaxTime
    /\ task_queue \in Seq(Keys \X Values)
    /\ worker \in {"testing", "asleep", "running"}
    /\ task \in (Keys \X Values) \cup {NoTask}
    /\ notifying \in 0..MaxQueue
    /\ DOMAIN file \subseteq Keys /\ file \in [DOMAIN file -> Entries]
    /\ phase \in {"starting", "serving", "stuck"}

Empty == [k \in {} |-> NoTask]
Init ==
    /\ store = Empty /\ access_order = <<>> /\ used = NoTask
    /\ now = 0
    /\ task_queue = <<>> /\ worker = "testing" /\ task = NoTask /\ notifying = 0
    /\ file = Empty
    /\ phase = "starting"

(* mutex_ is free for ever unless loadFromFile has locked it twice *)
MutexFree == phase # "stuck"

(* the key moves to the front of the list; the last one leaves a full store *)
Stay(k) == IF k \in Cached THEN access_order ELSE <<k>> \o access_order
Front(k) == <<k>> \o Kept(access_order, Cached \ {k})
Store(k, v) ==
    LET grown == [x \in Cached \cup {k} |->
                    IF x = k THEN [value |-> v, expire |-> now + TTL] ELSE store[x]]
        order == Front(k)
        last == order[Len(order)]
    IN /\ used' = k
       /\ IF Cardinality(DOMAIN grown) > Capacity
          THEN /\ store' = Only(grown, DOMAIN grown \ {last})
               /\ access_order' = SubSeq(order, 1, Len(order) - 1)
          ELSE store' = grown /\ access_order' = order

(* a ranking request stores what it computed *)
Set(k, v) ==
    /\ phase = "serving"
    /\ Store(k, v)
    /\ UNCHANGED <<now, queueing, file, phase>>

GetHit(k) ==
    /\ phase = "serving" /\ k \in Cached /\ ~Expired(k)
    /\ access_order' = Front(k) /\ used' = k
    /\ UNCHANGED <<store, now, queueing, file, phase>>

DiscardFromMap(K) ==
    store' = Only(store, Cached \ K) /\ UNCHANGED <<access_order, used>>
Discard(K) ==
    /\ store' = Only(store, Cached \ K)
    /\ access_order' = Kept(access_order, Cached \ K)
    /\ UNCHANGED used

GetExpired(k) ==
    /\ phase = "serving" /\ k \in Cached /\ Expired(k)
    /\ Discard({k})
    /\ UNCHANGED <<now, queueing, file, phase>>

deleteKeysWithPrefix ==
    /\ phase = "serving"
    /\ Discard(Cached)
    /\ UNCHANGED <<now, queueing, file, phase>>

cleanExpiredKeys ==
    /\ MutexFree
    /\ Discard({k \in Cached : Expired(k)})
    /\ UNCHANGED <<now, queueing, file, phase>>

(* preheatCache and the refresh thread *)
asyncSet(k, v) ==
    /\ Len(task_queue) < MaxQueue /\ notifying < MaxQueue
    /\ task_queue' = Append(task_queue, <<k, v>>)
    /\ notifying' = notifying + 1
    /\ UNCHANGED <<contents, now, worker, task, file, phase>>

ForgetNotify == notifying > 0 /\ notifying' = notifying - 1
                /\ UNCHANGED <<contents, now, task_queue, worker, task, file, phase>>
Notify ==
    /\ notifying > 0
    /\ notifying' = notifying - 1
    /\ worker' = IF worker = "asleep" THEN "testing" ELSE worker
    /\ UNCHANGED <<contents, now, task_queue, task, file, phase>>

(* the worker: test the predicate of wait and take a task, then run it *)
TakeTask ==
    /\ worker = "testing"
    /\ IF task_queue = <<>>
       THEN worker' = "asleep" /\ UNCHANGED <<task_queue, task>>
       ELSE /\ worker' = "running"
            /\ task' = Head(task_queue)
            /\ task_queue' = Tail(task_queue)
    /\ UNCHANGED <<contents, now, notifying, file, phase>>

RunTask ==
    /\ worker = "running" /\ MutexFree
    /\ Store(task[1], task[2])
    /\ worker' = "testing" /\ task' = NoTask
    /\ UNCHANGED <<now, task_queue, notifying, file, phase>>

SpuriousWakeup ==
    /\ worker = "asleep" /\ worker' = "testing"
    /\ UNCHANGED <<contents, now, task_queue, task, notifying, file, phase>>

persistToFile ==
    /\ phase = "serving"
    /\ file' = store
    /\ UNCHANGED <<contents, now, queueing, phase>>

(* The fields of the lines written for an entry.  A value is a styled JSON
   text, which spans lines and ends with a newline: key and expiry time stand on
   different lines. *)
LinesInOne(k) == {<<k, file[k].value, file[k].expire>>}
Lines(k) == {<<k, file[k].value>>, <<"", file[k].expire>>}

(* A line with key, value and a time to come would make loadFromFile call set,
   which locks the mutex that loadFromFile holds. *)
Loadable == {l \in UNION {Lines(k) : k \in DOMAIN file} : Len(l) = 3}
loadFromFile ==
    /\ phase = "starting"
    /\ phase' = IF \E l \in Loadable : now < l[3] THEN "stuck" ELSE "serving"
    /\ UNCHANGED <<contents, now, queueing, file>>

Tick == /\ now < MaxTime /\ now' = now + 1
        /\ UNCHANGED <<contents, queueing, file, phase>>

(* The process dies, possibly while it writes the file. *)
Crash ==
    /\ store' = Empty /\ access_order' = <<>> /\ used' = NoTask
    /\ task_queue' = <<>> /\ worker' = "testing" /\ task' = NoTask /\ notifying' = 0
    /\ file' \in {file} \cup (IF phase = "serving" THEN PartsOf(store) ELSE {})
    /\ phase' = "starting"
    /\ UNCHANGED now

Next ==
    \/ \E k \in Keys : GetHit(k) \/ GetExpired(k)
    \/ \E k \in Keys, v \in Values : Set(k, v) \/ asyncSet(k, v)
    \/ deleteKeysWithPrefix \/ cleanExpiredKeys
    \/ Notify \/ TakeTask \/ RunTask \/ SpuriousWakeup
    \/ persistToFile \/ loadFromFile
    \/ Tick \/ Crash

Spec == Init /\ [][Next]_vars

(* The worker and the callers of asyncSet go on, main ends its loading. *)
FairSpec == /\ Spec
            /\ WF_vars(TakeTask) /\ WF_vars(RunTask) /\ WF_vars(Notify)
            /\ WF_vars(loadFromFile)

-----------------------------------------------------------------------------
(* The list and the map hold the same keys, each once: the iterators that the
   entries keep into the list, and that set, get and the cleaner erase by, are
   valid ones.  Types included. *)
OrderMatchesStore ==
    /\ TypeOK
    /\ {access_order[i] : i \in 1..Len(access_order)} = Cached
    /\ Len(access_order) = Cardinality(Cached)

(* loadFromFile never calls set while it holds the mutex: that would stop main
   and then every request that touches the cache. *)
StartsUp == phase # "stuck"

(* An asynchronous set is carried out (or lost with the process). *)
TasksRun == task_queue # <<>> ~> task_queue = <<>> \/ worker = "running"

(* The worker never sleeps on queued sets, unless a notify_one is on its way: the
   push under the queue's mutex and the test of wait's predicate under the same
   mutex leave no gap in which asyncSet's notification is lost. *)
NoTaskLost == worker = "asleep" /\ task_queue # <<>> => notifying > 0

(* The store is a least-recently-used cache of Capacity keys: hits and sets move
   a key to the front, and only the last key makes room for a new one. *)
Before(s, a, b) == \E i, j \in 1..Len(s) : i < j /\ s[i] = a /\ s[j] = b
LRU == INSTANCE LRUCache WITH
    NoKey <- NoTask,
    cached <- Cached,
    since <- {p \in Cached \X Cached : Before(access_order, p[1], p[2])}
ImplementsLRUCache == LRU!Spec
=============================================================================
