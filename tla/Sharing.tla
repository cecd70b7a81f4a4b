------------------------------- MODULE Sharing -------------------------------
(***************************************************************************)
(* Shared files and their ranking list: the MySQL tables user_file_list    *)
(* (shared_status) and share_file_list, the redis sorted set and hash that *)
(* mirror the second one, and the answer to the ranking request that the   *)
(* first-level cache (module KVStore) keeps.  Handlers share, cancel,      *)
(* delete, count downloads and list; one thread refreshes the cached       *)
(* answer.  A step is one statement, one redis command or one access to    *)
(* the cache: nothing joins them, no lock and no transaction.              *)
(*                                                                         *)
(* One page of the list stands for all: every file is on it.  The names    *)
(* and scores of its members are read in one step.  The part of a delete   *)
(* that concerns file_info is in FileStore.                                *)
(***************************************************************************)
EXTENDS Naturals, Sequences, FiniteSets, Functions

CONSTANTS Files, Users, Workers, Refresher,
          Scenarios,        \* the scenarios to explore
          NoRow, NoAnswer, NoFile,
          MaxRows, MaxPv    \* bounds of the explored states

OpNames == {"obtain", "share", "cancel", "delete", "pv", "list", "refresh"}
FaultNames == {"update", "query", "redis", "flush", "crash"}
Scenario == [ops : SUBSET OpNames, faults : SUBSET FaultNames, serial : BOOLEAN,
             users : SUBSET Users, files : SUBSET Files, shared : SUBSET Files, limit : 1..MaxRows]
ASSUME SharingAssumption == /\ \A e \in Scenarios : e \in Scenario
                            /\ Refresher \notin Workers /\ NoFile \notin Files
                            /\ MaxRows \in Nat /\ MaxPv \in Nat /\ IsFiniteSet(Files)

VARIABLES
    env,     \* the scenario: requests that come, what goes wrong, one request at a
             \* time or not, the users and files, the files shared at the start,
             \* and the rows of one file at which nobody shares it any more
    status,  \* user_file_list: shared_status of each user's row for a file
    rows,    \* share_file_list
    zset,    \* FILE_PUBLIC_ZSET: scores of files
    hash,    \* FILE_NAME_HASH: files whose name it has
    kv,      \* the cached answer to the ranking request
    tasks,   \* answers that wait for the worker of the cache
    pc, req, \* per thread: next step, and the request
    num,     \* per thread: the pv or the number of rows it read
    todo,    \* per thread: rows or members it still has to go through
    answer   \* per thread: the answer it computed

mysql == <<status, rows>>
redis == <<zset, hash>>
cache == <<kv, tasks>>
locals == <<num, todo, answer>>
changing == <<status, rows, zset, hash, kv, tasks, pc, req, num, todo, answer>>
vars == <<env, changing>>

Threads == Workers \cup {Refresher}
Requests == [user : Users \cup {NoRow}, file : Files \cup {NoFile}]
Rows == [user : Users, file : Files, pv : Nat, n : Nat \ {0}]
Failed == [code |-> 1]
IsList(z) == DOMAIN z \subseteq Files /\ z \in [DOMAIN z -> Nat]
IsAnswer(a) == a = Failed \/ (a = [code |-> 0, list |-> a.list] /\ IsList(a.list))

RowsOf(f) == {r \in rows : r.file = f}
SharedFiles == {r.file : r \in rows}
Idle(w) == pc[w] = "idle"
U(w) == req[w].user
F(w) == req[w].file
At(w, step) == pc[w] = step
Go(w, step) == pc' = [pc EXCEPT ![w] = step]
Fails(kind) == kind \in env.faults

(* At most one answer waits for the worker of the cache. *)
TypeOK ==
    /\ env \in Scenarios
    /\ status \in [Users \X Files -> {0, 1, NoRow}]
    /\ rows \subseteq Rows /\ IsFiniteSet(rows)
    /\ IsList(zset) /\ hash \subseteq Files
    /\ kv = NoAnswer \/ IsAnswer(kv)
    /\ tasks = <<>> \/ (tasks = <<tasks[1]>> /\ IsAnswer(tasks[1]))
    /\ req \in [Threads -> Requests] /\ num \in [Threads -> Nat]
    /\ todo \in [Threads -> SUBSET (Rows \cup Files)]
    /\ answer = [t \in Threads |-> answer[t]] /\ \A t \in Threads : IsAnswer(answer[t])

Init ==
    /\ env \in Scenarios
    /\ \E owner \in env.users :
        /\ status = [x \in Users \X Files |-> IF x[1] = owner /\ x[2] \in env.shared THEN 1 ELSE 0]
        /\ rows = {[user |-> owner, file |-> f, pv |-> 0, n |-> 1] : f \in env.shared}
    /\ zset = [f \in env.shared |-> 0] /\ hash = env.shared
    /\ kv = NoAnswer /\ tasks = <<>>
    /\ pc = [w \in Threads |-> "idle"]
    /\ req = [w \in Threads |-> [user |-> NoRow, file |-> NoFile]]
    /\ num = [w \in Threads |-> 0]
    /\ todo = [w \in Threads |-> {}]
    /\ answer = [w \in Threads |-> Failed]

Quiet == \A w \in Workers : Idle(w)
FirstStep(op) ==
    CASE op = "obtain" -> "obtain"      [] op = "share" -> "share: look"
      [] op = "cancel" -> "cancel: mark" [] op = "delete" -> "delete: look"
      [] op = "pv" -> "pv: read"         [] op = "list" -> "list: get"

Begin(w, op) ==
    /\ Idle(w) /\ (env.serial => Quiet)
    /\ \E u \in env.users, f \in env.files :
        /\ op \in {"pv", "list"} => u = CHOOSE x \in env.users : TRUE
        /\ op = "list" => f = CHOOSE x \in env.files : TRUE
        /\ req' = [req EXCEPT ![w] = [user |-> u, file |-> f]]
        /\ op = "share" => Cardinality(RowsOf(f)) < env.limit
        /\ op = "pv" => /\ \A r \in RowsOf(f) : r.pv < MaxPv
                        /\ f \in DOMAIN zset => zset[f] < MaxPv
    /\ Go(w, FirstStep(op))
    /\ UNCHANGED <<mysql, redis, cache, locals>>

(* The handler returns; what it kept on its stack is gone. *)
Done(w) ==
    /\ Go(w, "idle")
    /\ req' = [req EXCEPT ![w] = [user |-> NoRow, file |-> NoFile]]
    /\ num' = [num EXCEPT ![w] = 0]
    /\ todo' = [todo EXCEPT ![w] = {}]
    /\ answer' = [answer EXCEPT ![w] = Failed]
Next_(w, step) ==
    IF step = "idle" THEN Done(w) ELSE Go(w, step) /\ UNCHANGED <<req, locals>>
Remember(w, n, step) ==
    num' = [num EXCEPT ![w] = n] /\ Go(w, step) /\ UNCHANGED <<req, todo, answer>>

(* One SQL statement that changes a table: when it fails the handler returns. *)
SetStatus(w, s) ==
    /\ status' = [status EXCEPT ![<<U(w), F(w)>>] = IF @ = NoRow THEN @ ELSE s]
    /\ UNCHANGED rows
SetRows(R) == rows' = R /\ UNCHANGED status
Statement(w, from, change, to) ==
    /\ At(w, from)
    /\ \/ change /\ Next_(w, to)
       \/ Fails("update") /\ UNCHANGED mysql /\ Done(w)
    /\ UNCHANGED <<redis, cache>>

(* One redis command: when it fails the handler goes on all the same. *)
Without(f) == Restrict(zset, DOMAIN zset \ {f})
With(f, score) == [g \in DOMAIN zset \cup {f} |-> IF g = f THEN score ELSE zset[g]]
SetRanks(z) == zset' = z /\ UNCHANGED hash
SetNames(h) == hash' = h /\ UNCHANGED zset
Command(w, from, change, to) ==
    /\ At(w, from) /\ Next_(w, to)
    /\ change \/ (Fails("redis") /\ UNCHANGED redis)
    /\ UNCHANGED <<mysql, cache>>

(* ZsetExit: ZLEXCOUNT answers as meant only when all scores are equal.  Otherwise
   redis, which looks for the first member not before f and then for the last one not
   after it, may miss f or count members between: with three or more, above 1. *)
ZsetExit(f) ==
    LET n == Cardinality(DOMAIN zset)
    IN (IF f \notin DOMAIN zset THEN {0}
        ELSE IF \A g \in DOMAIN zset : zset[g] = zset[f] THEN {1}
        ELSE IF n < 3 THEN {0, 1} ELSE 0..n)
       \cup {r \in {-1} : Fails("redis")}

(* deleteKeysWithPrefix *)
Forget(w, from, to) ==
    /\ At(w, from) /\ kv' = NoAnswer /\ Next_(w, to)
    /\ UNCHANGED <<mysql, redis, tasks>>

(* a step that reads and changes neither tables nor redis nor the cache *)
Test(w, from, moves) == At(w, from) /\ moves /\ UNCHANGED <<mysql, redis, cache>>

(* The process dies: handlers stop where they are and the cache is empty. *)
Die ==
    /\ pc' = [w \in Threads |-> "idle"]
    /\ req' = [w \in Threads |-> [user |-> NoRow, file |-> NoFile]]
    /\ num' = [w \in Threads |-> 0] /\ todo' = [w \in Threads |-> {}]
    /\ answer' = [w \in Threads |-> Failed]
    /\ kv' = NoAnswer /\ tasks' = <<>>
    /\ UNCHANGED <<mysql, redis>>
Crash == Fails("crash") /\ ~Quiet /\ Die

-----------------------------------------------------------------------------
(* An upload or a save gives a user a row for the file. *)
Obtain(w) ==
    Statement(w, "obtain",
        /\ status' = [status EXCEPT ![<<U(w), F(w)>>] = IF @ = NoRow THEN 0 ELSE @]
        /\ UNCHANGED rows, "idle")

(* handleShareFile *)
ShareLook(w) ==
    Test(w, "share: look",
         \E r \in ZsetExit(F(w)) : Next_(w, IF r = 1 THEN "idle" ELSE "share: check"))
ShareNoCheck(w) == Test(w, "share: check", Next_(w, "share: mark"))
ShareCheck(w) ==
    Test(w, "share: check",
         \/ RowsOf(F(w)) # {} /\ Next_(w, "share: rank")
         \/ (RowsOf(F(w)) = {} \/ Fails("query")) /\ Next_(w, "share: mark"))
ShareMark(w) == Statement(w, "share: mark", SetStatus(w, 1), "share: insert")
NewRow(w) ==
    [user |-> U(w), file |-> F(w), pv |-> 0,
     n |-> CHOOSE n \in 1..Cardinality(RowsOf(F(w))) + 1 : \A r \in RowsOf(F(w)) : r.n # n]
ShareInsert(w) ==
    Statement(w, "share: insert", SetRows(rows \cup {NewRow(w)}), "share: forget")
ShareForget(w) == Forget(w, "share: forget", "share: rank")
ShareRank(w) == Command(w, "share: rank", SetRanks(With(F(w), 0)), "share: name")
ShareName(w) == Command(w, "share: name", SetNames(hash \cup {F(w)}), "idle")

(* handleCancelShareFile *)
OwnRows(w) == {r \in RowsOf(F(w)) : r.user = U(w)}
CancelMark(w) == Statement(w, "cancel: mark", SetStatus(w, 0), "cancel: row")
CancelRow(w) ==
    Statement(w, "cancel: row", SetRows(rows \ OwnRows(w)), "cancel: forget")
CancelForget(w) == Forget(w, "cancel: forget", "cancel: rank")
CancelKeepRank(w) == Command(w, "cancel: rank", UNCHANGED redis, "cancel: name")
CancelRank(w) ==
    /\ At(w, "cancel: rank")
    /\ \/ SetRanks(Without(F(w))) /\ Next_(w, "cancel: name")
       \/ Fails("redis") /\ UNCHANGED redis /\ Done(w)
    /\ UNCHANGED <<mysql, cache>>
CancelName(w) == Command(w, "cancel: name", SetNames(hash \ {F(w)}), "idle")

(* handleDeleteFile, the share part; a missing row ends it, and the result of a
   failed query is used without a test *)
DeleteLook(w) ==
    \/ Test(w, "delete: look",
            Next_(w, CASE status[<<U(w), F(w)>>] = 1 -> "delete: forget"
                       [] status[<<U(w), F(w)>>] = 0 -> "delete: user row"
                       [] OTHER -> "idle"))
    \/ Fails("query") /\ At(w, "delete: look") /\ Die
DeleteForget(w) == Forget(w, "delete: forget", "delete: rank")
DeleteRank(w) == Command(w, "delete: rank", SetRanks(Without(F(w))), "delete: name")
DeleteName(w) == Command(w, "delete: name", SetNames(hash \ {F(w)}), "delete: row")
DeleteRow(w) ==
    Statement(w, "delete: row", SetRows(rows \ OwnRows(w)), "delete: user row")
DeleteUserRow(w) ==
    Statement(w, "delete: user row",
        status' = [status EXCEPT ![<<U(w), F(w)>>] = NoRow] /\ UNCHANGED rows, "idle")

(* handlePvFile: the row read first stands for all rows of the file *)
PvRead(w) ==
    Test(w, "pv: read",
         \/ \E r \in RowsOf(F(w)) : Remember(w, r.pv, "pv: write")
         \/ (RowsOf(F(w)) = {} \/ Fails("query")) /\ Done(w))
PvCountsDown(w) ==
    LET counted == {[r EXCEPT !.pv = num[w] - 1] : r \in RowsOf(F(w))}
    IN Statement(w, "pv: write", SetRows((rows \ RowsOf(F(w))) \cup counted), "pv: forget")
PvWrite(w) ==
    LET counted == {[r EXCEPT !.pv = num[w] + 1] : r \in RowsOf(F(w))}
    IN Statement(w, "pv: write", SetRows((rows \ RowsOf(F(w))) \cup counted), "pv: forget")
PvForget(w) == Forget(w, "pv: forget", "pv: look")
PvLook(w) ==
    Test(w, "pv: look",
         \E r \in ZsetExit(F(w)) :
            Next_(w, CASE r = 0 -> "pv: add" [] r = 1 -> "pv: incr" [] OTHER -> "idle"))
PvAddAndIncr(w) == Command(w, "pv: add", SetRanks(With(F(w), num[w] + 1)), "pv: incr")
PvAdd(w) == Command(w, "pv: add", SetRanks(With(F(w), num[w] + 1)), "pv: name")
PvForgetsName(w) == Command(w, "pv: name", UNCHANGED redis, "idle")
PvName(w) == Command(w, "pv: name", SetNames(hash \cup {F(w)}), "idle")
Incremented(f) == IF f \in DOMAIN zset THEN zset[f] + 1 ELSE 1
PvIncr(w) == Command(w, "pv: incr", SetRanks(With(F(w), Incremented(F(w)))), "idle")

-----------------------------------------------------------------------------
(* handleGetRankingFilelist: the cached answer, or count and compare, reload
   redis when the counts differ, read it, and cache the result of either kind *)
Answered(w, a) ==
    answer' = [answer EXCEPT ![w] = a] /\ Go(w, "list: keep") /\ UNCHANGED <<req, num, todo>>
Take(w, S, step) ==
    todo' = [todo EXCEPT ![w] = S] /\ Go(w, step) /\ UNCHANGED <<req, num, answer>>
ListGet(w) ==
    Test(w, "list: get", Next_(w, IF kv # NoAnswer THEN "idle" ELSE "list: count"))
ListCount(w) ==
    Test(w, "list: count",
         \/ Remember(w, Cardinality(rows), "list: compare")
         \/ Fails("query") /\ Answered(w, Failed))
NeverReload(w) == Test(w, "list: compare", Next_(w, "list: members"))
ListCompare(w) ==
    Test(w, "list: compare",
         \/ Next_(w, IF Cardinality(DOMAIN zset) # num[w] THEN "list: drop" ELSE "list: members")
         \/ Fails("redis") /\ Answered(w, Failed))
ListDrop(w) == Command(w, "list: drop", SetRanks(Restrict(zset, {})), "list: drop names")
ListDropNames(w) == Command(w, "list: drop names", SetNames({}), "list: select")
ListSelect(w) ==
    Test(w, "list: select",
         \/ Take(w, rows, "list: load")
         \/ Fails("query") /\ Answered(w, Failed))
(* rows come by falling pv *)
ListLoad(w) ==
    /\ At(w, "list: load")
    /\ \/ todo[w] = {} /\ Next_(w, "list: members") /\ UNCHANGED redis
       \/ \E r \in {x \in todo[w] : \A y \in todo[w] : y.pv <= x.pv} :
            /\ SetRanks(With(r.file, r.pv)) \/ (Fails("redis") /\ UNCHANGED redis)
            /\ todo' = [todo EXCEPT ![w] = @ \ {r}]
            /\ req' = [req EXCEPT ![w].file = r.file]
            /\ Go(w, "list: load name") /\ UNCHANGED <<num, answer>>
    /\ UNCHANGED <<mysql, cache>>
ListLoadName(w) == Command(w, "list: load name", SetNames(hash \cup {F(w)}), "list: load")
ReadMembers(w) ==
    Test(w, "list: members",
         \/ Take(w, DOMAIN zset, "list: details")
         \/ Fails("redis") /\ Answered(w, Failed))
ReadDetails(w) ==
    LET there == todo[w] \subseteq hash \cap DOMAIN zset
    IN Test(w, "list: details",
            \/ there /\ Answered(w, [code |-> 0, list |-> Restrict(zset, todo[w])])
            \/ (~there \/ Fails("redis")) /\ Answered(w, Failed))
ListKeep(w) ==
    /\ At(w, "list: keep") /\ w # Refresher
    /\ kv' = answer[w] /\ Done(w)
    /\ UNCHANGED <<mysql, redis, tasks>>

(* startPeriodicRankingFetch: reads redis and hands the answer to the worker of
   the cache, which has run the last one by then *)
Refresh ==
    /\ "refresh" \in env.ops /\ Idle(Refresher) /\ tasks = <<>>
    /\ Next_(Refresher, "list: members")
    /\ UNCHANGED <<mysql, redis, cache>>
RefreshKeep ==
    /\ At(Refresher, "list: keep")
    /\ tasks' = Append(tasks, answer[Refresher]) /\ Done(Refresher)
    /\ UNCHANGED <<mysql, redis, kv>>
RunTask ==
    /\ tasks # <<>>
    /\ kv' = Head(tasks) /\ tasks' = Tail(tasks)
    /\ UNCHANGED <<mysql, redis, pc, req, locals>>

(* an entry lives for 60 s *)
Expire == kv # NoAnswer /\ kv' = NoAnswer /\ UNCHANGED <<mysql, redis, tasks, pc, req, locals>>

(* redis loses its data; in a serial run no request is under way then *)
Flush ==
    /\ Fails("flush") /\ (env.serial => Quiet)
    /\ DOMAIN zset # {} \/ hash # {}
    /\ zset' = Restrict(zset, {}) /\ hash' = {}
    /\ UNCHANGED <<mysql, cache, pc, req, locals>>

Share(w) == ShareLook(w) \/ ShareCheck(w) \/ ShareMark(w) \/ ShareInsert(w)
            \/ ShareForget(w) \/ ShareRank(w) \/ ShareName(w)
Cancel(w) == CancelMark(w) \/ CancelRow(w) \/ CancelForget(w) \/ CancelRank(w) \/ CancelName(w)
Delete(w) == DeleteLook(w) \/ DeleteForget(w) \/ DeleteRank(w) \/ DeleteName(w)
             \/ DeleteRow(w) \/ DeleteUserRow(w)
Pv(w) == PvRead(w) \/ PvWrite(w) \/ PvForget(w) \/ PvLook(w) \/ PvAdd(w) \/ PvName(w) \/ PvIncr(w)
List(w) == ListGet(w) \/ ListCount(w) \/ ListCompare(w) \/ ListDrop(w) \/ ListDropNames(w)
           \/ ListSelect(w) \/ ListLoad(w) \/ ListLoadName(w) \/ ListKeep(w)
Read(t) == ReadMembers(t) \/ ReadDetails(t)
Step(w) == Obtain(w) \/ Share(w) \/ Cancel(w) \/ Delete(w) \/ Pv(w) \/ List(w) \/ Read(w)

Next ==
    \/ \E w \in Workers : Step(w) \/ \E op \in env.ops \ {"refresh"} : Begin(w, op)
    \/ Refresh \/ Read(Refresher) \/ RefreshKeep \/ RunTask
    \/ Expire \/ Flush \/ Crash
Spec == Init /\ [][Next /\ UNCHANGED env]_vars

(* Threads go on, the refresh comes every 10 s and ranking requests keep coming.
   An entry reaches its 60 s only if no refresh writes it anew. *)
FairSpec ==
    /\ Spec
    /\ \A w \in Workers : WF_changing(Step(w)) /\ WF_changing(Begin(w, "list"))
    /\ WF_changing(Refresh) /\ WF_changing(Read(Refresher)) /\ WF_changing(RefreshKeep)
    /\ WF_changing(RunTask)
    /\ "refresh" \notin env.ops => WF_changing(Expire)

-----------------------------------------------------------------------------
(* Between requests that come one after the other, while no query or redis command
   fails and the process lives (statements may fail, and redis may lose its data). *)
AtRest == env.serial /\ env.faults \subseteq {"update", "flush"} /\ Quiet

(* A file is shared at most once, by whoever came first; like the next three,
   AtRest. *)
OneSharer == AtRest => \A f \in Files : Cardinality(RowsOf(f)) <= 1

(* Between requests, only shared files are ranked. *)
NoGhost == AtRest => DOMAIN zset \subseteq SharedFiles

(* Between requests, each ranked file has its name in the hash: one without a
   name turns the whole list into an error. *)
RankedHaveNames == AtRest => DOMAIN zset \subseteq hash

(* Between requests, no ranked file has more downloads in redis than in MySQL. *)
ScoreNotAhead == AtRest => \A r \in rows : r.file \in DOMAIN zset => zset[r.file] <= r.pv

(* Without the periodic refresh, once redis loses no more data and only ranking
   requests come, they bring all shared files back into the list. *)
OthersBegin == \E w \in Workers, op \in env.ops \ {"list", "refresh"} : Begin(w, op)
RankingComesBack ==
    "refresh" \notin env.ops /\ <>[][~Flush /\ ~OthersBegin]_changing =>
        <>[](SharedFiles \subseteq DOMAIN zset \cap hash)

(* A ranking request that found no cached answer computes one with every shared
   file and no other, whatever redis had lost: it loads the list again when the
   counts differ, and equal counts leave nothing out.  As AtRest, but for Quiet. *)
AnswerIsWhole ==
    env.serial /\ env.faults \subseteq {"update", "flush"} =>
        \A w \in Workers : At(w, "list: keep") =>
            answer[w].code = 0 /\ DOMAIN answer[w].list = SharedFiles

(* What the comment of handleGetRankingFilelist says: when the counts differ, the
   list is loaded from MySQL again, with the refresh under way too. *)
CountsAreCompared ==
    <>[][~Flush /\ ~OthersBegin]_changing => <>[](SharedFiles \subseteq DOMAIN zset \cap hash)
=============================================================================
