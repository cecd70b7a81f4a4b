------------------------------ MODULE FileStore ------------------------------
(***************************************************************************)
(* The life cycle of a stored file: the reference-counted table file_info, *)
(* the ownership table user_file_list and the objects kept in FastDFS, as  *)
(* the worker threads running ApiUpload, ApiMd5, handleSaveFile and        *)
(* handleDeleteFile read and write them.  Every SQL statement and every    *)
(* FastDFS command is one step; the statements of two handlers interleave  *)
(* freely except where FileInfoLock orders them.                           *)
(*                                                                         *)
(* The steps of handleDeleteFile on share_file_list and the redis ranking  *)
(* are abstracted to the one failure they can cause here (see DeleteRows). *)
(***************************************************************************)
EXTENDS Naturals, FiniteSets

CONSTANTS
    Users, Md5s, Names,  \* account names, content hashes, file names
    Workers,             \* threads of the HTTP server's thread pool
    NoWorker, NoRow, NoReq, NoObj,   \* null values
    Scenarios,           \* the scenarios to explore
    MaxRows,             \* bound: rows of user_file_list
    MaxObjs,             \* bound: FastDFS object ids in use at one time
    MaxCount             \* bound: no request for a file counted that often

OpKinds == {"upload", "md5", "save", "delete"}

FaultKinds ==
    {"query", "insert_info", "insert_user", "update", "delete",
     "dfs_put", "dfs_url", "dfs_del", "crash"}

Objs == 1..MaxObjs

(* What clients do and what goes wrong; serial users have at most one request
   under way; threads is the size of the pool, rows bounds user_file_list
   and objs the ids FastDFS gives out. *)
Scenario == [ops : SUBSET OpKinds, faults : SUBSET FaultKinds, serial : BOOLEAN,
             threads : Nat, rows : 1..MaxRows, objs : Objs]

ASSUME ConstantsAssumption ==
    /\ \A e \in Scenarios : e \in Scenario
    /\ MaxRows \in Nat /\ MaxObjs \in Nat /\ MaxCount \in Nat
    /\ NoWorker \notin Workers
    /\ NoObj \notin 1..MaxObjs

VARIABLES
    env,             \* the scenario
    file_info,       \* md5 -> [count, file_id], or NoRow  (UNIQUE KEY md5)
    user_file_list,  \* set of rows [id, user, md5, name]
    dfs,             \* ids of the objects FastDFS holds
    holder,          \* the worker that holds FileInfoLock, or NoWorker
    pc, req,         \* per worker: next step and the request it serves
    obj, cnt, dup, ret  \* per worker: fileid, count, file_exsit, ret

changing == <<file_info, user_file_list, dfs, holder, pc, req, obj, cnt, dup, ret>>
vars == <<env, changing>>
tables == <<file_info, user_file_list, dfs>>
locals == <<obj, cnt, dup>>

Request == [op : OpKinds, user : Users, md5 : Md5s, name : Names]
InfoRow == [count : Nat, file_id : Objs]
UserRow == [id : 1..MaxRows, user : Users, md5 : Md5s, name : Names]
ASSUME TablesAssumption == NoRow \notin InfoRow /\ IsFiniteSet(Workers)

WaitSteps == {"up_lock", "md5_lock", "save_lock", "del_lock"}
LockedSteps ==
    {"up_insert", "up_bump", "up_user", "md5_bump", "save_bump",
     "del_read", "del_dec"}
Steps == WaitSteps \cup LockedSteps \cup
    {"idle", "up_put", "up_url", "up_drop", "md5_check", "save_check",
     "save_insert", "del_check", "del_rows", "del_remove"}

(* steps at which fileid is the id of an object *)
ObjSteps == {"up_url", "up_lock", "up_insert", "up_bump", "up_user", "up_drop",
             "del_dec", "del_remove"}

TypeOK ==
    /\ file_info \in [Md5s -> InfoRow \cup {NoRow}]
    /\ user_file_list \subseteq UserRow
    /\ dfs \subseteq Objs
    /\ holder \in Workers \cup {NoWorker}
    /\ pc \in [Workers -> Steps]
    /\ req \in [Workers -> Request \cup {NoReq}]
    /\ \A w \in Workers : pc[w] # "idle" => req[w] \in Request
    /\ obj \in [Workers -> Objs \cup {NoObj}]
    /\ \A w \in Workers : pc[w] \in ObjSteps => obj[w] \in Objs
    /\ cnt \in [Workers -> Nat]
    /\ dup \in [Workers -> BOOLEAN]
    /\ ret \in [Workers -> {0, 1, 5}]

-----------------------------------------------------------------------------
(* The tables as the handlers see them *)

Registered(m) == file_info[m] # NoRow
OwnRows(w) ==
    {r \in user_file_list : /\ r.user = req[w].user
                            /\ r.md5 = req[w].md5
                            /\ r.name = req[w].name}
Owners(m) == {r \in user_file_list : r.md5 = m}
Busy == {w \in Workers : pc[w] # "idle"}
CanFail(fault) == fault \in env.faults

(* insert into user_file_list: an auto-increment row id *)
FreshRowIds == {i \in 1..MaxRows : \A r \in user_file_list : r.id # i}
AddUserRow(w) ==
    \E i \in FreshRowIds :
        /\ \A j \in FreshRowIds : i <= j
        /\ user_file_list' = user_file_list \cup
               {[id |-> i, user |-> req[w].user, md5 |-> req[w].md5,
                 name |-> req[w].name]}

NotBumped(m) == file_info

(* update file_info set count = count + 1: true also when no row matches *)
Bumped(m) ==
    IF Registered(m) THEN [file_info EXCEPT ![m].count = @ + 1] ELSE file_info

(* FastDFS never reuses an id; one that nothing refers to stands for a new one *)
FreshObjs ==
    {o \in Objs : o <= env.objs} \ (dfs \cup {obj[w] : w \in Workers}
                \cup {file_info[m].file_id : m \in {k \in Md5s : Registered(k)}})

Goto(w, step) == pc' = [pc EXCEPT ![w] = step]
LockIgnoringHolder(w) == holder' = w
Lock(w) == holder = NoWorker /\ holder' = w
Unlock == holder' = NoWorker

(* the handler returns: its locals go out of scope, code is the answer *)
Reply(w, code) ==
    /\ Goto(w, "idle")
    /\ ret' = [ret EXCEPT ![w] = code]
    /\ obj' = [obj EXCEPT ![w] = NoObj]
    /\ cnt' = [cnt EXCEPT ![w] = 0]
    /\ dup' = [dup EXCEPT ![w] = FALSE]

Init ==
    /\ env \in Scenarios
    /\ file_info = [m \in Md5s |-> NoRow]
    /\ user_file_list = {}
    /\ dfs = {}
    /\ holder = NoWorker
    /\ pc = [w \in Workers |-> "idle"]
    /\ req = [w \in Workers |-> NoReq]
    /\ obj = [w \in Workers |-> NoObj]
    /\ cnt = [w \in Workers |-> 0]
    /\ dup = [w \in Workers |-> FALSE]
    /\ ret = [w \in Workers |-> 0]

(* A worker takes a request from the pool's queue.  The last four guards are
   the model's bounds, placed here so that no handler is cut short. *)
FirstStep == [upload |-> "up_put", md5 |-> "md5_check",
              save |-> "save_check", delete |-> "del_check"]
Begin(w) ==
    \E op \in OpKinds, u \in Users, m \in Md5s, n \in Names :
        /\ pc[w] = "idle" /\ op \in env.ops
        /\ env.serial => \A v \in Busy : req[v].user # u
        /\ Goto(w, FirstStep[op])
        /\ req' = [req EXCEPT ![w] = [op |-> op, user |-> u, md5 |-> m, name |-> n]]
        /\ ret' = [ret EXCEPT ![w] = 0]
        /\ UNCHANGED <<tables, holder, locals>>
        /\ Registered(m) => file_info[m].count + Cardinality(Busy) < MaxCount
        /\ Cardinality(user_file_list) + Cardinality(Busy) < env.rows
        /\ Cardinality({w} \cup {v \in Workers : req[v] # NoReq}) <= env.threads
        /\ Cardinality(FreshObjs) > Cardinality(Busy)

-----------------------------------------------------------------------------
(* FileInfoLock as its users see it: TryLockFor(1000) succeeds on a free lock
   and can only time out on a held one (module FileInfoLock refines this). *)

AfterLock == [up_lock |-> "up_insert", md5_lock |-> "md5_bump",
              save_lock |-> "save_bump", del_lock |-> "del_read"]
AcquireLock(w) ==
    /\ pc[w] \in WaitSteps
    /\ Lock(w)
    /\ Goto(w, AfterLock[pc[w]])
    /\ UNCHANGED <<tables, req, locals, ret>>

(* encodeDealsharefileJson gets 1 only for a negative ret, which handleSaveFile
   never returns; every other handler's answer is its own code *)
SaveCode(code) == 0

NoLockTimeout(w) == FALSE
LockTimeout(w) ==
    /\ holder # NoWorker
    /\ \/ /\ pc[w] = "up_lock"
          /\ Goto(w, "up_drop")
          /\ ret' = [ret EXCEPT ![w] = 1]
          /\ UNCHANGED locals
       \/ pc[w] \in {"md5_lock", "del_lock"} /\ Reply(w, 1)
       \/ pc[w] = "save_lock" /\ Reply(w, SaveCode(1))
    /\ UNCHANGED <<tables, holder, req>>

-----------------------------------------------------------------------------
(* ApiUpload and storeFileinfo *)

(* uploadFileToFastDfs; a form that does not parse, or a rename that fails,
   ends like a failed upload, with nothing stored *)
UploadPut(w) ==
    /\ pc[w] = "up_put"
    /\ \/ /\ \E o \in FreshObjs :
                /\ \A p \in FreshObjs : o <= p
                /\ dfs' = dfs \cup {o}
                /\ obj' = [obj EXCEPT ![w] = o]
          /\ Goto(w, "up_url")
          /\ UNCHANGED <<cnt, dup, ret>>
       \/ CanFail("dfs_put") /\ Reply(w, 1) /\ UNCHANGED dfs
    /\ UNCHANGED <<file_info, user_file_list, holder, req>>

(* getFullUrlByFileid; on failure the stored object is left behind *)
UploadUrl(w) ==
    /\ pc[w] = "up_url"
    /\ \/ Goto(w, "up_lock") /\ UNCHANGED <<locals, ret>>
       \/ CanFail("dfs_url") /\ Reply(w, 1)
    /\ UNCHANGED <<tables, holder, req>>

(* insert into file_info with count 1; the unique md5 makes it fail when the
   content is registered already *)
UploadInsert(w) ==
    /\ pc[w] = "up_insert"
    /\ LET m == req[w].md5 IN
       \/ /\ ~Registered(m)
          /\ file_info' = [file_info EXCEPT ![m] = [count |-> 1, file_id |-> obj[w]]]
          /\ Goto(w, "up_user")
       \/ /\ Registered(m) \/ CanFail("insert_info")
          /\ Goto(w, "up_bump")
          /\ UNCHANGED file_info
    /\ UNCHANGED <<user_file_list, dfs, holder, req, locals, ret>>

(* the failed insert is taken to mean that the file exists *)
UploadBump(w) ==
    /\ pc[w] = "up_bump"
    /\ \/ /\ file_info' = Bumped(req[w].md5)
          /\ dup' = [dup EXCEPT ![w] = TRUE]
          /\ Goto(w, "up_user")
          /\ UNCHANGED <<holder, ret>>
       \/ /\ CanFail("update")
          /\ ret' = [ret EXCEPT ![w] = 1]
          /\ Goto(w, "up_drop")
          /\ Unlock
          /\ UNCHANGED <<file_info, dup>>
    /\ UNCHANGED <<user_file_list, dfs, req, obj, cnt>>

(* ApiUpload deletes its own copy: storeFileinfo failed or found the file *)
MustDropOnFailure(failed, exists) == failed
MustDropAlways(failed, exists) == TRUE
MustDrop(failed, exists) == failed \/ exists

(* insert into user_file_list, then the return that releases the lock *)
UploadUserRow(w) ==
    /\ pc[w] = "up_user"
    /\ Unlock
    /\ \/ /\ AddUserRow(w)
          /\ IF MustDrop(FALSE, dup[w])
             THEN Goto(w, "up_drop") /\ UNCHANGED <<locals, ret>>
             ELSE Reply(w, 0)
       \/ /\ CanFail("insert_user")
          /\ UNCHANGED <<user_file_list, locals>>
          /\ ret' = [ret EXCEPT ![w] = 1]
          /\ Goto(w, "up_drop")
    /\ UNCHANGED <<file_info, dfs, req>>

UploadDrop(w) ==
    /\ pc[w] = "up_drop"
    /\ dfs' = dfs \ {obj[w]} \/ (CanFail("dfs_del") /\ UNCHANGED dfs)
    /\ Reply(w, ret[w])
    /\ UNCHANGED <<file_info, user_file_list, holder, req>>

-----------------------------------------------------------------------------
(* handleDealMd5: after the update both outcomes answer Md5Failed, so the
   insert into user_file_list that follows in the source is never reached *)

(* CheckwhetherHaveRecord: a failed query counts as "no record" *)
Md5Check(w) ==
    /\ pc[w] = "md5_check"
    /\ \/ OwnRows(w) # {} /\ Reply(w, 5)
       \/ /\ OwnRows(w) = {} \/ CanFail("query")
          /\ Goto(w, "md5_lock")
          /\ UNCHANGED <<locals, ret>>
    /\ UNCHANGED <<tables, holder, req>>

Md5Bump(w) ==
    /\ pc[w] = "md5_bump"
    /\ Unlock
    /\ file_info' = Bumped(req[w].md5) \/ (CanFail("update") /\ UNCHANGED file_info)
    /\ Reply(w, 1)
    /\ UNCHANGED <<user_file_list, dfs, req>>

-----------------------------------------------------------------------------
(* handleSaveFile *)

SaveCheck(w) ==
    /\ pc[w] = "save_check"
    /\ \/ OwnRows(w) # {} /\ Reply(w, SaveCode(5))
       \/ /\ OwnRows(w) = {} \/ CanFail("query")
          /\ Goto(w, "save_lock")
          /\ UNCHANGED <<locals, ret>>
    /\ UNCHANGED <<tables, holder, req>>

(* ExecuteUpdate minds the affected rows: an unregistered md5 is refused *)
SaveBump(w) ==
    /\ pc[w] = "save_bump"
    /\ Unlock
    /\ \/ /\ Registered(req[w].md5)
          /\ file_info' = Bumped(req[w].md5)
          /\ Goto(w, "save_insert")
          /\ UNCHANGED <<locals, ret>>
       \/ /\ ~Registered(req[w].md5) \/ CanFail("update")
          /\ UNCHANGED file_info
          /\ Reply(w, SaveCode(1))
    /\ UNCHANGED <<user_file_list, dfs, req>>

(* outside the lock; on failure the count keeps the reference *)
SaveInsert(w) ==
    /\ pc[w] = "save_insert"
    /\ \/ AddUserRow(w) /\ Reply(w, SaveCode(0))
       \/ CanFail("insert_user") /\ UNCHANGED user_file_list /\ Reply(w, SaveCode(1))
    /\ UNCHANGED <<file_info, dfs, holder, req>>

-----------------------------------------------------------------------------
(* handleDeleteFile *)

(* the server process dies and restarts: every request is lost, the tables and
   FastDFS stay as the last step left them *)
ProcessDies ==
    /\ pc' = [w \in Workers |-> "idle"]
    /\ req' = [w \in Workers |-> NoReq]
    /\ obj' = [w \in Workers |-> NoObj]
    /\ cnt' = [w \in Workers |-> 0]
    /\ dup' = [w \in Workers |-> FALSE]
    /\ ret' = [w \in Workers |-> 0]
    /\ Unlock
    /\ UNCHANGED tables

(* GetResultOneStatus: no row is an error, and a failed query dereferences the
   null result set *)
DeleteCheck(w) ==
    /\ pc[w] = "del_check"
    /\ \/ /\ OwnRows(w) # {}
          /\ Goto(w, "del_rows")
          /\ UNCHANGED <<tables, holder, req, locals, ret>>
       \/ OwnRows(w) = {} /\ Reply(w, 1) /\ UNCHANGED <<tables, holder, req>>
       \/ CanFail("query") /\ ProcessDies

(* delete from user_file_list, every matching row.  The failing alternative is
   also that of the delete from share_file_list which precedes it. *)
DeleteRows(w) ==
    /\ pc[w] = "del_rows"
    /\ \/ /\ user_file_list' = user_file_list \ OwnRows(w)
          /\ Goto(w, "del_lock")
          /\ UNCHANGED <<locals, ret>>
       \/ CanFail("delete") /\ Reply(w, 1) /\ UNCHANGED user_file_list
    /\ UNCHANGED <<file_info, dfs, holder, req>>

MustDecrement(count) == count > 1

(* select count, file_id.  With count 1 (a row never counts 0, CountPositive)
   the row stays: the branch that deletes it belongs to "no row found", where
   the variable count is still 0. *)
DeleteRead(w) ==
    /\ pc[w] = "del_read"
    /\ LET m == req[w].md5 IN
       \/ /\ Registered(m)
          /\ cnt' = [cnt EXCEPT ![w] = file_info[m].count]
          /\ obj' = [obj EXCEPT ![w] = file_info[m].file_id]
          /\ UNCHANGED <<dup, ret>>
          /\ IF MustDecrement(file_info[m].count)
             THEN Goto(w, "del_dec") /\ UNCHANGED holder
             ELSE Goto(w, "del_remove") /\ Unlock
       \/ /\ ~Registered(m) \/ CanFail("query")
          /\ Unlock
          /\ Reply(w, 0)
    /\ UNCHANGED <<tables, req>>

DeleteDecrement(w) ==
    /\ pc[w] = "del_dec"
    /\ Unlock
    /\ \/ /\ file_info' = [file_info EXCEPT ![req[w].md5].count = @ - 1]
          /\ Reply(w, 0)
       \/ CanFail("update") /\ UNCHANGED file_info /\ Reply(w, 1)
    /\ UNCHANGED <<user_file_list, dfs, req>>

(* RemoveFileFromFastDfs, after the lock is released, when count was 1 *)
DeleteRemove(w) ==
    /\ pc[w] = "del_remove"
    /\ \/ dfs' = dfs \ {obj[w]} /\ Reply(w, IF obj[w] \in dfs THEN 0 ELSE 1)
       \/ CanFail("dfs_del") /\ UNCHANGED dfs /\ Reply(w, 1)
    /\ UNCHANGED <<file_info, user_file_list, holder, req>>

-----------------------------------------------------------------------------
Crash == CanFail("crash") /\ ProcessDies

Step(w) ==
    \/ AcquireLock(w) \/ LockTimeout(w)
    \/ UploadPut(w) \/ UploadUrl(w) \/ UploadInsert(w) \/ UploadBump(w)
    \/ UploadUserRow(w) \/ UploadDrop(w)
    \/ Md5Check(w) \/ Md5Bump(w)
    \/ SaveCheck(w) \/ SaveBump(w) \/ SaveInsert(w)
    \/ DeleteCheck(w) \/ DeleteRows(w) \/ DeleteRead(w)
    \/ DeleteDecrement(w) \/ DeleteRemove(w)

Next == (\E w \in Workers : Begin(w) \/ Step(w)) \/ Crash

Spec == Init /\ [][Next /\ UNCHANGED env]_vars

(* the OS schedules every thread; SQL statements, FastDFS commands and the
   timed wait return *)
FairSpec == Spec /\ \A w \in Workers : WF_changing(Step(w))

-----------------------------------------------------------------------------
(* Properties of the handlers as written *)

(* Whatever fails and however handlers interleave, a file_info row counts at
   least one reference: handleDeleteFile decides to decrement on a count it read
   earlier, and FileInfoLock keeps that count valid until the update. *)
CountPositive == \A m \in Md5s : Registered(m) => file_info[m].count >= 1

(* What CountPositive rests on: exactly the holder of FileInfoLock is between
   taking and releasing it, and a count above 1 read under the lock is still the
   count when it is decremented. *)
LockOwner == \A w \in Workers : pc[w] \in LockedSteps <=> holder = w
CountStillRead ==
    \A w \in Workers : pc[w] = "del_dec" =>
        /\ Registered(req[w].md5)
        /\ file_info[req[w].md5].count = cnt[w]
        /\ cnt[w] > 1
CountInv == TypeOK /\ LockOwner /\ CountStillRead /\ CountPositive

(* Requests that hold a reference no user_file_list row shows: counted but the
   row not yet inserted, or the row deleted but the count not yet lowered. *)
Claims(m) ==
    {w \in Busy : /\ pc[w] \in {"up_user", "save_insert",
                                 "del_lock", "del_read", "del_dec"}
                 /\ req[w].md5 = m}

(* The count of a file is never below the rows and claims it stands for, so no
   deletion takes a file others still own for the last one.  It needs users with
   one request at a time (two overlapping deletes of one row lower the count
   twice) and an insert into file_info that fails only on a duplicate md5 (any
   failure is taken for one). *)
CountCoversOwners ==
    env.serial /\ "insert_info" \notin env.faults => \A m \in Md5s :
        Cardinality(Owners(m)) + Cardinality(Claims(m)) <=
            IF Registered(m) THEN file_info[m].count ELSE 0

(* Concurrent uploads and saves of the same content (no deletion) never lose it:
   an upload that finds the md5 registered deletes its own copy, never the one
   file_info points to.  It needs inserts into the tables that do not fail: after
   a failed one the upload deletes an object that file_info may point to. *)
OwnedFilesStored ==
    env.ops \cap {"delete"} = {} /\ env.faults \cap {"insert_info", "insert_user"} = {} =>
    \A r \in user_file_list :
        Registered(r.md5) /\ file_info[r.md5].file_id \in dfs

(* Every object in FastDFS is registered, or in the hands of a request that will
   register or delete it: failed statements leave no storage nobody can free.  An
   object is lost when its URL cannot be read, when its removal fails and when the
   process dies. *)
NoOrphanObject ==
    env.faults \cap {"query", "crash", "dfs_url", "dfs_del"} = {} =>
    \A o \in dfs :
        \/ \E m \in Md5s : Registered(m) /\ file_info[m].file_id = o
        \/ \E w \in Busy : obj[w] = o

(* The handlers rely on exactly the lock that FileInfoLock is shown to be: at
   most one of them is between taking and releasing it, none releases it twice or
   without having it, and one is turned away only while another has it.  (Not where
   the process may die, which empties the lock at once.) *)
LockUser(step) == CASE step \in LockedSteps -> "holding"
                    [] step \in WaitSteps -> "asking"
                    [] OTHER -> "outside"
TheLock == INSTANCE TimedLock WITH
    Threads <- Workers,
    client <- [w \in Workers |-> LockUser(pc[w])], closed <- FALSE
Calm == env.faults \cap {"query", "crash"} = {}
UsesTimedLock == TheLock!Init /\ [][Calm => TheLock!Next]_(TheLock!vars)

(* Every request is answered, also when others always hold FileInfoLock. *)
EveryRequestAnswered ==
    \A w \in Workers : pc[w] # "idle" ~> pc[w] = "idle"

-----------------------------------------------------------------------------
(* Statements of the comments that the code does not keep *)

(* "if count == 1, delete the record and delete the file from FastDFS"
   (handleDeleteFile): the row does not outlive its object. *)
LastDeleteDropsRow ==
    [][\A w \in Workers :
         pc[w] = "del_remove" /\ dfs' # dfs => ~Registered(req[w].md5)']_changing

(* "this needs no lock" (handleDeleteFile, before RemoveFileFromFastDfs): the
   object that is removed belongs to nobody. *)
RemovedObjectUnowned ==
    [][\A w \in Workers :
         pc[w] = "del_remove" /\ dfs' # dfs => Owners(req[w].md5) = {}]_changing

=============================================================================
