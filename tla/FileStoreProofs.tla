--------------------------- MODULE FileStoreProofs ---------------------------
(***************************************************************************)
(* About FileStore, for any number of users, contents and workers, any     *)
(* selection of operations and any selection of faults: types and positive *)
(* counts; the handlers use FileInfoLock as a TimedLock, uploads and saves *)
(* never lose what somebody owns, no object is left that nobody can free,  *)
(* and the count of a file covers the rows and requests it stands for.     *)
(***************************************************************************)
EXTENDS FileStore, FiniteSetTheorems, TLAPS

LEMMA InitType == Init => TypeOK
  BY DEF Init, TypeOK, Steps, ObjSteps

(* Reply leaves the per-worker variables well typed *)
LEMMA ReplyType ==
  ASSUME TypeOK, NEW w \in Workers, NEW code \in {0, 1, 5}, Reply(w, code)
  PROVE  /\ pc' \in [Workers -> Steps]
         /\ obj' \in [Workers -> Objs \cup {NoObj}]
         /\ cnt' \in [Workers -> Nat]
         /\ dup' \in [Workers -> BOOLEAN]
         /\ ret' \in [Workers -> {0, 1, 5}]
         /\ \A v \in Workers : pc'[v] # "idle" => pc'[v] = pc[v] /\ obj'[v] = obj[v]
         /\ "idle" \notin ObjSteps
  BY DEF ObjSteps, TypeOK, Reply, Goto, Steps, ObjSteps, WaitSteps, LockedSteps

LEMMA BumpedType ==
  ASSUME TypeOK, NEW m \in Md5s
  PROVE  Bumped(m) \in [Md5s -> InfoRow \cup {NoRow}]
  BY DEF TypeOK, Bumped, Registered, InfoRow

LEMMA AddUserRowType ==
  ASSUME TypeOK, NEW w \in Workers, pc[w] # "idle", AddUserRow(w)
  PROVE  user_file_list' \subseteq UserRow
  BY DEF TypeOK, AddUserRow, FreshRowIds, UserRow, Request

LEMMA BeginType ==
  ASSUME TypeOK, NEW w \in Workers, Begin(w)
  PROVE  TypeOK'
<1>1. PICK op \in OpKinds, u \in Users, m \in Md5s, n \in Names :
        /\ Goto(w, FirstStep[op])
        /\ req' = [req EXCEPT ![w] = [op |-> op, user |-> u, md5 |-> m, name |-> n]]
        /\ ret' = [ret EXCEPT ![w] = 0]
        /\ UNCHANGED <<tables, holder, locals>>
  BY DEF Begin
<1>3. FirstStep[op] \in Steps
  BY DEF OpKinds, FirstStep, Steps
<1>4. FirstStep[op] \notin ObjSteps
  BY DEF OpKinds, FirstStep, ObjSteps
<1>5. QED
  BY <1>1, <1>3, <1>4 DEF TypeOK, Goto, tables, locals, Request

LEMMA LockStepsType ==
  ASSUME TypeOK, NEW w \in Workers, AcquireLock(w) \/ LockTimeout(w)
  PROVE  TypeOK'
<1>1. CASE AcquireLock(w)
  <2>1. /\ AfterLock[pc[w]] \in LockedSteps
        /\ AfterLock[pc[w]] \in ObjSteps => pc[w] \in ObjSteps
    BY <1>1 DEF AcquireLock, AfterLock, WaitSteps, LockedSteps, ObjSteps
  <2>2. QED
    BY <1>1, <2>1 DEF AcquireLock, TypeOK, Lock, Goto, tables, locals, WaitSteps, LockedSteps, ObjSteps, Steps
<1>2. CASE LockTimeout(w)
  <2>1. CASE pc[w] = "up_lock" /\ Goto(w, "up_drop")
             /\ ret' = [ret EXCEPT ![w] = 1] /\ UNCHANGED locals
    BY <1>2, <2>1 DEF LockTimeout, TypeOK, Goto, tables, locals, Steps, ObjSteps
  <2>2. CASE Reply(w, 0) \/ Reply(w, 1)
    BY <1>2, <2>2, ReplyType DEF LockTimeout, TypeOK, tables
  <2>3. QED
    BY <1>2, <2>1, <2>2 DEF LockTimeout, SaveCode
<1>3. QED
  BY <1>1, <1>2

LEMMA UploadType ==
  ASSUME TypeOK, NEW w \in Workers,
         \/ UploadPut(w) \/ UploadUrl(w) \/ UploadInsert(w) \/ UploadBump(w)
         \/ UploadUserRow(w) \/ UploadDrop(w)
  PROVE  TypeOK'
<1> USE DEF tables, locals
<1>1. CASE UploadPut(w)
  <2>1. CASE Reply(w, 1) /\ UNCHANGED dfs
    BY <1>1, <2>1, ReplyType DEF UploadPut, TypeOK
  <2>2. CASE Goto(w, "up_url") /\ \E o \in FreshObjs :
               dfs' = dfs \cup {o} /\ obj' = [obj EXCEPT ![w] = o]
    BY <1>1, <2>2 DEF UploadPut, TypeOK, Goto, Steps, ObjSteps, FreshObjs
  <2>3. QED
    BY <1>1, <2>1, <2>2 DEF UploadPut
<1>2. CASE UploadUrl(w)
  <2>1. CASE Reply(w, 1)
    BY <1>2, <2>1, ReplyType DEF UploadUrl, TypeOK
  <2>2. CASE Goto(w, "up_lock") /\ UNCHANGED <<locals, ret>>
    BY <1>2, <2>2 DEF UploadUrl, TypeOK, Goto, Steps, ObjSteps, WaitSteps
  <2>3. QED
    BY <1>2, <2>1, <2>2 DEF UploadUrl
<1>3. CASE UploadInsert(w)
  BY <1>3 DEF UploadInsert, TypeOK, Goto, Steps, ObjSteps, LockedSteps, InfoRow, Request
<1>4. CASE UploadBump(w)
  <2>1. req[w].md5 \in Md5s
    BY <1>4 DEF UploadBump, TypeOK, Request
  <2>2. file_info' \in [Md5s -> InfoRow \cup {NoRow}]
    BY <1>4, <2>1, BumpedType DEF UploadBump, TypeOK
  <2>3. QED
    BY <1>4, <2>2 DEF UploadBump, TypeOK, Goto, Unlock, Steps, ObjSteps, LockedSteps
<1>5. CASE UploadUserRow(w)
  <2>1. user_file_list' \subseteq UserRow
    BY <1>5, AddUserRowType DEF UploadUserRow, TypeOK
  <2>2. CASE Reply(w, 0)
    BY <1>5, <2>1, <2>2, ReplyType DEF UploadUserRow, TypeOK, Unlock
  <2>3. CASE /\ Goto(w, "up_drop") /\ UNCHANGED locals
             /\ ret' = ret \/ ret' = [ret EXCEPT ![w] = 1]
    BY <1>5, <2>1, <2>3 DEF UploadUserRow, TypeOK, Goto, Unlock, Steps, ObjSteps
  <2>4. QED
    BY <1>5, <2>2, <2>3 DEF UploadUserRow
<1>6. CASE UploadDrop(w)
  <2>1. ret[w] \in {0, 1, 5}
    BY DEF TypeOK
  <2>2. QED
    BY <1>6, <2>1, ReplyType DEF UploadDrop, TypeOK
<1>7. QED
  BY <1>1, <1>2, <1>3, <1>4, <1>5, <1>6

LEMMA Md5SaveType ==
  ASSUME TypeOK, NEW w \in Workers,
         \/ Md5Check(w) \/ Md5Bump(w)
         \/ SaveCheck(w) \/ SaveBump(w) \/ SaveInsert(w)
  PROVE  TypeOK'
<1> USE DEF tables, locals
<1>1. ASSUME NEW code \in {0, 1, 5}, Reply(w, code),
             user_file_list' \subseteq UserRow,
             file_info' \in [Md5s -> InfoRow \cup {NoRow}],
             holder' \in {holder, NoWorker},
             UNCHANGED <<dfs, req>>
      PROVE  TypeOK'
  BY <1>1, ReplyType DEF TypeOK
<1>2. ASSUME NEW m \in Md5s
      PROVE  Bumped(m) \in [Md5s -> InfoRow \cup {NoRow}]
  BY BumpedType
<1>3. CASE Md5Check(w)
  <2>1. CASE Goto(w, "md5_lock") /\ UNCHANGED <<locals, ret>>
    BY <1>3, <2>1 DEF Md5Check, TypeOK, Goto, Steps, ObjSteps, WaitSteps
  <2>2. CASE Reply(w, 5)
    BY <1>1, <1>3, <2>2 DEF Md5Check, TypeOK
  <2>3. QED
    BY <1>3, <2>1, <2>2 DEF Md5Check
<1>4. CASE Md5Bump(w)
  <2>1. req[w].md5 \in Md5s
    BY <1>4 DEF Md5Bump, TypeOK, Request
  <2>2. QED
    BY <1>1, <1>2, <1>4, <2>1 DEF Md5Bump, TypeOK, Unlock
<1>5. CASE SaveCheck(w)
  <2>1. CASE Goto(w, "save_lock") /\ UNCHANGED <<locals, ret>>
    BY <1>5, <2>1 DEF SaveCheck, TypeOK, Goto, Steps, ObjSteps, WaitSteps
  <2>2. CASE Reply(w, 0)
    BY <1>1, <1>5, <2>2 DEF SaveCheck, TypeOK
  <2>3. QED
    BY <1>5, <2>1, <2>2 DEF SaveCheck, SaveCode
<1>6. CASE SaveBump(w)
  <2>1. req[w].md5 \in Md5s
    BY <1>6 DEF SaveBump, TypeOK, Request
  <2>2. CASE Goto(w, "save_insert") /\ UNCHANGED <<locals, ret>>
             /\ file_info' = Bumped(req[w].md5)
    BY <1>2, <1>6, <2>1, <2>2 DEF SaveBump, TypeOK, Goto, Unlock, Steps, ObjSteps
  <2>3. CASE Reply(w, 0) /\ UNCHANGED file_info
    BY <1>1, <1>6, <2>3 DEF SaveBump, TypeOK, Unlock
  <2>4. QED
    BY <1>6, <2>2, <2>3 DEF SaveBump, SaveCode
<1>7. CASE SaveInsert(w)
  <2>1. user_file_list' \subseteq UserRow
    BY <1>7, AddUserRowType DEF SaveInsert, TypeOK
  <2>2. Reply(w, 0)
    BY <1>7 DEF SaveInsert, SaveCode
  <2>3. QED
    BY <1>1, <1>7, <2>1, <2>2 DEF SaveInsert, TypeOK
<1>8. QED
  BY <1>3, <1>4, <1>5, <1>6, <1>7

LEMMA ProcessDiesType ==
  ASSUME TypeOK, ProcessDies
  PROVE  TypeOK'
  BY DEF TypeOK, ProcessDies, Unlock, tables, Steps, ObjSteps

LEMMA DeleteType ==
  ASSUME TypeOK, CountStillRead, NEW w \in Workers,
         \/ DeleteCheck(w) \/ DeleteRows(w) \/ DeleteRead(w)
         \/ DeleteDecrement(w) \/ DeleteRemove(w)
  PROVE  TypeOK'
<1> USE DEF tables, locals
<1>1. ASSUME NEW code \in {0, 1, 5}, Reply(w, code),
             user_file_list' \subseteq UserRow, dfs' \subseteq Objs,
             file_info' \in [Md5s -> InfoRow \cup {NoRow}],
             holder' \in {holder, NoWorker},
             UNCHANGED req
      PROVE  TypeOK'
  BY <1>1, ReplyType DEF TypeOK
<1>2. CASE DeleteCheck(w)
  <2>1. CASE Goto(w, "del_rows") /\ UNCHANGED <<tables, holder, req, locals, ret>>
    BY <1>2, <2>1 DEF DeleteCheck, TypeOK, Goto, Steps, ObjSteps
  <2>2. CASE Reply(w, 1) /\ UNCHANGED <<tables, holder, req>>
    BY <1>1, <1>2, <2>2 DEF TypeOK
  <2>3. QED
    BY <1>2, <2>1, <2>2, ProcessDiesType DEF DeleteCheck
<1>3. CASE DeleteRows(w)
  <2>1. CASE Goto(w, "del_lock") /\ UNCHANGED <<locals, ret>>
    BY <1>3, <2>1 DEF DeleteRows, TypeOK, Goto, Steps, ObjSteps, WaitSteps
  <2>2. CASE Reply(w, 1) /\ UNCHANGED user_file_list
    BY <1>1, <1>3, <2>2 DEF DeleteRows, TypeOK
  <2>3. QED
    BY <1>3, <2>1, <2>2 DEF DeleteRows
<1>4. CASE DeleteRead(w)
  <2>1. CASE Reply(w, 0) /\ Unlock
    BY <1>1, <1>4, <2>1 DEF DeleteRead, TypeOK, Unlock
  <2>2. CASE /\ Registered(req[w].md5)
             /\ cnt' = [cnt EXCEPT ![w] = file_info[req[w].md5].count]
             /\ obj' = [obj EXCEPT ![w] = file_info[req[w].md5].file_id]
             /\ UNCHANGED <<dup, ret>>
             /\ \/ Goto(w, "del_dec") /\ UNCHANGED holder
                \/ Goto(w, "del_remove") /\ Unlock
    <3>1. file_info[req[w].md5] \in InfoRow
      BY <1>4, <2>2 DEF DeleteRead, TypeOK, Registered, Request
    <3>2. QED
      BY <1>4, <2>2, <3>1
      DEF DeleteRead, TypeOK, Goto, Unlock, Steps, ObjSteps, LockedSteps, InfoRow
  <2>3. QED
    BY <1>4, <2>1, <2>2 DEF DeleteRead
<1>5. CASE DeleteRemove(w)
  <2>1. Reply(w, 0) \/ Reply(w, 1)
    BY <1>5 DEF DeleteRemove
  <2>2. QED
    BY <1>1, <1>5, <2>1 DEF DeleteRemove, TypeOK
<1>6. CASE DeleteDecrement(w)
  <2>1. CASE Reply(w, 1) /\ UNCHANGED file_info
    BY <1>1, <1>6, <2>1 DEF DeleteDecrement, TypeOK, Unlock
  <2>2. CASE Reply(w, 0) /\
             file_info' = [file_info EXCEPT ![req[w].md5].count = @ - 1]
    <3>1. /\ req[w].md5 \in Md5s
          /\ file_info[req[w].md5] \in InfoRow
          /\ file_info[req[w].md5].count > 1
      BY <1>6 DEF DeleteDecrement, TypeOK, CountStillRead, Registered, Request, InfoRow
    <3>2. file_info' \in [Md5s -> InfoRow \cup {NoRow}]
      BY <2>2, <3>1 DEF TypeOK, InfoRow
    <3>3. QED
      BY <1>1, <1>6, <2>2, <3>2 DEF DeleteDecrement, TypeOK, Unlock
  <2>3. QED
    BY <1>6, <2>1, <2>2 DEF DeleteDecrement
<1>7. QED
  BY <1>2, <1>3, <1>4, <1>5, <1>6

LEMMA NextType ==
  ASSUME TypeOK, CountStillRead, [Next]_changing
  PROVE  TypeOK'
<1>1. ASSUME NEW w \in Workers, Begin(w) \/ Step(w)
      PROVE  TypeOK'
  BY <1>1, BeginType, LockStepsType, UploadType, Md5SaveType, DeleteType DEF Step
<1>2. CASE Crash
  BY <1>2, ProcessDiesType DEF Crash
<1>3. CASE UNCHANGED changing
  BY <1>3 DEF TypeOK, changing
<1>4. QED
  BY <1>1, <1>2, <1>3 DEF Next

-----------------------------------------------------------------------------
(* The lock protocol *)

LEMMA ReplyPc ==
  ASSUME TypeOK, NEW w \in Workers, NEW code, Reply(w, code)
  PROVE  pc' = [pc EXCEPT ![w] = "idle"]
  BY DEF Reply, Goto

LEMMA NextLockOwner ==
  ASSUME TypeOK, LockOwner, [Next]_changing
  PROVE  LockOwner'
<1> USE DEF Goto, LockedSteps, WaitSteps
<1>1. ASSUME NEW w \in Workers, UNCHANGED holder, pc' = [pc EXCEPT ![w] = pc'[w]],
             pc[w] \in LockedSteps <=> pc'[w] \in LockedSteps
      PROVE  LockOwner'
  BY <1>1 DEF LockOwner, TypeOK
<1>2. ASSUME NEW w \in Workers, Unlock, pc' = [pc EXCEPT ![w] = pc'[w]],
             pc[w] \in LockedSteps, pc'[w] \notin LockedSteps
      PROVE  LockOwner'
  BY <1>2, ConstantsAssumption DEF LockOwner, TypeOK, Unlock
<1>3. ASSUME ProcessDies
      PROVE  LockOwner'
  BY <1>3, ConstantsAssumption DEF LockOwner, ProcessDies, Unlock
<1>4. ASSUME NEW w \in Workers, Begin(w)
      PROVE  LockOwner'
  <2>1. PICK op \in OpKinds : Goto(w, FirstStep[op]) /\ pc[w] = "idle" /\ UNCHANGED holder
    BY <1>4 DEF Begin
  <2>3. FirstStep[op] \notin LockedSteps
    BY DEF OpKinds, FirstStep
  <2>4. QED
    BY <1>1, <2>1, <2>3 DEF TypeOK
<1>5. ASSUME NEW w \in Workers, AcquireLock(w)
      PROVE  LockOwner'
  BY <1>5, ConstantsAssumption DEF AcquireLock, AfterLock, Lock, LockOwner, TypeOK
<1>6. ASSUME NEW w \in Workers, UNCHANGED holder, pc[w] \notin LockedSteps,
             \/ \E code : Reply(w, code)
             \/ \E l \in Steps \ LockedSteps : Goto(w, l)
      PROVE  LockOwner'
  BY <1>1, <1>6, ReplyPc DEF TypeOK
<1>7. ASSUME NEW w \in Workers, Unlock, pc[w] \in LockedSteps,
             \/ \E code : Reply(w, code)
             \/ \E l \in Steps \ LockedSteps : Goto(w, l)
      PROVE  LockOwner'
  BY <1>2, <1>7, ReplyPc DEF TypeOK
<1>8. ASSUME NEW w \in Workers, UNCHANGED holder, pc[w] \in LockedSteps,
             \E l \in LockedSteps : Goto(w, l)
      PROVE  LockOwner'
  BY <1>1, <1>8 DEF TypeOK
<1>9. ASSUME NEW w \in Workers, LockTimeout(w) \/ UploadPut(w) \/ UploadUrl(w)
                                  \/ UploadDrop(w) \/ Md5Check(w) \/ SaveCheck(w)
                                  \/ SaveInsert(w) \/ DeleteRows(w) \/ DeleteRemove(w)
      PROVE  LockOwner'
  BY <1>6, <1>9 DEF LockTimeout, UploadPut, UploadUrl, UploadDrop, Md5Check,
       SaveCheck, SaveInsert, DeleteRows, DeleteRemove, Steps
<1>10. ASSUME NEW w \in Workers, DeleteCheck(w)
       PROVE  LockOwner'
  BY <1>3, <1>6, <1>10 DEF DeleteCheck, Steps
<1>11. ASSUME NEW w \in Workers, UploadInsert(w) \/ UploadBump(w)
       PROVE  LockOwner'
  BY <1>7, <1>8, <1>11 DEF UploadInsert, UploadBump, Steps
<1>12. ASSUME NEW w \in Workers, UploadUserRow(w) \/ Md5Bump(w) \/ SaveBump(w)
                                   \/ DeleteDecrement(w)
       PROVE  LockOwner'
  BY <1>7, <1>12 DEF UploadUserRow, Md5Bump, SaveBump, DeleteDecrement, Steps
<1>13. ASSUME NEW w \in Workers, DeleteRead(w)
       PROVE  LockOwner'
  BY <1>7, <1>8, <1>13 DEF DeleteRead, Steps
<1>14. CASE UNCHANGED changing
  BY <1>14 DEF LockOwner, changing
<1>15. QED
  BY <1>3, <1>4, <1>5, <1>9, <1>10, <1>11, <1>12, <1>13, <1>14 DEF Next, Step, Crash

-----------------------------------------------------------------------------
(* The count: only the lock's holder changes file_info *)

LEMMA NextCount ==
  ASSUME CountInv, [Next]_changing
  PROVE  CountStillRead' /\ CountPositive'
<1> USE DEF CountInv, LockedSteps, Goto
<1> DEFINE OthersSame(w) == \A v \in Workers \ {w} :
                              pc'[v] = pc[v] /\ cnt'[v] = cnt[v] /\ req'[v] = req[v]
           Ends(w) == (\E code : Reply(w, code)) \/ (\E l \in Steps \ {"del_dec"} : Goto(w, l))
<1>1. ASSUME NEW w \in Workers, Ends(w)
      PROVE  /\ pc'[w] # "del_dec"
             /\ \A v \in Workers \ {w} : pc'[v] = pc[v]
             /\ UNCHANGED <<cnt, req>> => OthersSame(w)
             /\ (\E code : Reply(w, code)) /\ UNCHANGED req => OthersSame(w)
  BY <1>1 DEF TypeOK, Reply
<1>2. ASSUME NEW w \in Workers, UNCHANGED file_info, OthersSame(w), pc'[w] # "del_dec"
      PROVE  CountStillRead' /\ CountPositive'
  BY <1>2 DEF CountStillRead, CountPositive, Registered
<1>3. ASSUME NEW w \in Workers, pc[w] \in LockedSteps, pc'[w] # "del_dec",
             \A v \in Workers \ {w} : pc'[v] = pc[v],
             \A m \in Md5s : file_info'[m] = file_info[m]
                               \/ file_info'[m].count \in Nat \ {0}
      PROVE  CountStillRead' /\ CountPositive'
  <2>1. \A v \in Workers : pc'[v] # "del_dec"
    BY <1>3 DEF LockOwner
  <2>2. QED
    BY <1>3, <2>1 DEF CountStillRead, CountPositive, Registered
<1>4. ASSUME NEW w \in Workers, Begin(w)
      PROVE  CountStillRead' /\ CountPositive'
  <2>1. PICK op \in OpKinds : /\ Goto(w, FirstStep[op])
                           /\ \E r : req' = [req EXCEPT ![w] = r]
                           /\ UNCHANGED <<file_info, cnt>>
    BY <1>4 DEF Begin, tables, locals
  <2>2. op \in OpKinds
    BY ConstantsAssumption
  <2>3. FirstStep[op] # "del_dec"
    BY <2>2 DEF OpKinds, FirstStep
  <2>4. OthersSame(w) /\ pc'[w] # "del_dec"
    BY <2>1, <2>3 DEF TypeOK
  <2>5. QED
    BY <1>2, <2>1, <2>4
<1>5. ASSUME NEW w \in Workers, AcquireLock(w)
      PROVE  CountStillRead' /\ CountPositive'
  <2>1. AfterLock[pc[w]] \in Steps \ {"del_dec"}
    BY <1>5 DEF AcquireLock, AfterLock, WaitSteps, Steps
  <2>2. UNCHANGED <<file_info, cnt, req>>
    BY <1>5 DEF AcquireLock, tables, locals
  <2>3. pc' = [pc EXCEPT ![w] = AfterLock[pc[w]]]
    BY <1>5 DEF AcquireLock
  <2>4. OthersSame(w) /\ pc'[w] # "del_dec"
    BY <2>1, <2>2, <2>3 DEF TypeOK
  <2>5. QED
    BY <1>2, <2>2, <2>4
<1>6. ASSUME NEW w \in Workers, LockTimeout(w) \/ UploadPut(w) \/ UploadUrl(w)
                                  \/ UploadUserRow(w) \/ UploadDrop(w)
      PROVE  CountStillRead' /\ CountPositive'
  <2>1. Ends(w) /\ UNCHANGED <<file_info, req>>
    BY <1>6 DEF LockTimeout, UploadPut, UploadUrl, UploadUserRow, UploadDrop,
         tables, Steps, WaitSteps
  <2>2. UNCHANGED cnt \/ \E code : Reply(w, code)
    BY <1>6 DEF LockTimeout, UploadPut, UploadUrl, UploadUserRow, UploadDrop, locals
  <2>3. QED
    BY <1>1, <1>2, <2>1, <2>2
<1>7. ASSUME NEW w \in Workers, Md5Check(w) \/ SaveCheck(w) \/ SaveInsert(w)
                                  \/ DeleteRows(w) \/ DeleteRemove(w)
      PROVE  CountStillRead' /\ CountPositive'
  <2>1. Ends(w) /\ UNCHANGED <<file_info, req>>
    BY <1>7 DEF Md5Check, SaveCheck, SaveInsert, DeleteRows, DeleteRemove,
         tables, Steps, WaitSteps
  <2>2. UNCHANGED cnt \/ \E code : Reply(w, code)
    BY <1>7 DEF Md5Check, SaveCheck, SaveInsert, DeleteRows, DeleteRemove, locals
  <2>3. QED
    BY <1>1, <1>2, <2>1, <2>2
<1>8. ASSUME ProcessDies
      PROVE  CountStillRead' /\ CountPositive'
  BY <1>8 DEF ProcessDies, tables, CountStillRead, CountPositive, Registered
<1>9. ASSUME NEW w \in Workers, DeleteCheck(w)
      PROVE  CountStillRead' /\ CountPositive'
  <2>1. CASE ProcessDies
    BY <1>8, <2>1
  <2>2. CASE ~ProcessDies
    <3>1. Ends(w) /\ UNCHANGED <<file_info, req>>
      BY <1>9, <2>2 DEF DeleteCheck, tables, Steps
    <3>2. UNCHANGED cnt \/ \E code : Reply(w, code)
      BY <1>9, <2>2 DEF DeleteCheck, locals
    <3>3. QED
      BY <1>1, <1>2, <3>1, <3>2
  <2>3. QED
    BY <2>1, <2>2
<1>10. ASSUME NEW w \in Workers, UploadInsert(w) \/ UploadBump(w) \/ Md5Bump(w)
                                   \/ SaveBump(w) \/ DeleteDecrement(w)
       PROVE  CountStillRead' /\ CountPositive'
  <2>1. Ends(w) /\ pc[w] \in LockedSteps
    BY <1>10 DEF UploadInsert, UploadBump, Md5Bump, SaveBump, DeleteDecrement, Steps
  <2>2. req[w].md5 \in Md5s
    BY <2>1 DEF TypeOK, Request
  <2>3. \A m \in Md5s : Registered(m) => file_info[m].count \in Nat
    BY DEF TypeOK, Registered, InfoRow
  <2>4. \A m \in Md5s : Bumped(req[w].md5)[m] = file_info[m]
                         \/ Bumped(req[w].md5)[m].count \in Nat \ {0}
    BY <2>2, <2>3 DEF Bumped, Registered, TypeOK
  <2>5. CASE UploadInsert(w)
    BY <1>1, <1>3, <2>1, <2>2, <2>5 DEF UploadInsert, TypeOK
  <2>6. CASE UploadBump(w) \/ Md5Bump(w) \/ SaveBump(w)
    BY <1>1, <1>3, <2>1, <2>4, <2>6 DEF UploadBump, Md5Bump, SaveBump
  <2>7. CASE DeleteDecrement(w)
    <3>1. file_info[req[w].md5].count \in Nat /\ file_info[req[w].md5].count > 1
      BY <2>2, <2>3, <2>7 DEF DeleteDecrement, CountStillRead
    <3>2. /\ file_info[req[w].md5] \in InfoRow
          /\ file_info[req[w].md5].count - 1 \in Nat \ {0}
      BY <2>2, <2>7, <3>1 DEF DeleteDecrement, CountStillRead, TypeOK, Registered
    <3>3. \A m \in Md5s : file_info'[m] = file_info[m] \/ file_info'[m].count \in Nat \ {0}
      BY <2>2, <2>7, <3>2 DEF DeleteDecrement, TypeOK, InfoRow
    <3>4. QED
      BY <1>1, <1>3, <2>1, <3>3
  <2>8. QED
    BY <1>10, <2>5, <2>6, <2>7
<1>11. ASSUME NEW w \in Workers, DeleteRead(w)
       PROVE  CountStillRead' /\ CountPositive'
  <2>1. UNCHANGED <<file_info, req>> /\ pc[w] \in LockedSteps
    BY <1>11 DEF DeleteRead, tables
  <2>2. CASE \E code : Reply(w, code)
    BY <1>1, <1>2, <2>1, <2>2
  <2>3. CASE Registered(req[w].md5) /\ MustDecrement(file_info[req[w].md5].count)
             /\ cnt' = [cnt EXCEPT ![w] = file_info[req[w].md5].count]
             /\ Goto(w, "del_dec")
    BY <2>1, <2>3 DEF CountStillRead, CountPositive, Registered, MustDecrement, TypeOK
  <2>4. CASE Goto(w, "del_remove")
             /\ cnt' = [cnt EXCEPT ![w] = file_info[req[w].md5].count]
    BY <1>2, <2>1, <2>4 DEF TypeOK
  <2>5. QED
    BY <1>11, <2>2, <2>3, <2>4 DEF DeleteRead
<1>12. CASE UNCHANGED changing
  BY <1>12 DEF changing, CountStillRead, CountPositive, Registered
<1>13. QED
  BY <1>4, <1>5, <1>6, <1>7, <1>8, <1>9, <1>10, <1>11, <1>12 DEF Next, Step, Crash

LEMMA CountInvariant == Spec => []CountInv
<1>1. Init => CountInv
  <2>1. Init => LockOwner /\ CountStillRead /\ CountPositive
    BY ConstantsAssumption
    DEF Init, LockOwner, LockedSteps, CountStillRead, CountPositive, Registered
  <2>2. QED
    BY <2>1, InitType DEF CountInv
<1>2. CountInv /\ [Next /\ UNCHANGED env]_vars => CountInv'
  BY NextType, NextLockOwner, NextCount DEF CountInv, vars
<1>3. QED
  BY <1>1, <1>2, PTL DEF Spec

(* Type correctness of the file store: in particular the two decrements of a
   count never leave Nat. *)
THEOREM TypeCorrect == Spec => []TypeOK
  BY CountInvariant, PTL DEF CountInv

(* For any number of workers and any faults, crashes included, a file_info row
   never counts fewer than one reference. *)
THEOREM CountStaysPositive == Spec => []CountPositive
  BY CountInvariant, PTL DEF CountInv

-----------------------------------------------------------------------------
(* FileInfoLock is used as a TimedLock *)

LockMove(from, to) ==
    \/ LockUser(from) = LockUser(to)
    \/ LockUser(from) = "outside" /\ LockUser(to) = "asking"
    \/ LockUser(from) = "asking" /\ LockUser(to) = "holding" /\ holder = NoWorker
    \/ LockUser(from) = "asking" /\ LockUser(to) = "outside" /\ holder # NoWorker
    \/ LockUser(from) = "holding" /\ LockUser(to) = "outside"

LEMMA StepMovesLock ==
    ASSUME TypeOK, Calm, NEW w \in Workers, Begin(w) \/ Step(w)
    PROVE  \E l : pc' = [pc EXCEPT ![w] = l] /\ LockMove(pc[w], l)
<1> USE DEF LockUser, LockedSteps, WaitSteps, LockMove
<1>1. ASSUME NEW code, Reply(w, code), pc[w] \notin WaitSteps \/ holder # NoWorker
      PROVE  pc' = [pc EXCEPT ![w] = "idle"] /\ LockMove(pc[w], "idle")
  BY <1>1, ReplyPc
<1>2. CASE Begin(w)
  <2>1. PICK op \in OpKinds : Goto(w, FirstStep[op]) /\ pc[w] = "idle"
    BY <1>2 DEF Begin
  <2>2. FirstStep[op] \in {"up_put", "md5_check", "save_check", "del_check"}
    BY DEF OpKinds, FirstStep
  <2> QED BY <2>1, <2>2 DEF Goto
<1>3. CASE AcquireLock(w)
  <2>1. AfterLock[pc[w]] \in LockedSteps /\ pc[w] \in WaitSteps /\ holder = NoWorker
    BY <1>3 DEF AcquireLock, AfterLock, Lock
  <2> QED BY <1>3, <2>1 DEF AcquireLock, Goto
<1>4. CASE LockTimeout(w)
  BY <1>1, <1>4 DEF LockTimeout, Goto
<1>5. CASE UploadPut(w) \/ UploadUrl(w)
  BY <1>1, <1>5 DEF UploadPut, UploadUrl, Goto
<1>6. CASE UploadInsert(w) \/ UploadBump(w)
  BY <1>6 DEF UploadInsert, UploadBump, Goto
<1>7. CASE UploadUserRow(w) \/ UploadDrop(w)
  BY <1>1, <1>7 DEF UploadUserRow, UploadDrop, Goto
<1>8. CASE Md5Check(w) \/ Md5Bump(w)
  BY <1>1, <1>8 DEF Md5Check, Md5Bump, Goto
<1>9. CASE SaveCheck(w) \/ SaveBump(w) \/ SaveInsert(w)
  BY <1>1, <1>9 DEF SaveCheck, SaveBump, SaveInsert, Goto
<1>10. CASE DeleteCheck(w) \/ DeleteRows(w)
  BY <1>1, <1>10 DEF DeleteCheck, DeleteRows, Goto, CanFail, Calm
<1>11. CASE DeleteRead(w)
  BY <1>1, <1>11 DEF DeleteRead, Goto
<1>12. CASE DeleteDecrement(w) \/ DeleteRemove(w)
  BY <1>1, <1>12 DEF DeleteDecrement, DeleteRemove, Goto
<1> HIDE DEF LockUser, LockedSteps, WaitSteps, LockMove
<1> QED BY <1>2, <1>3, <1>4, <1>5, <1>6, <1>7, <1>8, <1>9, <1>10, <1>11, <1>12 DEF Step

LEMMA FreeLock ==
    ASSUME TypeOK, LockOwner
    PROVE  TheLock!Free <=> holder = NoWorker
<1>1. \A w \in Workers : LockUser(pc[w]) = "holding" <=> holder = w
  BY DEF LockOwner, LockUser, LockedSteps, WaitSteps
<1> QED BY <1>1, ConstantsAssumption DEF TheLock!Free, TypeOK

LEMMA StepUsesLock ==
    ASSUME TypeOK, LockOwner, Calm, NEW w \in Workers, Begin(w) \/ Step(w)
    PROVE  [TheLock!Next]_(TheLock!vars)
<1> DEFINE users == [v \in Workers |-> LockUser(pc[v])]
<1>1. PICK l : pc' = [pc EXCEPT ![w] = l] /\ LockMove(pc[w], l)
  BY StepMovesLock
<1>2. users' = [users EXCEPT ![w] = LockUser(l)]
  BY <1>1 DEF TypeOK
<1>3. users[w] = LockUser(pc[w])
  OBVIOUS
<1> HIDE DEF users
<1>4. CASE LockUser(pc[w]) = LockUser(l)
  <2>1. users' = users
    BY <1>2, <1>3, <1>4 DEF users
  <2> QED BY <2>1 DEF TheLock!vars, users
<1>5. CASE LockUser(pc[w]) = "outside" /\ LockUser(l) = "asking"
  <2>1. TheLock!Ask(w)
    BY <1>2, <1>3, <1>5 DEF TheLock!Ask, TheLock!Move, users
  <2> QED BY <2>1 DEF TheLock!Next
<1>6. CASE LockUser(pc[w]) = "asking" /\ LockUser(l) = "holding" /\ holder = NoWorker
  <2>1. TheLock!Grant(w)
    BY <1>2, <1>3, <1>6, FreeLock DEF TheLock!Grant, TheLock!Move, users
  <2> QED BY <2>1 DEF TheLock!Next
<1>7. CASE LockUser(pc[w]) = "asking" /\ LockUser(l) = "outside" /\ holder # NoWorker
  <2>1. TheLock!Refuse(w)
    BY <1>2, <1>3, <1>7, FreeLock DEF TheLock!Refuse, TheLock!Move, users
  <2> QED BY <2>1 DEF TheLock!Next
<1>8. CASE LockUser(pc[w]) = "holding" /\ LockUser(l) = "outside"
  <2>1. TheLock!Release(w)
    BY <1>2, <1>3, <1>8 DEF TheLock!Release, TheLock!Move, users
  <2> QED BY <2>1 DEF TheLock!Next
<1> QED BY <1>1, <1>4, <1>5, <1>6, <1>7, <1>8 DEF LockMove

LEMMA NextUsesLock ==
    CountInv /\ Calm /\ [Next /\ UNCHANGED env]_vars => [TheLock!Next]_(TheLock!vars)
<1> SUFFICES ASSUME CountInv, Calm, [Next /\ UNCHANGED env]_vars
             PROVE  [TheLock!Next]_(TheLock!vars)
  OBVIOUS
<1>1. TypeOK /\ LockOwner
  BY DEF CountInv
<1>2. ~Crash
  BY DEF Crash, CanFail, Calm
<1>3. CASE UNCHANGED pc
  BY <1>3 DEF TheLock!vars
<1> QED BY <1>1, <1>2, <1>3, StepUsesLock DEF Next, vars, changing

(* The handlers rely on no more than what FileInfoLock is proved to be
   (FileInfoLockProofs!Refinement), as long as the process does not die. *)
THEOREM LockUse == Spec => UsesTimedLock
<1>1. Init => TheLock!Init
  BY DEF Init, TheLock!Init, LockUser, LockedSteps, WaitSteps
<1>2. CountInv /\ [Next /\ UNCHANGED env]_vars => [Calm => TheLock!Next]_(TheLock!vars)
  BY NextUsesLock
<1> QED BY <1>1, <1>2, CountInvariant, PTL DEF Spec, UsesTimedLock

-----------------------------------------------------------------------------
(* Uploads and saves never lose an owned file *)

NoLoss ==
    env.ops \cap {"delete"} = {} /\ env.faults \cap {"insert_info", "insert_user"} = {}

(* the object is in the worker's hands alone *)
Private(w) == \/ pc[w] \in {"up_url", "up_lock", "up_insert", "up_bump", "up_drop"}
              \/ pc[w] = "up_user" /\ dup[w]
TablesAgree ==
    /\ \A m \in Md5s : Registered(m) => file_info[m].file_id \in dfs
    /\ \A r \in user_file_list : Registered(r.md5)
Uploading(w) ==
    /\ pc[w] \notin {"del_check", "del_rows", "del_lock", "del_read", "del_dec", "del_remove"}
    /\ pc[w] \in {"up_bump", "up_user", "save_insert"} => Registered(req[w].md5)
    /\ pc[w] \in {"idle", "up_put", "up_url", "up_lock", "up_insert", "up_bump"} => ~dup[w]
    /\ pc[w] \in {"up_url", "up_lock", "up_insert"} => obj[w] \in dfs
    /\ Private(w) => /\ \A m \in Md5s : Registered(m) => file_info[m].file_id # obj[w]
                     /\ \A v \in Workers \ {w} : Private(v) => obj[v] # obj[w]
StoredInv == TablesAgree /\ \A w \in Workers : Uploading(w)

LEMMA StoredInit == Init => StoredInv
BY DEF Init, StoredInv, TablesAgree, Uploading, Private, Registered

SameFiles ==
    \A m \in Md5s : /\ Registered(m)' = Registered(m)
                    /\ Registered(m) => file_info'[m].file_id = file_info[m].file_id

LEMMA BumpedKeeps ==
    ASSUME TypeOK, NEW k \in Md5s, file_info' = Bumped(k)
    PROVE  SameFiles
<1>1. CASE Registered(k)
  <2>1. file_info[k] \in InfoRow
    BY <1>1 DEF TypeOK, Registered
  <2>2. [file_info[k] EXCEPT !.count = @ + 1] \in InfoRow
    BY <2>1 DEF InfoRow
  <2>3. file_info' = [file_info EXCEPT ![k] = [file_info[k] EXCEPT !.count = @ + 1]]
    BY <1>1 DEF Bumped
  <2>4. file_info'[k] # NoRow /\ file_info'[k].file_id = file_info[k].file_id
    BY <2>1, <2>2, <2>3, TablesAssumption DEF TypeOK, InfoRow
  <2> QED BY <1>1, <2>3, <2>4 DEF TypeOK, Registered, SameFiles
<1> QED BY <1>1 DEF Bumped, Registered, SameFiles

(* The step of w changes no object and registers nothing new. *)
Quiet(w) ==
    /\ dfs' = dfs
    /\ SameFiles
    /\ \A r \in user_file_list' : r \in user_file_list \/ Registered(r.md5)
    /\ \A v \in Workers \ {w} : /\ pc'[v] = pc[v] /\ dup'[v] = dup[v]
                               /\ obj'[v] = obj[v] /\ req'[v] = req[v]

LEMMA StoredQuiet ==
    ASSUME TypeOK, TypeOK', StoredInv, NEW w \in Workers, Quiet(w),
           Private(w)' => Private(w) /\ obj'[w] = obj[w],
           /\ pc'[w] \notin {"del_check", "del_rows", "del_lock", "del_read", "del_dec", "del_remove"}
           /\ pc'[w] \in {"up_bump", "up_user", "save_insert"} =>
                  req'[w].md5 \in Md5s /\ Registered(req'[w].md5)
           /\ pc'[w] \in {"idle", "up_put", "up_url", "up_lock", "up_insert", "up_bump"} => ~dup'[w]
           /\ pc'[w] \in {"up_url", "up_lock", "up_insert"} => pc[w] \in {"up_url", "up_lock", "up_insert"}
    PROVE  StoredInv'
<1>1. SameFiles
  BY DEF Quiet
<1>2. TablesAgree'
  <2>1. \A m \in Md5s : Registered(m)' => file_info'[m].file_id \in dfs'
    BY <1>1 DEF Quiet, SameFiles, StoredInv, TablesAgree
  <2>2. \A r \in user_file_list' : r.md5 \in Md5s /\ Registered(r.md5)
    BY DEF Quiet, StoredInv, TablesAgree, TypeOK, UserRow
  <2> QED BY <1>1, <2>1, <2>2 DEF TablesAgree, SameFiles
<1>3. ASSUME NEW v \in Workers PROVE Uploading(v)'
  <2>1. req[v] \in Request => req[v].md5 \in Md5s
    BY DEF Request
  <2>2. CASE v = w
    BY <1>1, <2>2 DEF Quiet, SameFiles, StoredInv, Uploading, Private
  <2>3. CASE v # w
    BY <1>1, <2>1, <2>3 DEF Quiet, SameFiles, StoredInv, Uploading, Private, TypeOK
  <2> QED BY <2>2, <2>3
<1> QED BY <1>2, <1>3 DEF StoredInv

LEMMA ReplyQuiet ==
    ASSUME TypeOK, TypeOK', StoredInv, NEW w \in Workers, NEW code, Reply(w, code),
           dfs' = dfs, UNCHANGED req,
           SameFiles,
           \A r \in user_file_list' : r \in user_file_list \/ Registered(r.md5)
    PROVE  StoredInv'
<1>1. /\ pc'[w] = "idle" /\ ~dup'[w]
      /\ \A v \in Workers \ {w} : /\ pc'[v] = pc[v] /\ dup'[v] = dup[v]
                                 /\ obj'[v] = obj[v] /\ req'[v] = req[v]
  BY DEF Reply, Goto, TypeOK
<1>2. Quiet(w)
  BY <1>1 DEF Quiet
<1> QED BY <1>1, <1>2, StoredQuiet DEF Private

LEMMA GotoQuiet ==
    ASSUME TypeOK, TypeOK', StoredInv, NEW w \in Workers, NEW l, Goto(w, l),
           UNCHANGED <<dfs, obj>>, \A v \in Workers \ {w} : dup'[v] = dup[v] /\ req'[v] = req[v],
           SameFiles,
           \A r \in user_file_list' : r \in user_file_list \/ Registered(r.md5),
           Private(w)' => Private(w),
           /\ l \notin {"del_check", "del_rows", "del_lock", "del_read", "del_dec", "del_remove"}
           /\ l \in {"up_bump", "up_user", "save_insert"} =>
                  req'[w].md5 \in Md5s /\ Registered(req'[w].md5)
           /\ l \in {"idle", "up_put", "up_url", "up_lock", "up_insert", "up_bump"} => ~dup'[w]
           /\ l \in {"up_url", "up_lock", "up_insert"} => pc[w] \in {"up_url", "up_lock", "up_insert"}
    PROVE  StoredInv'
<1>1. /\ pc'[w] = l /\ obj'[w] = obj[w]
      /\ \A v \in Workers \ {w} : /\ pc'[v] = pc[v] /\ dup'[v] = dup[v]
                                 /\ obj'[v] = obj[v] /\ req'[v] = req[v]
  BY DEF Goto, TypeOK
<1>2. Quiet(w)
  BY <1>1 DEF Quiet
<1> QED BY <1>1, <1>2, StoredQuiet

LEMMA StoredAdd ==
    ASSUME TypeOK, NEW w \in Workers, pc[w] # "idle", AddUserRow(w)
    PROVE  \A r \in user_file_list' : r \in user_file_list \/ r.md5 = req[w].md5
BY DEF AddUserRow

LEMMA StoredOthers ==
    ASSUME TypeOK, TypeOK', StoredInv, NoLoss, NEW w \in Workers,
           \/ Begin(w) \/ AcquireLock(w) \/ LockTimeout(w) \/ UploadUrl(w) \/ UploadBump(w)
           \/ UploadUserRow(w) \/ Md5Check(w) \/ Md5Bump(w)
           \/ SaveCheck(w) \/ SaveBump(w) \/ SaveInsert(w)
    PROVE  StoredInv'
<1> USE DEF tables, locals
<1>0. Uploading(w)
  BY DEF StoredInv
<1>m. pc[w] # "idle" => req[w].md5 \in Md5s
  BY DEF TypeOK, Request
<1>s. UNCHANGED file_info => SameFiles
  BY DEF Registered, SameFiles
<1>1. CASE Begin(w)
  <2>1. PICK op \in OpKinds : op \in env.ops /\ pc[w] = "idle" /\ Goto(w, FirstStep[op])
    BY <1>1 DEF Begin
  <2>2. FirstStep[op] \in {"up_put", "md5_check", "save_check"}
    BY <2>1 DEF NoLoss, OpKinds, FirstStep
  <2>3. UNCHANGED <<file_info, user_file_list, dfs, obj, dup>> /\ \A v \in Workers \ {w} : req'[v] = req[v]
    BY <1>1 DEF Begin, TypeOK
  <2>4. ~Private(w)'
    BY <2>1, <2>2 DEF Private, Goto, TypeOK
  <2> QED BY <1>0, <1>s, <2>1, <2>2, <2>3, <2>4, GotoQuiet DEF Uploading
<1>2. CASE AcquireLock(w)
  <2>1. pc[w] \in {"up_lock", "md5_lock", "save_lock"}
    BY <1>0, <1>2 DEF AcquireLock, WaitSteps, Uploading
  <2>2. /\ \/ pc[w] = "up_lock" /\ AfterLock[pc[w]] = "up_insert"
           \/ pc[w] # "up_lock" /\ AfterLock[pc[w]] \in {"md5_bump", "save_bump"}
        /\ Goto(w, AfterLock[pc[w]]) /\ UNCHANGED <<file_info, user_file_list, dfs, obj, dup, req>>
    BY <1>2, <2>1 DEF AcquireLock, AfterLock
  <2>3. Private(w)' => Private(w)
    BY <2>2 DEF Private, Goto, TypeOK
  <2> QED BY <1>0, <1>s, <2>2, <2>3, GotoQuiet DEF Uploading
<1>3. CASE LockTimeout(w)
  <2>1. CASE \E code : Reply(w, code)
    BY <1>3, <1>s, <2>1, ReplyQuiet DEF LockTimeout
  <2>2. CASE pc[w] = "up_lock" /\ Goto(w, "up_drop") /\ UNCHANGED locals
    BY <1>3, <1>s, <2>2, GotoQuiet DEF LockTimeout, Private
  <2> QED BY <1>3, <2>1, <2>2 DEF LockTimeout
<1>4. CASE UploadUrl(w)
  <2>1. CASE \E code : Reply(w, code)
    BY <1>4, <1>s, <2>1, ReplyQuiet DEF UploadUrl
  <2>2. CASE Goto(w, "up_lock") /\ UNCHANGED locals
    BY <1>0, <1>4, <1>s, <2>2, GotoQuiet DEF UploadUrl, Private, Uploading
  <2> QED BY <1>4, <2>1, <2>2 DEF UploadUrl
<1>5. CASE UploadBump(w)
  <2>1. CASE Goto(w, "up_drop") /\ UNCHANGED <<file_info, dup>>
    BY <1>5, <1>s, <2>1, GotoQuiet DEF UploadBump, Private
  <2>2. CASE file_info' = Bumped(req[w].md5) /\ dup' = [dup EXCEPT ![w] = TRUE] /\ Goto(w, "up_user")
    <3>1. \A v \in Workers \ {w} : dup'[v] = dup[v]
      BY <2>2 DEF TypeOK
    <3>2. pc[w] = "up_bump" /\ Private(w) /\ Registered(req[w].md5)
      BY <1>0, <1>5 DEF UploadBump, Private, Uploading
    <3> QED BY <1>5, <1>m, <2>2, <3>1, <3>2, BumpedKeeps, GotoQuiet DEF UploadBump
  <2> QED BY <1>5, <2>1, <2>2 DEF UploadBump
<1>6. CASE UploadUserRow(w)
  <2>1. AddUserRow(w) /\ pc[w] = "up_user" /\ Registered(req[w].md5)
    BY <1>0, <1>6 DEF UploadUserRow, CanFail, NoLoss, Uploading
  <2>2. \A r \in user_file_list' : r \in user_file_list \/ Registered(r.md5)
    BY <2>1, StoredAdd
  <2>3. CASE \E code : Reply(w, code)
    BY <1>6, <1>s, <2>2, <2>3, ReplyQuiet DEF UploadUserRow
  <2>4. CASE dup[w] /\ Goto(w, "up_drop") /\ UNCHANGED locals
    BY <1>6, <1>s, <2>1, <2>2, <2>4, GotoQuiet DEF UploadUserRow, Private
  <2> QED BY <1>6, <2>3, <2>4 DEF UploadUserRow, MustDrop, CanFail, NoLoss
<1>7. CASE Md5Check(w) \/ SaveCheck(w)
  <2>1. CASE \E code : Reply(w, code)
    BY <1>7, <1>s, <2>1, ReplyQuiet DEF Md5Check, SaveCheck
  <2>2. CASE (Goto(w, "md5_lock") \/ Goto(w, "save_lock")) /\ UNCHANGED locals
    <3>1. ~Private(w)'
      BY <2>2 DEF Private, Goto, TypeOK
    <3> QED BY <1>7, <1>s, <2>2, <3>1, GotoQuiet DEF Md5Check, SaveCheck
  <2> QED BY <1>7, <2>1, <2>2 DEF Md5Check, SaveCheck
<1>8. CASE Md5Bump(w)
  BY <1>8, <1>m, <1>s, BumpedKeeps, ReplyQuiet DEF Md5Bump
<1>9. CASE SaveBump(w)
  <2>1. CASE \E code : Reply(w, code) /\ UNCHANGED file_info
    BY <1>9, <1>s, <2>1, ReplyQuiet DEF SaveBump
  <2>2. CASE Registered(req[w].md5) /\ file_info' = Bumped(req[w].md5) /\ Goto(w, "save_insert") /\ UNCHANGED locals
    <3>1. ~Private(w)'
      BY <2>2 DEF Private, Goto, TypeOK
    <3> QED BY <1>9, <1>m, <2>2, <3>1, BumpedKeeps, GotoQuiet DEF SaveBump
  <2> QED BY <1>9, <2>1, <2>2 DEF SaveBump
<1>10. CASE SaveInsert(w)
  <2>1. AddUserRow(w) /\ Registered(req[w].md5) /\ \E code : Reply(w, code)
    BY <1>0, <1>10 DEF SaveInsert, CanFail, NoLoss, Uploading
  <2>2. pc[w] # "idle"
    BY <1>10 DEF SaveInsert
  <2> QED BY <1>10, <1>s, <2>1, <2>2, StoredAdd, ReplyQuiet DEF SaveInsert
<1> QED BY <1>1, <1>2, <1>3, <1>4, <1>5, <1>6, <1>7, <1>8, <1>9, <1>10

(* the four steps that make, register or remove an object *)
LEMMA StoredPut ==
    ASSUME TypeOK, TypeOK', StoredInv, NEW w \in Workers, UploadPut(w)
    PROVE  StoredInv'
<1>0. Uploading(w) /\ TablesAgree
  BY DEF StoredInv
<1>1. CASE Reply(w, 1) /\ UNCHANGED dfs
  BY <1>1, ReplyQuiet DEF UploadPut, Registered, SameFiles
<1>2. ASSUME NEW o \in FreshObjs, dfs' = dfs \cup {o}, obj' = [obj EXCEPT ![w] = o],
             Goto(w, "up_url"), UNCHANGED dup
      PROVE  StoredInv'
  <2>1. /\ UNCHANGED <<file_info, user_file_list, req, dup>> /\ pc'[w] = "up_url" /\ obj'[w] = o /\ ~dup[w]
        /\ \A v \in Workers \ {w} : pc'[v] = pc[v] /\ obj'[v] = obj[v]
    BY <1>0, <1>2 DEF UploadPut, Goto, TypeOK, Uploading
  <2>2. /\ \A v \in Workers : obj[v] # o
        /\ \A m \in Md5s : Registered(m) => file_info[m].file_id # o
    BY DEF FreshObjs
  <2>3. TablesAgree'
    BY <1>0, <1>2, <2>1 DEF TablesAgree, Registered
  <2>4. Uploading(w)'
    BY <1>2, <2>1, <2>2 DEF Uploading, Private, Registered
  <2>5. ASSUME NEW v \in Workers \ {w} PROVE Uploading(v)'
    BY <1>2, <2>1, <2>2 DEF StoredInv, Uploading, Private, Registered
  <2> QED BY <2>3, <2>4, <2>5 DEF StoredInv
<1> QED BY <1>1, <1>2 DEF UploadPut

LEMMA StoredInsert ==
    ASSUME TypeOK, TypeOK', StoredInv, NoLoss, NEW w \in Workers, UploadInsert(w)
    PROVE  StoredInv'
<1> DEFINE m == req[w].md5
<1>0. Uploading(w) /\ TablesAgree /\ pc[w] = "up_insert" /\ m \in Md5s /\ obj[w] \in Objs
  BY DEF StoredInv, UploadInsert, TypeOK, Request, ObjSteps
<1>1. CASE Registered(m) /\ Goto(w, "up_bump") /\ UNCHANGED file_info
  BY <1>0, <1>1, GotoQuiet DEF UploadInsert, SameFiles, Registered, Private, Uploading, locals
<1>2. CASE /\ ~Registered(m) /\ Goto(w, "up_user")
           /\ file_info' = [file_info EXCEPT ![m] = [count |-> 1, file_id |-> obj[w]]]
  <2>1. /\ UNCHANGED <<user_file_list, dfs, req, obj, dup>> /\ pc'[w] = "up_user" /\ ~dup[w]
        /\ \A v \in Workers \ {w} : pc'[v] = pc[v]
    BY <1>0, <1>2 DEF UploadInsert, Goto, TypeOK, Uploading, locals
  <2>2. [count |-> 1, file_id |-> obj[w]] # NoRow
    BY <1>0, TablesAssumption DEF InfoRow
  <2>3. /\ Registered(m)' /\ file_info'[m].file_id = obj[w]
        /\ \A k \in Md5s \ {m} : file_info'[k] = file_info[k]
    <3>1. file_info'[m] = [count |-> 1, file_id |-> obj[w]] /\ \A k \in Md5s \ {m} : file_info'[k] = file_info[k]
      BY <1>0, <1>2 DEF TypeOK
    <3> QED BY <2>1, <2>2, <3>1 DEF Registered
  <2>4. TablesAgree'
    <3>1. obj[w] \in dfs
      BY <1>0 DEF Uploading
    <3>2. \A r \in user_file_list : r.md5 \in Md5s
      BY DEF TypeOK, UserRow
    <3> QED BY <1>0, <2>1, <2>3, <3>1, <3>2 DEF TablesAgree, Registered
  <2>5. Uploading(w)'
    BY <2>1, <2>3 DEF Uploading, Private
  <2>6. ASSUME NEW v \in Workers \ {w} PROVE Uploading(v)'
    <3>1. Private(v) => obj[v] # obj[w]
      BY <1>0 DEF Uploading, Private
    <3>2. req[v] \in Request => req[v].md5 \in Md5s
      BY DEF Request
    <3> QED BY <2>1, <2>3, <3>1, <3>2 DEF StoredInv, Uploading, Private, Registered, TypeOK
  <2> QED BY <2>4, <2>5, <2>6 DEF StoredInv
<1> QED BY <1>1, <1>2 DEF UploadInsert, CanFail, NoLoss

LEMMA StoredDrop ==
    ASSUME TypeOK, TypeOK', StoredInv, NEW w \in Workers, UploadDrop(w)
    PROVE  StoredInv'
<1>0. Uploading(w) /\ TablesAgree /\ Private(w)
  BY DEF StoredInv, UploadDrop, Private
<1>1. /\ UNCHANGED <<file_info, user_file_list, req>> /\ dfs \ {obj[w]} \subseteq dfs'
      /\ pc'[w] = "idle" /\ ~dup'[w]
      /\ \A v \in Workers \ {w} : pc'[v] = pc[v] /\ obj'[v] = obj[v] /\ dup'[v] = dup[v]
  BY DEF UploadDrop, Reply, Goto, TypeOK
<1>2. TablesAgree'
  BY <1>0, <1>1 DEF TablesAgree, Uploading, Registered
<1>3. Uploading(w)'
  BY <1>1 DEF Uploading, Private
<1>4. ASSUME NEW v \in Workers \ {w} PROVE Uploading(v)'
  <2>1. Private(v) => obj[v] # obj[w]
    BY <1>0 DEF Uploading
  <2> QED BY <1>1, <2>1 DEF StoredInv, Uploading, Private, Registered
<1> QED BY <1>2, <1>3, <1>4 DEF StoredInv

LEMMA StoredDies ==
    ASSUME StoredInv, ProcessDies
    PROVE  StoredInv'
BY DEF StoredInv, ProcessDies, tables, TablesAgree, Uploading, Private, Registered

LEMMA NextStored ==
    ASSUME CountInv, CountInv', NoLoss, StoredInv, [Next /\ UNCHANGED env]_vars
    PROVE  StoredInv'
<1>0. TypeOK /\ TypeOK'
  BY DEF CountInv
<1>1. CASE UNCHANGED changing
  BY <1>1 DEF changing, StoredInv, TablesAgree, Uploading, Private, Registered
<1>2. ASSUME NEW w \in Workers, Step(w) PROVE StoredInv'
  <2>1. pc[w] \notin {"del_check", "del_rows", "del_read", "del_dec", "del_remove"}
    BY DEF StoredInv, Uploading
  <2> QED BY <1>0, <1>2, <2>1, StoredOthers, StoredPut, StoredInsert, StoredDrop
          DEF Step, DeleteCheck, DeleteRows, DeleteRead, DeleteDecrement, DeleteRemove
<1>3. CASE Crash
  BY <1>3, StoredDies DEF Crash
<1> QED BY <1>0, <1>1, <1>2, <1>3, StoredOthers DEF Next, vars

(* Concurrent uploads and saves never lose a file somebody owns, for any number of
   workers, users and contents. *)
THEOREM OwnedStaysStored == Spec => []OwnedFilesStored
<1> DEFINE Inv == NoLoss => StoredInv
<1>1. Init => Inv
  BY StoredInit
<1>2. CountInv /\ CountInv' /\ Inv /\ [Next /\ UNCHANGED env]_vars => Inv'
  <2> SUFFICES ASSUME CountInv, CountInv', Inv, [Next /\ UNCHANGED env]_vars, NoLoss'
               PROVE  StoredInv'
    OBVIOUS
  <2>1. NoLoss
    BY DEF NoLoss, vars
  <2> QED BY <2>1, NextStored
<1>3. CountInv /\ Inv => OwnedFilesStored
  BY DEF CountInv, NoLoss, StoredInv, TablesAgree, OwnedFilesStored, TypeOK, UserRow
<1> QED BY <1>1, <1>2, <1>3, CountInvariant, PTL DEF Spec

-----------------------------------------------------------------------------
(* No object that nobody can free *)

NoStrayFault == env.faults \cap {"query", "crash", "dfs_url", "dfs_del"} = {}

(* between storing an object and registering or dropping it *)
Holding == {"up_url", "up_lock", "up_insert", "up_bump", "up_user", "up_drop"}
RegisteredObj(o) == \E m \in Md5s : Registered(m) /\ file_info[m].file_id = o

(* Rows of file_info stay, with the objects they name, so a deletion holds nothing
   that is not registered; an upload that has inserted its row is done with its
   object. *)
TrackedInv ==
    /\ \A o \in dfs : RegisteredObj(o) \/ \E w \in Workers : pc[w] \in Holding /\ obj[w] = o
    /\ \A w \in Workers : pc[w] = "up_user" /\ ~dup[w] => RegisteredObj(obj[w])

FilesStay ==
    \A m \in Md5s : Registered(m) =>
        Registered(m)' /\ file_info'[m].file_id = file_info[m].file_id

RegisteredNext(o) == \E m \in Md5s : file_info'[m] # NoRow /\ file_info'[m].file_id = o

LEMMA StayRegistered == FilesStay => \A o : RegisteredObj(o) => RegisteredNext(o)
BY DEF FilesStay, RegisteredObj, RegisteredNext, Registered

LEMMA TrackedMove ==
    ASSUME TrackedInv, FilesStay, NEW w \in Workers,
           \A v \in Workers \ {w} : pc'[v] = pc[v] /\ obj'[v] = obj[v] /\ dup'[v] = dup[v],
           \A o \in dfs' : o \in dfs \/ (pc'[w] \in Holding /\ obj'[w] = o),
           pc[w] \in Holding => \/ pc'[w] \in Holding /\ obj'[w] = obj[w]
                                \/ obj[w] \notin dfs' \/ RegisteredNext(obj[w]),
           pc'[w] = "up_user" /\ ~dup'[w] => RegisteredNext(obj'[w])
    PROVE  TrackedInv'
<1>1. ASSUME NEW o \in dfs'
      PROVE  RegisteredNext(o) \/ \E v \in Workers : pc'[v] \in Holding /\ obj'[v] = o
  <2>1. CASE pc'[w] \in Holding /\ obj'[w] = o
    BY <2>1
  <2>2. CASE o \in dfs /\ RegisteredObj(o)
    BY <2>2, StayRegistered
  <2>3. ASSUME NEW v \in Workers, pc[v] \in Holding, obj[v] = o
        PROVE  RegisteredNext(o) \/ \E u \in Workers : pc'[u] \in Holding /\ obj'[u] = o
    <3>1. CASE v = w
      BY <1>1, <2>3, <3>1
    <3>2. CASE v # w
      BY <2>3, <3>2
    <3> QED BY <3>1, <3>2
  <2> QED BY <2>1, <2>2, <2>3 DEF TrackedInv
<1>2. ASSUME NEW v \in Workers, pc'[v] = "up_user", ~dup'[v] PROVE RegisteredNext(obj'[v])
  <2>1. CASE v = w
    BY <1>2, <2>1
  <2>2. CASE v # w
    BY <1>2, <2>2, StayRegistered DEF TrackedInv
  <2> QED BY <2>1, <2>2
<1> QED BY <1>1, <1>2 DEF TrackedInv, RegisteredObj, RegisteredNext, Registered

(* Steps of a worker that holds no object, before or after. *)
LEMMA TrackedFree ==
    ASSUME TypeOK, TrackedInv, FilesStay, NEW w \in Workers, dfs' \subseteq dfs,
           pc[w] \notin Holding, pc'[w] \notin Holding,
           \A v \in Workers \ {w} : pc'[v] = pc[v] /\ obj'[v] = obj[v] /\ dup'[v] = dup[v]
    PROVE  TrackedInv'
<1>1. pc'[w] = "up_user" /\ ~dup'[w] => RegisteredNext(obj'[w])
  BY DEF Holding
<1>2. \A o \in dfs' : o \in dfs \/ (pc'[w] \in Holding /\ obj'[w] = o)
  OBVIOUS
<1>3. pc[w] \in Holding => \/ pc'[w] \in Holding /\ obj'[w] = obj[w]
                           \/ obj[w] \notin dfs' \/ RegisteredNext(obj[w])
  OBVIOUS
<1> QED BY <1>1, <1>2, <1>3, TrackedMove

LEMMA RepliesAlone ==
    ASSUME TypeOK, NEW w \in Workers, NEW code, Reply(w, code)
    PROVE  /\ pc'[w] = "idle"
           /\ \A v \in Workers \ {w} : pc'[v] = pc[v] /\ obj'[v] = obj[v] /\ dup'[v] = dup[v]
BY DEF Reply, Goto, TypeOK

LEMMA FilesSame == UNCHANGED file_info => FilesStay
BY DEF FilesStay, Registered

LEMMA FilesBumped == ASSUME TypeOK, NEW m \in Md5s, file_info' = Bumped(m) PROVE FilesStay
BY BumpedKeeps DEF SameFiles, FilesStay

LEMMA TrackedOthers ==
    ASSUME TypeOK, TrackedInv, NEW w \in Workers,
           \/ Begin(w) \/ Md5Check(w) \/ Md5Bump(w) \/ SaveCheck(w) \/ SaveBump(w) \/ SaveInsert(w)
    PROVE  TrackedInv'
<1> USE DEF tables, locals, Holding
<1>1. CASE Begin(w)
  <2>1. PICK op \in OpKinds : pc[w] = "idle" /\ Goto(w, FirstStep[op])
    BY <1>1 DEF Begin
  <2>2. FirstStep[op] \in {"up_put", "md5_check", "save_check", "del_check"}
    BY DEF OpKinds, FirstStep
  <2>3. UNCHANGED <<file_info, dfs, obj, dup>>
    BY <1>1 DEF Begin
  <2>4. pc'[w] = FirstStep[op] /\ \A v \in Workers \ {w} : pc'[v] = pc[v]
    BY <2>1 DEF Goto, TypeOK
  <2> QED BY <2>1, <2>2, <2>3, <2>4, FilesSame, TrackedFree
<1>2. CASE Md5Check(w) \/ Md5Bump(w) \/ SaveCheck(w) \/ SaveBump(w) \/ SaveInsert(w)
  <2>1. pc[w] \in {"md5_check", "md5_bump", "save_check", "save_bump", "save_insert"} /\ UNCHANGED dfs
    BY <1>2 DEF Md5Check, Md5Bump, SaveCheck, SaveBump, SaveInsert
  <2>2. UNCHANGED file_info \/ file_info' = Bumped(req[w].md5)
    BY <1>2 DEF Md5Check, Md5Bump, SaveCheck, SaveBump, SaveInsert
  <2>3. req[w].md5 \in Md5s
    BY <2>1 DEF TypeOK, Request
  <2>4. FilesStay
    BY <2>2, <2>3, FilesSame, FilesBumped
  <2>5. \/ \E code : Reply(w, code)
        \/ (\E l \in {"md5_lock", "save_lock", "save_insert"} : Goto(w, l)) /\ UNCHANGED <<obj, dup>>
    BY <1>2 DEF Md5Check, Md5Bump, SaveCheck, SaveBump, SaveInsert
  <2>6. CASE \E code : Reply(w, code)
    BY <2>1, <2>4, <2>6, RepliesAlone, TrackedFree
  <2>7. CASE (\E l \in {"md5_lock", "save_lock", "save_insert"} : Goto(w, l)) /\ UNCHANGED <<obj, dup>>
    <3>1. pc'[w] \notin Holding /\ \A v \in Workers \ {w} : pc'[v] = pc[v]
      BY <2>7 DEF Goto, TypeOK
    <3> QED BY <2>1, <2>4, <2>7, <3>1, TrackedFree
  <2> QED BY <2>5, <2>6, <2>7
<1> QED BY <1>1, <1>2

LEMMA TrackedDelete ==
    ASSUME TypeOK, TypeOK', TrackedInv, CountStillRead, NoStrayFault, NEW w \in Workers,
           DeleteCheck(w) \/ DeleteRows(w) \/ DeleteRead(w) \/ DeleteDecrement(w) \/ DeleteRemove(w)
    PROVE  TrackedInv'
<1> USE DEF tables, locals, Holding
<1>1. /\ pc[w] \in {"del_check", "del_rows", "del_read", "del_dec", "del_remove"} /\ dfs' \subseteq dfs
  BY DEF DeleteCheck, DeleteRows, DeleteRead, DeleteDecrement, DeleteRemove, CanFail, NoStrayFault
<1>2. FilesStay
  <2>1. CASE UNCHANGED file_info
    BY <2>1, FilesSame
  <2>2. CASE pc[w] = "del_dec" /\ file_info' = [file_info EXCEPT ![req[w].md5].count = @ - 1]
    <3> DEFINE m == req[w].md5
    <3>1. m \in Md5s /\ Registered(m) /\ file_info[m] \in InfoRow
      BY <2>2 DEF CountStillRead, TypeOK, Request, Registered
    <3>2. /\ file_info'[m] = [file_info[m] EXCEPT !.count = file_info[m].count - 1]
          /\ \A k \in Md5s \ {m} : file_info'[k] = file_info[k]
      BY <2>2, <3>1 DEF TypeOK
    <3>3. file_info'[m].file_id = file_info[m].file_id
      BY <3>1, <3>2 DEF InfoRow
    <3>4. file_info'[m] # NoRow
      <4>1. file_info[m].count - 1 \in Nat
        BY <2>2, <3>1 DEF CountStillRead, TypeOK, InfoRow
      <4>2. file_info'[m] \in InfoRow
        BY <3>1, <3>2, <4>1 DEF InfoRow
      <4> QED BY <4>2, TablesAssumption
    <3> QED BY <3>2, <3>3, <3>4 DEF FilesStay, Registered
  <2> QED BY <2>1, <2>2 DEF DeleteCheck, DeleteRows, DeleteRead, DeleteDecrement, DeleteRemove,
                            CanFail, NoStrayFault
<1>3. \/ \E code : Reply(w, code)
      \/ /\ \E l \in {"del_rows", "del_lock", "del_dec", "del_remove"} : Goto(w, l)
         /\ UNCHANGED dup /\ \A v \in Workers \ {w} : obj'[v] = obj[v]
  BY DEF DeleteCheck, DeleteRows, DeleteRead, DeleteDecrement, DeleteRemove, CanFail,
         NoStrayFault, TypeOK
<1>4. CASE \E code : Reply(w, code)
  BY <1>1, <1>2, <1>4, RepliesAlone, TrackedFree
<1>5. CASE /\ \E l \in {"del_rows", "del_lock", "del_dec", "del_remove"} : Goto(w, l)
           /\ UNCHANGED dup /\ \A v \in Workers \ {w} : obj'[v] = obj[v]
  <2>1. pc'[w] \notin Holding /\ \A v \in Workers \ {w} : pc'[v] = pc[v]
    BY <1>5 DEF Goto, TypeOK
  <2> QED BY <1>1, <1>2, <1>5, <2>1, TrackedFree
<1> QED BY <1>3, <1>4, <1>5

LEMMA TrackedLock ==
    ASSUME TypeOK, TrackedInv, NEW w \in Workers, AcquireLock(w) \/ LockTimeout(w)
    PROVE  TrackedInv'
<1> USE DEF tables, locals, Holding
<1>1. pc[w] \in WaitSteps /\ UNCHANGED dfs /\ FilesStay
  BY FilesSame DEF AcquireLock, LockTimeout, WaitSteps
<1>2. CASE pc[w] # "up_lock" /\ \E code : Reply(w, code)
  BY <1>1, <1>2, RepliesAlone, TrackedFree DEF WaitSteps
<1>3. ASSUME NEW l, pc' = [pc EXCEPT ![w] = l], UNCHANGED <<obj, dup>>,
             \/ pc[w] = "up_lock" /\ l \in {"up_insert", "up_drop"}
             \/ pc[w] # "up_lock" /\ l \notin Holding
      PROVE  TrackedInv'
  <2>1. pc'[w] = l /\ \A v \in Workers \ {w} : pc'[v] = pc[v]
    BY <1>3 DEF TypeOK
  <2>2. CASE pc[w] = "up_lock"
    <3>1. /\ \A o \in dfs' : o \in dfs \/ (pc'[w] \in Holding /\ obj'[w] = o)
          /\ pc[w] \in Holding => \/ pc'[w] \in Holding /\ obj'[w] = obj[w]
                                  \/ obj[w] \notin dfs' \/ RegisteredNext(obj[w])
          /\ pc'[w] = "up_user" /\ ~dup'[w] => RegisteredNext(obj'[w])
          /\ \A v \in Workers \ {w} : pc'[v] = pc[v] /\ obj'[v] = obj[v] /\ dup'[v] = dup[v]
      BY <1>1, <1>3, <2>1, <2>2
    <3> QED BY <1>1, <3>1, TrackedMove
  <2>3. CASE pc[w] # "up_lock"
    BY <1>1, <1>3, <2>1, <2>3, TrackedFree DEF WaitSteps
  <2> QED BY <2>2, <2>3
<1>4. CASE AcquireLock(w)
  <2>1. /\ Goto(w, AfterLock[pc[w]])
        /\ \/ pc[w] = "up_lock" /\ AfterLock[pc[w]] = "up_insert"
           \/ pc[w] # "up_lock" /\ AfterLock[pc[w]] \in {"md5_bump", "save_bump", "del_read"}
    BY <1>1, <1>4 DEF AcquireLock, WaitSteps, AfterLock
  <2>2. PICK l : l = AfterLock[pc[w]]
    OBVIOUS
  <2> QED BY <1>3, <1>4, <2>1, <2>2 DEF AcquireLock, Goto
<1>5. CASE LockTimeout(w)
  <2>1. \/ pc[w] = "up_lock" /\ Goto(w, "up_drop") /\ UNCHANGED locals
        \/ pc[w] # "up_lock" /\ \E code : Reply(w, code)
    BY <1>5 DEF LockTimeout
  <2> QED BY <1>2, <1>3, <2>1 DEF Goto
<1> QED BY <1>4, <1>5

LEMMA TrackedUpload ==
    ASSUME TypeOK, TrackedInv, NoStrayFault, NEW w \in Workers,
           \/ UploadPut(w) \/ UploadUrl(w) \/ UploadInsert(w) \/ UploadBump(w)
           \/ UploadUserRow(w) \/ UploadDrop(w)
    PROVE  TrackedInv'
<1> USE DEF tables, locals, Holding
<1>1. CASE UploadPut(w)
  <2>1. FilesStay /\ pc[w] = "up_put"
    BY <1>1, FilesSame DEF UploadPut
  <2>2. CASE Reply(w, 1) /\ UNCHANGED dfs
    BY <2>1, <2>2, RepliesAlone, TrackedFree
  <2>3. ASSUME NEW o, dfs' = dfs \cup {o}, obj' = [obj EXCEPT ![w] = o], Goto(w, "up_url"), UNCHANGED dup
        PROVE  TrackedInv'
    <3>1. pc'[w] = "up_url" /\ obj'[w] = o /\ \A v \in Workers \ {w} : pc'[v] = pc[v] /\ obj'[v] = obj[v]
      BY <2>3 DEF Goto, TypeOK
    <3> QED BY <2>1, <2>3, <3>1, TrackedMove
  <2> QED BY <1>1, <2>2, <2>3 DEF UploadPut
<1>2. ASSUME NEW l \in Holding \ {"up_user"}, Goto(w, l), UNCHANGED <<dfs, obj, dup>>, FilesStay
      PROVE  TrackedInv'
  <2>1. pc'[w] = l /\ \A v \in Workers \ {w} : pc'[v] = pc[v]
    BY <1>2 DEF Goto, TypeOK
  <2> QED BY <1>2, <2>1, TrackedMove
<1>3. CASE UploadUrl(w)
  <2>1. FilesStay
    BY <1>3, FilesSame DEF UploadUrl
  <2> QED BY <1>2, <1>3, <2>1 DEF UploadUrl, CanFail, NoStrayFault
<1>4. CASE UploadInsert(w)
  <2> DEFINE m == req[w].md5
  <2>0. m \in Md5s /\ pc[w] = "up_insert" /\ obj[w] \in Objs
    BY <1>4 DEF UploadInsert, TypeOK, Request, ObjSteps
  <2>1. CASE Goto(w, "up_bump") /\ UNCHANGED file_info
    BY <1>2, <1>4, <2>1, FilesSame DEF UploadInsert
  <2>2. CASE /\ ~Registered(m) /\ Goto(w, "up_user")
             /\ file_info' = [file_info EXCEPT ![m] = [count |-> 1, file_id |-> obj[w]]]
    <3>1. /\ file_info'[m] = [count |-> 1, file_id |-> obj[w]]
          /\ \A k \in Md5s \ {m} : file_info'[k] = file_info[k]
      BY <2>0, <2>2 DEF TypeOK
    <3>2. file_info'[m] # NoRow
      BY <2>0, <3>1, TablesAssumption DEF InfoRow
    <3>3. FilesStay /\ RegisteredNext(obj[w])
      BY <2>0, <2>2, <3>1, <3>2 DEF FilesStay, Registered, RegisteredNext
    <3>4. pc'[w] = "up_user" /\ \A v \in Workers \ {w} : pc'[v] = pc[v]
      BY <2>2 DEF Goto, TypeOK
    <3>5. UNCHANGED <<dfs, obj, dup>>
      BY <1>4 DEF UploadInsert
    <3> QED BY <2>0, <3>3, <3>4, <3>5, TrackedMove
  <2> QED BY <1>4, <2>1, <2>2 DEF UploadInsert
<1>5. CASE UploadBump(w)
  <2>0. req[w].md5 \in Md5s /\ pc[w] = "up_bump" /\ UNCHANGED <<dfs, obj>>
    BY <1>5 DEF UploadBump, TypeOK, Request
  <2>1. CASE Goto(w, "up_drop") /\ UNCHANGED <<file_info, dup>>
    BY <1>2, <2>0, <2>1, FilesSame
  <2>2. CASE file_info' = Bumped(req[w].md5) /\ dup' = [dup EXCEPT ![w] = TRUE] /\ Goto(w, "up_user")
    <3>1. /\ pc'[w] = "up_user" /\ dup'[w]
          /\ \A v \in Workers \ {w} : pc'[v] = pc[v] /\ dup'[v] = dup[v]
      BY <2>2 DEF Goto, TypeOK
    <3>2. FilesStay
      BY <2>0, <2>2, FilesBumped
    <3> QED BY <2>0, <3>1, <3>2, TrackedMove
  <2> QED BY <1>5, <2>1, <2>2 DEF UploadBump
<1>6. CASE UploadUserRow(w)
  <2>0. FilesStay /\ pc[w] = "up_user" /\ UNCHANGED dfs
    BY <1>6, FilesSame DEF UploadUserRow
  <2>1. CASE Goto(w, "up_drop") /\ UNCHANGED locals
    BY <1>2, <2>0, <2>1
  <2>2. CASE ~dup[w] /\ Reply(w, 0)
    <3>1. RegisteredNext(obj[w])
      BY <2>0, <2>2, StayRegistered DEF TrackedInv
    <3>2. /\ pc'[w] = "idle"
          /\ \A v \in Workers \ {w} : pc'[v] = pc[v] /\ obj'[v] = obj[v] /\ dup'[v] = dup[v]
      BY <2>2, RepliesAlone
    <3> QED BY <2>0, <3>1, <3>2, TrackedMove
  <2> QED BY <1>6, <2>1, <2>2 DEF UploadUserRow, MustDrop
<1>7. CASE UploadDrop(w)
  <2>1. FilesStay /\ dfs' = dfs \ {obj[w]} /\ \E code : Reply(w, code)
    BY <1>7, FilesSame DEF UploadDrop, CanFail, NoStrayFault
  <2>2. /\ pc'[w] = "idle"
        /\ \A v \in Workers \ {w} : pc'[v] = pc[v] /\ obj'[v] = obj[v] /\ dup'[v] = dup[v]
    BY <2>1, RepliesAlone
  <2> QED BY <2>1, <2>2, TrackedMove
<1> QED BY <1>1, <1>3, <1>4, <1>5, <1>6, <1>7

LEMMA NextTracked ==
    ASSUME CountInv, CountInv', NoStrayFault, TrackedInv, [Next /\ UNCHANGED env]_vars
    PROVE  TrackedInv'
<1>0. TypeOK /\ TypeOK' /\ CountStillRead
  BY DEF CountInv
<1>1. CASE UNCHANGED changing
  BY <1>1 DEF changing, TrackedInv, RegisteredObj, Registered
<1>2. ASSUME NEW w \in Workers, Begin(w) \/ Step(w) PROVE TrackedInv'
  BY <1>0, <1>2, TrackedOthers, TrackedDelete, TrackedLock, TrackedUpload DEF Step
<1> QED BY <1>1, <1>2 DEF Next, Crash, CanFail, NoStrayFault, vars

(* While the process lives and FastDFS commands succeed, every object is registered
   or in the hands of a request that will register or drop it, for any number of
   workers, users and contents. *)
THEOREM NothingLost == Spec => []NoOrphanObject
<1> DEFINE Inv == NoStrayFault => TrackedInv
<1>1. Init => Inv
  BY DEF Init, TrackedInv
<1>2. CountInv /\ CountInv' /\ Inv /\ [Next /\ UNCHANGED env]_vars => Inv'
  <2> SUFFICES ASSUME CountInv, CountInv', Inv, [Next /\ UNCHANGED env]_vars, NoStrayFault'
               PROVE  TrackedInv'
    OBVIOUS
  <2>1. NoStrayFault
    BY DEF NoStrayFault, vars
  <2> QED BY <2>1, NextTracked
<1>3. Inv => NoOrphanObject
  BY DEF NoStrayFault, TrackedInv, NoOrphanObject, RegisteredObj, Busy, Holding
<1> QED BY <1>1, <1>2, <1>3, CountInvariant, PTL DEF Spec

-----------------------------------------------------------------------------
(* The count covers the rows and requests it stands for, when each user has one
   request at a time and inserts into file_info fail only on a duplicate md5. *)
InTurn == env.serial /\ "insert_info" \notin env.faults

CountOf(m) == IF Registered(m) THEN file_info[m].count ELSE 0
Covered ==
    \A m \in Md5s : Cardinality(Owners(m)) + Cardinality(Claims(m)) <= CountOf(m)

ClaimSteps == {"up_user", "save_insert", "del_lock", "del_read", "del_dec"}
Claim(step) == IF step \in ClaimSteps THEN 1 ELSE 0

(* What the count rests on: no two requests of one user at a time, so that the row
   a deletion has found is still there when it is deleted, and a failed insert into
   file_info means that the row is there. *)
OneEach ==
    \A w, v \in Workers : w # v /\ pc[w] # "idle" /\ pc[v] # "idle" => req[w].user # req[v].user
StillThere == \A w \in Workers : pc[w] = "del_rows" => OwnRows(w) # {}
KnownFile == \A w \in Workers : pc[w] = "up_bump" => Registered(req[w].md5)
OwnersInv == OneEach /\ StillThere /\ KnownFile /\ IsFiniteSet(user_file_list) /\ Covered

-----------------------------------------------------------------------------
(* Claims and rows as functions of the state, so that the facts about finite
   sets apply to them before and after a step *)
ClaimsOf(at, r, m) == {w \in Workers : at[w] \in ClaimSteps /\ r[w].md5 = m}
RowsOf(rows, m) == {r \in rows : r.md5 = m}

LEMMA ClaimsAre ==
    ASSUME NEW m
    PROVE  /\ Claims(m) = ClaimsOf(pc, req, m) /\ Claims(m)' = ClaimsOf(pc', req', m)
           /\ Owners(m) = RowsOf(user_file_list, m) /\ Owners(m)' = RowsOf(user_file_list', m)
BY DEF Claims, Busy, ClaimsOf, ClaimSteps, Owners, RowsOf

LEMMA ClaimsFinite ==
    ASSUME NEW at, NEW r, NEW m
    PROVE  IsFiniteSet(ClaimsOf(at, r, m)) /\ Cardinality(ClaimsOf(at, r, m)) \in Nat
<1>1. ClaimsOf(at, r, m) \subseteq Workers
  BY DEF ClaimsOf
<1> QED BY <1>1, TablesAssumption, FS_Subset, FS_CardinalityType

LEMMA RowsFinite ==
    ASSUME NEW rows, IsFiniteSet(rows), NEW m
    PROVE  IsFiniteSet(RowsOf(rows, m)) /\ Cardinality(RowsOf(rows, m)) \in Nat
<1>1. RowsOf(rows, m) \subseteq rows
  BY DEF RowsOf
<1> QED BY <1>1, FS_Subset, FS_CardinalityType

(* one worker moves: its claim comes or goes *)
LEMMA ClaimsMove ==
    ASSUME NEW at, NEW to, NEW w \in Workers, \A v \in Workers : v # w => to[v] = at[v],
           NEW r, NEW m, r[w].md5 = m
    PROVE  Cardinality(ClaimsOf(to, r, m)) =
             Cardinality(ClaimsOf(at, r, m)) + Claim(to[w]) - Claim(at[w])
<1>0. /\ IsFiniteSet(ClaimsOf(at, r, m)) /\ Cardinality(ClaimsOf(at, r, m)) \in Nat
      /\ IsFiniteSet(ClaimsOf(to, r, m)) /\ Cardinality(ClaimsOf(to, r, m)) \in Nat
  BY ClaimsFinite
<1>2. CASE to[w] \in ClaimSteps /\ at[w] \notin ClaimSteps
  <2>1. ClaimsOf(to, r, m) = ClaimsOf(at, r, m) \cup {w} /\ w \notin ClaimsOf(at, r, m)
    BY <1>2 DEF ClaimsOf
  <2>2. Cardinality(ClaimsOf(to, r, m)) = Cardinality(ClaimsOf(at, r, m)) + 1
    BY <1>0, <2>1, FS_AddElement
  <2> QED BY <1>0, <1>2, <2>2 DEF Claim
<1>3. CASE to[w] \notin ClaimSteps /\ at[w] \in ClaimSteps
  <2>1. ClaimsOf(at, r, m) = ClaimsOf(to, r, m) \cup {w} /\ w \notin ClaimsOf(to, r, m)
    BY <1>3 DEF ClaimsOf
  <2>2. Cardinality(ClaimsOf(at, r, m)) = Cardinality(ClaimsOf(to, r, m)) + 1
    BY <1>0, <2>1, FS_AddElement
  <2> QED BY <1>0, <1>3, <2>2 DEF Claim
<1>4. CASE to[w] \in ClaimSteps <=> at[w] \in ClaimSteps
  <2>1. ClaimsOf(to, r, m) = ClaimsOf(at, r, m)
    BY <1>4 DEF ClaimsOf
  <2> QED BY <1>0, <1>4, <2>1 DEF Claim
<1> QED BY <1>2, <1>3, <1>4

-----------------------------------------------------------------------------
(* What one step of w does to rows, counts and claims *)

(* rows of w's file grow by at most o; no row but w's own goes *)
RowsBy(w, o) ==
    /\ IsFiniteSet(user_file_list')
    /\ user_file_list \ OwnRows(w) \subseteq user_file_list'
    /\ \A m \in Md5s : IF m = req[w].md5
                        THEN Cardinality(Owners(m)') <= Cardinality(Owners(m)) + o
                        ELSE Owners(m)' = Owners(m)

(* the count of w's file grows by at least n; no file is unregistered *)
CountBy(w, n) ==
    /\ \A m \in Md5s : IF m = req[w].md5 THEN CountOf(m)' >= CountOf(m) + n
                                            ELSE CountOf(m)' = CountOf(m)
    /\ \A m \in Md5s : Registered(m) => Registered(m)'

Change(w, l, o, n) ==
    /\ pc[w] # "idle" /\ pc' = [pc EXCEPT ![w] = l] /\ UNCHANGED req
    /\ RowsBy(w, o) /\ CountBy(w, n)
    /\ o + Claim(l) - Claim(pc[w]) <= n
    /\ l = "del_rows" => OwnRows(w) # {} /\ UNCHANGED user_file_list
    /\ l = "up_bump" => Registered(req[w].md5)

LEMMA CountType ==
    ASSUME TypeOK, TypeOK', NEW m \in Md5s
    PROVE  CountOf(m) \in Nat /\ CountOf(m)' \in Nat
BY DEF TypeOK, CountOf, Registered, InfoRow

LEMMA ChangeCovered ==
    ASSUME TypeOK, TypeOK', OwnersInv, NEW w \in Workers, NEW l, NEW o \in Int, NEW n \in Int,
           Change(w, l, o, n)
    PROVE  Covered'
<1>k. PICK k \in Md5s : k = req[w].md5
  BY DEF Change, TypeOK, Request
<1>0. IsFiniteSet(user_file_list) /\ IsFiniteSet(user_file_list')
  BY DEF OwnersInv, Change, RowsBy
<1>1. CountOf(k) \in Nat /\ CountOf(k)' \in Nat
  BY <1>k, CountType
<1>2. Cardinality(Owners(k)) + Cardinality(Claims(k)) <= CountOf(k)
  BY <1>k DEF OwnersInv, Covered
<1>3. /\ Cardinality(Owners(k)) \in Nat /\ Cardinality(Owners(k)') \in Nat
      /\ Cardinality(Claims(k)) \in Nat /\ Cardinality(Claims(k)') \in Nat
  BY <1>0, ClaimsAre, ClaimsFinite, RowsFinite
<1>4. Cardinality(Claims(k)') = Cardinality(Claims(k)) + Claim(l) - Claim(pc[w])
  <2>1. req' = req /\ pc'[w] = l /\ \A v \in Workers : v # w => pc'[v] = pc[v]
    BY DEF Change, TypeOK
  <2>2. Claims(k) = ClaimsOf(pc, req, k) /\ Claims(k)' = ClaimsOf(pc', req', k)
    BY ClaimsAre
  <2>3. Cardinality(ClaimsOf(pc', req, k)) =
          Cardinality(ClaimsOf(pc, req, k)) + Claim(pc'[w]) - Claim(pc[w])
    <3>1. PICK from, to, r : from = pc /\ to = pc' /\ r = req
      OBVIOUS
    <3>2. r[w].md5 = k /\ \A v \in Workers : v # w => to[v] = from[v]
      BY <1>k, <2>1, <3>1
    <3>3. Cardinality(ClaimsOf(to, r, k)) =
            Cardinality(ClaimsOf(from, r, k)) + Claim(to[w]) - Claim(from[w])
      BY <3>2, ClaimsMove
    <3> QED BY <3>1, <3>3
  <2> QED BY <2>1, <2>2, <2>3
<1>5. Cardinality(Owners(k)') + Cardinality(Claims(k)') <= CountOf(k)'
  <2>1. /\ Claim(l) \in Nat /\ Claim(pc[w]) \in Nat
        /\ o + Claim(l) - Claim(pc[w]) <= n
        /\ Cardinality(Owners(k)') <= Cardinality(Owners(k)) + o
        /\ CountOf(k)' >= CountOf(k) + n
    BY <1>k DEF Change, RowsBy, CountBy, Claim
  <2> QED BY <1>1, <1>2, <1>3, <1>4, <2>1
<1>6. ASSUME NEW m \in Md5s, m # k
      PROVE  Cardinality(Owners(m)') + Cardinality(Claims(m)') <= CountOf(m)'
  <2>1. Claims(m)' = Claims(m)
    BY <1>k, <1>6 DEF Change, Claims, Busy, TypeOK, ClaimSteps, Claim
  <2>2. Owners(m)' = Owners(m) /\ CountOf(m)' = CountOf(m)
    BY <1>k, <1>6 DEF Change, RowsBy, CountBy
  <2> QED BY <2>1, <2>2 DEF OwnersInv, Covered
<1> QED BY <1>5, <1>6 DEF Covered

LEMMA ChangeKeeps ==
    ASSUME TypeOK, TypeOK', OwnersInv, NEW w \in Workers, NEW l, NEW o \in Int, NEW n \in Int,
           Change(w, l, o, n)
    PROVE  OwnersInv'
<1>1. Covered'
  BY ChangeCovered
<1>2. /\ pc[w] # "idle" /\ pc'[w] = l /\ UNCHANGED req
      /\ \A v \in Workers : v # w => pc'[v] = pc[v]
  BY DEF Change, TypeOK
<1>3. OneEach'
  BY <1>2 DEF OwnersInv, OneEach
<1>4. StillThere'
  <2>1. ASSUME NEW v \in Workers, v # w, pc[v] = "del_rows" PROVE OwnRows(v)' # {}
    <3>1. PICK r \in OwnRows(v) : TRUE
      BY <2>1 DEF OwnersInv, StillThere
    <3>2. req[v].user # req[w].user
      BY <1>2, <2>1 DEF OwnersInv, OneEach
    <3>3. r \in user_file_list'
      BY <3>1, <3>2 DEF Change, RowsBy, OwnRows
    <3> QED BY <1>2, <3>1, <3>3 DEF OwnRows
  <2>2. l = "del_rows" => OwnRows(w)' # {}
    BY <1>2 DEF Change, OwnRows
  <2> QED BY <1>2, <2>1, <2>2 DEF StillThere
<1>5. KnownFile'
  <2>1. \A v \in Workers : pc[v] # "idle" => req[v].md5 \in Md5s
    BY DEF TypeOK, Request
  <2> QED BY <1>2, <2>1 DEF OwnersInv, KnownFile, Change, CountBy
<1> QED BY <1>1, <1>3, <1>4, <1>5 DEF OwnersInv, Change, RowsBy

-----------------------------------------------------------------------------
(* What the SQL statements do to rows and counts *)
LEMMA RowsSame ==
    ASSUME OwnersInv, NEW w \in Workers, UNCHANGED user_file_list
    PROVE  RowsBy(w, 0)
<1>1. \A m : Owners(m)' = Owners(m) /\ Cardinality(Owners(m)) \in Nat
  BY ClaimsAre, RowsFinite DEF OwnersInv
<1> QED BY <1>1 DEF RowsBy, OwnersInv

LEMMA RowAdded ==
    ASSUME OwnersInv, NEW w \in Workers, AddUserRow(w)
    PROVE  RowsBy(w, 1)
<1>1. PICK r : r \notin user_file_list /\ r.md5 = req[w].md5 /\ user_file_list' = user_file_list \cup {r}
  BY DEF AddUserRow, FreshRowIds
<1>2. IsFiniteSet(user_file_list')
  BY <1>1, FS_AddElement DEF OwnersInv
<1>3. ASSUME NEW m \in Md5s, m = req[w].md5
      PROVE  Cardinality(Owners(m)') <= Cardinality(Owners(m)) + 1
  <2>1. RowsOf(user_file_list', m) = RowsOf(user_file_list, m) \cup {r} /\ r \notin RowsOf(user_file_list, m)
    BY <1>1, <1>3 DEF RowsOf
  <2>2. IsFiniteSet(RowsOf(user_file_list, m)) /\ Cardinality(RowsOf(user_file_list, m)) \in Nat
    BY RowsFinite DEF OwnersInv
  <2>3. Cardinality(RowsOf(user_file_list', m)) = Cardinality(RowsOf(user_file_list, m)) + 1
    BY <2>1, <2>2, FS_AddElement
  <2> QED BY <2>2, <2>3, ClaimsAre
<1>4. \A m \in Md5s : m # req[w].md5 => Owners(m)' = Owners(m)
  BY <1>1 DEF Owners
<1> QED BY <1>1, <1>2, <1>3, <1>4 DEF RowsBy

LEMMA RowsGone ==
    ASSUME OwnersInv, NEW w \in Workers, OwnRows(w) # {},
           user_file_list' = user_file_list \ OwnRows(w)
    PROVE  RowsBy(w, -1)
<1>1. IsFiniteSet(user_file_list) /\ IsFiniteSet(user_file_list')
  BY FS_Difference DEF OwnersInv
<1>2. ASSUME NEW m \in Md5s, m = req[w].md5
      PROVE  Cardinality(Owners(m)') <= Cardinality(Owners(m)) - 1
  <2>1. PICK r : r \in RowsOf(user_file_list, m) /\ r \notin RowsOf(user_file_list', m)
    BY <1>2 DEF OwnRows, RowsOf
  <2>2. RowsOf(user_file_list', m) \subseteq RowsOf(user_file_list, m) \ {r}
    BY <2>1 DEF RowsOf
  <2>3. IsFiniteSet(RowsOf(user_file_list, m)) /\ Cardinality(RowsOf(user_file_list, m)) \in Nat
    BY <1>1, RowsFinite
  <2>4. /\ IsFiniteSet(RowsOf(user_file_list, m) \ {r})
        /\ Cardinality(RowsOf(user_file_list, m) \ {r}) = Cardinality(RowsOf(user_file_list, m)) - 1
    BY <2>1, <2>3, FS_RemoveElement
  <2>5. Cardinality(RowsOf(user_file_list', m)) <= Cardinality(RowsOf(user_file_list, m) \ {r})
    BY <2>2, <2>4, FS_Subset
  <2> QED BY <2>4, <2>5, ClaimsAre
<1>3. \A m \in Md5s : m # req[w].md5 => Owners(m)' = Owners(m)
  BY DEF Owners, OwnRows
<1>4. ASSUME NEW m \in Md5s, m = req[w].md5
      PROVE  Cardinality(Owners(m)') <= Cardinality(Owners(m)) + (-1)
  <2>1. Cardinality(Owners(m)) \in Nat /\ Cardinality(Owners(m)') \in Nat
    BY <1>1, ClaimsAre, RowsFinite
  <2> QED BY <1>2, <1>4, <2>1
<1> QED BY <1>1, <1>3, <1>4 DEF RowsBy

LEMMA CountSame ==
    ASSUME TypeOK, NEW w \in Workers, UNCHANGED file_info
    PROVE  CountBy(w, 0)
BY DEF CountBy, CountOf, Registered, TypeOK, InfoRow

LEMMA CountBumped ==
    ASSUME TypeOK, NEW w \in Workers, pc[w] # "idle", file_info' = Bumped(req[w].md5)
    PROVE  CountBy(w, 0) /\ (Registered(req[w].md5) => CountBy(w, 1))
<1>k. PICK k \in Md5s : k = req[w].md5
  BY DEF TypeOK, Request
<1>1. CASE Registered(k)
  <2>1. file_info[k] \in InfoRow
    BY <1>1 DEF TypeOK, Registered
  <2>2. [file_info[k] EXCEPT !.count = @ + 1] \in InfoRow
    BY <2>1 DEF InfoRow
  <2>3. /\ file_info'[k] = [file_info[k] EXCEPT !.count = @ + 1]
        /\ \A m \in Md5s \ {k} : file_info'[m] = file_info[m]
    BY <1>k, <1>1 DEF Bumped, TypeOK
  <2>4. file_info'[k] # NoRow /\ file_info'[k].count = file_info[k].count + 1 /\ file_info[k].count \in Nat
    BY <2>1, <2>2, <2>3, TablesAssumption DEF InfoRow
  <2>5. CountOf(k)' = CountOf(k) + 1 /\ CountOf(k) \in Nat
    BY <1>1, <2>4 DEF CountOf, Registered
  <2>6. \A m \in Md5s : m # k => CountOf(m)' = CountOf(m)
    BY <2>3 DEF CountOf, Registered
  <2>7. \A m \in Md5s : Registered(m) => Registered(m)'
    BY <2>3, <2>4 DEF Registered
  <2> QED BY <1>k, <2>5, <2>6, <2>7 DEF CountBy
<1>2. CASE ~Registered(k)
  <2>1. UNCHANGED file_info
    BY <1>k, <1>2 DEF Bumped
  <2> QED BY <1>k, <1>2, <2>1, CountSame
<1> QED BY <1>1, <1>2

LEMMA CountInserted ==
    ASSUME TypeOK, NEW w \in Workers, ~Registered(req[w].md5), pc[w] = "up_insert",
           file_info' = [file_info EXCEPT ![req[w].md5] = [count |-> 1, file_id |-> obj[w]]]
    PROVE  CountBy(w, 1)
<1>k. PICK k \in Md5s : k = req[w].md5
  BY DEF TypeOK, Request
<1>1. [count |-> 1, file_id |-> obj[w]] \in InfoRow
  BY DEF TypeOK, ObjSteps, InfoRow
<1>2. /\ file_info'[k] = [count |-> 1, file_id |-> obj[w]]
      /\ \A m \in Md5s \ {k} : file_info'[m] = file_info[m]
  BY <1>k DEF TypeOK
<1>3. file_info'[k] # NoRow /\ file_info'[k].count = 1
  BY <1>1, <1>2, TablesAssumption
<1>4. CountOf(k)' = 1 /\ CountOf(k) = 0
  BY <1>k, <1>3 DEF CountOf, Registered
<1>5. \A m \in Md5s : /\ m # k => CountOf(m)' = CountOf(m)
                      /\ Registered(m) => Registered(m)'
  BY <1>2, <1>3 DEF CountOf, Registered
<1> QED BY <1>k, <1>4, <1>5 DEF CountBy

LEMMA CountDecremented ==
    ASSUME TypeOK, CountStillRead, NEW w \in Workers, pc[w] = "del_dec",
           file_info' = [file_info EXCEPT ![req[w].md5].count = @ - 1]
    PROVE  CountBy(w, -1)
<1>k. PICK k \in Md5s : k = req[w].md5
  BY DEF TypeOK, Request
<1>1. Registered(k) /\ file_info[k] \in InfoRow /\ file_info[k].count > 1
  BY <1>k DEF CountStillRead, TypeOK, Registered, InfoRow
<1>2. [file_info[k] EXCEPT !.count = @ - 1] \in InfoRow
  BY <1>1 DEF InfoRow
<1>3. /\ file_info'[k] = [file_info[k] EXCEPT !.count = @ - 1]
      /\ \A m \in Md5s \ {k} : file_info'[m] = file_info[m]
  BY <1>k DEF TypeOK
<1>4. file_info'[k] # NoRow /\ file_info'[k].count = file_info[k].count - 1 /\ file_info[k].count \in Nat
  BY <1>1, <1>2, <1>3, TablesAssumption DEF InfoRow
<1>5. CountOf(k)' >= CountOf(k) + (-1)
  BY <1>1, <1>4 DEF CountOf, Registered
<1>6. \A m \in Md5s : /\ m # k => CountOf(m)' = CountOf(m)
                      /\ Registered(m) => Registered(m)'
  <2>1. ASSUME NEW m \in Md5s \ {k}
        PROVE  (Registered(m) => Registered(m)') /\ CountOf(m)' = CountOf(m)
    <3>1. file_info'[m] = file_info[m]
      BY <1>3
    <3> QED BY ONLY <3>1 DEF CountOf, Registered
  <2>2. Registered(k)'
    BY <1>4 DEF Registered
  <2> QED BY <2>1, <2>2
<1> QED BY <1>k, <1>5, <1>6 DEF CountBy

-----------------------------------------------------------------------------
(* The steps *)
LEMMA ReplyChange ==
    ASSUME TypeOK, NEW w \in Workers, pc[w] # "idle", UNCHANGED req, NEW o \in Int, NEW n \in Int,
           RowsBy(w, o), CountBy(w, n), NEW code, Reply(w, code), o - Claim(pc[w]) <= n
    PROVE  Change(w, "idle", o, n)
<1>1. Claim("idle") = 0 /\ Claim(pc[w]) \in Int
  BY DEF Claim, ClaimSteps
<1> QED BY <1>1, ReplyPc DEF Change

LEMMA GotoChange ==
    ASSUME NEW w \in Workers, pc[w] # "idle", UNCHANGED req, NEW o \in Int, NEW n \in Int,
           RowsBy(w, o), CountBy(w, n), NEW l, Goto(w, l), l \notin {"del_rows", "up_bump"},
           o + Claim(l) - Claim(pc[w]) <= n
    PROVE  Change(w, l, o, n)
BY DEF Change, Goto

Changed(w) == \E l : \E o, n \in Int : Change(w, l, o, n)

LEMMA LockChange ==
    ASSUME TypeOK, OwnersInv, NEW w \in Workers, AcquireLock(w) \/ LockTimeout(w)
    PROVE  Changed(w)
<1>0. RowsBy(w, 0) /\ CountBy(w, 0) /\ UNCHANGED req /\ pc[w] # "idle"
  BY RowsSame, CountSame DEF AcquireLock, LockTimeout, tables, WaitSteps
<1>1. CASE AcquireLock(w)
  <2>1. /\ Goto(w, AfterLock[pc[w]]) /\ AfterLock[pc[w]] \notin {"del_rows", "up_bump"}
        /\ Claim(AfterLock[pc[w]]) = Claim(pc[w])
    BY <1>1 DEF AcquireLock, AfterLock, WaitSteps, Claim, ClaimSteps
  <2>2. Claim(pc[w]) \in Int
    BY DEF Claim
  <2> QED BY <1>0, <2>1, <2>2, GotoChange DEF Changed
<1>2. ASSUME NEW code, Reply(w, code) PROVE Changed(w)
  <2>1. 0 - Claim(pc[w]) <= 0
    BY DEF Claim
  <2> QED BY <1>0, <1>2, <2>1, ReplyChange DEF Changed
<1>3. CASE pc[w] = "up_lock" /\ Goto(w, "up_drop")
  <2>1. Claim("up_drop") = 0 /\ Claim(pc[w]) = 0
    BY <1>3 DEF Claim, ClaimSteps
  <2> QED BY <1>0, <1>3, <2>1, GotoChange DEF Changed
<1> QED BY <1>1, <1>2, <1>3 DEF LockTimeout

LEMMA UploadChange ==
    ASSUME TypeOK, OwnersInv, InTurn, NEW w \in Workers,
           \/ UploadPut(w) \/ UploadUrl(w) \/ UploadInsert(w) \/ UploadBump(w)
           \/ UploadUserRow(w) \/ UploadDrop(w)
    PROVE  Changed(w)
<1> USE DEF tables
<1>0. UNCHANGED req /\ pc[w] # "idle"
  BY DEF UploadPut, UploadUrl, UploadInsert, UploadBump, UploadUserRow, UploadDrop
<1>a. Claim(pc[w]) \in {0, 1}
  BY DEF Claim
<1>1. CASE UploadPut(w) \/ UploadUrl(w) \/ UploadDrop(w)
  <2>1. RowsBy(w, 0) /\ CountBy(w, 0)
    BY <1>1, RowsSame, CountSame DEF UploadPut, UploadUrl, UploadDrop
  <2>2. CASE \E code : Reply(w, code)
    BY <1>0, <1>a, <2>1, <2>2, ReplyChange DEF Changed
  <2>3. CASE \E l \in {"up_url", "up_lock"} : Goto(w, l)
    <3>1. PICK l \in {"up_url", "up_lock"} : Goto(w, l) /\ Claim(l) = 0
      BY <2>3 DEF Claim, ClaimSteps
    <3> QED BY <1>0, <1>a, <2>1, <3>1, GotoChange DEF Changed
  <2> QED BY <1>1, <2>2, <2>3 DEF UploadPut, UploadUrl, UploadDrop
<1>2. CASE UploadInsert(w)
  <2>1. RowsBy(w, 0) /\ Claim(pc[w]) = 0 /\ Claim("up_user") = 1 /\ Claim("up_bump") = 0
    BY <1>2, RowsSame DEF UploadInsert, Claim, ClaimSteps
  <2>2. CASE Registered(req[w].md5) /\ Goto(w, "up_bump") /\ UNCHANGED file_info
    <3>1. CountBy(w, 0)
      BY <2>2, CountSame
    <3>2. Change(w, "up_bump", 0, 0)
      BY <1>0, <2>1, <2>2, <3>1 DEF Change, Goto
    <3> QED BY <3>2 DEF Changed
  <2>3. CASE /\ ~Registered(req[w].md5) /\ Goto(w, "up_user")
             /\ file_info' = [file_info EXCEPT ![req[w].md5] = [count |-> 1, file_id |-> obj[w]]]
    <3>1. CountBy(w, 1)
      BY <1>2, <2>3, CountInserted DEF UploadInsert
    <3> QED BY <1>0, <2>1, <2>3, <3>1, GotoChange DEF Changed
  <2> QED BY <1>2, <2>2, <2>3 DEF UploadInsert, CanFail, InTurn
<1>3. CASE UploadBump(w)
  <2>1. RowsBy(w, 0) /\ Claim(pc[w]) = 0 /\ Claim("up_user") = 1 /\ Claim("up_drop") = 0
    BY <1>3, RowsSame DEF UploadBump, Claim, ClaimSteps
  <2>2. CASE file_info' = Bumped(req[w].md5) /\ Goto(w, "up_user")
    <3>1. CountBy(w, 1)
      BY <1>0, <1>3, <2>2, CountBumped DEF UploadBump, OwnersInv, KnownFile
    <3> QED BY <1>0, <2>1, <2>2, <3>1, GotoChange DEF Changed
  <2>3. CASE UNCHANGED file_info /\ Goto(w, "up_drop")
    BY <1>0, <2>1, <2>3, CountSame, GotoChange DEF Changed
  <2> QED BY <1>3, <2>2, <2>3 DEF UploadBump
<1>4. CASE UploadUserRow(w)
  <2>1. CountBy(w, 0) /\ Claim(pc[w]) = 1 /\ Claim("up_drop") = 0
    BY <1>4, CountSame DEF UploadUserRow, Claim, ClaimSteps
  <2>2. PICK o \in {0, 1} : RowsBy(w, o)
    BY <1>4, RowsSame, RowAdded DEF UploadUserRow
  <2>3. CASE \E code : Reply(w, code)
    <3>1. o \in Int /\ o - Claim(pc[w]) <= 0
      BY <2>1, <2>2
    <3>2. Change(w, "idle", o, 0)
      BY <1>0, <2>1, <2>2, <2>3, <3>1, ReplyChange
    <3> QED BY <3>1, <3>2 DEF Changed
  <2>4. CASE Goto(w, "up_drop")
    BY <1>0, <2>1, <2>2, <2>4, GotoChange DEF Changed
  <2> QED BY <1>4, <2>3, <2>4 DEF UploadUserRow
<1> QED BY <1>1, <1>2, <1>3, <1>4

LEMMA Md5SaveChange ==
    ASSUME TypeOK, OwnersInv, NEW w \in Workers,
           Md5Check(w) \/ Md5Bump(w) \/ SaveCheck(w) \/ SaveBump(w) \/ SaveInsert(w)
    PROVE  Changed(w)
<1> USE DEF tables
<1>0. UNCHANGED req /\ pc[w] # "idle"
  BY DEF Md5Check, Md5Bump, SaveCheck, SaveBump, SaveInsert
<1>a. Claim(pc[w]) \in {0, 1}
  BY DEF Claim
<1>1. CASE Md5Check(w) \/ SaveCheck(w)
  <2>1. RowsBy(w, 0) /\ CountBy(w, 0)
    BY <1>1, RowsSame, CountSame DEF Md5Check, SaveCheck
  <2>2. CASE \E code : Reply(w, code)
    BY <1>0, <1>a, <2>1, <2>2, ReplyChange DEF Changed
  <2>3. CASE \E l \in {"md5_lock", "save_lock"} : Goto(w, l)
    <3>1. PICK l \in {"md5_lock", "save_lock"} : Goto(w, l) /\ Claim(l) = 0
      BY <2>3 DEF Claim, ClaimSteps
    <3> QED BY <1>0, <1>a, <2>1, <3>1, GotoChange DEF Changed
  <2> QED BY <1>1, <2>2, <2>3 DEF Md5Check, SaveCheck
<1>2. CASE Md5Bump(w)
  <2>1. RowsBy(w, 0) /\ CountBy(w, 0)
    BY <1>0, <1>2, RowsSame, CountSame, CountBumped DEF Md5Bump
  <2> QED BY <1>0, <1>2, <1>a, <2>1, ReplyChange DEF Md5Bump, Changed
<1>3. CASE SaveBump(w)
  <2>1. RowsBy(w, 0) /\ Claim(pc[w]) = 0 /\ Claim("save_insert") = 1
    BY <1>3, RowsSame DEF SaveBump, Claim, ClaimSteps
  <2>2. CASE /\ Registered(req[w].md5) /\ file_info' = Bumped(req[w].md5)
             /\ Goto(w, "save_insert")
    <3>1. CountBy(w, 1)
      BY <1>0, <2>2, CountBumped
    <3> QED BY <1>0, <2>1, <2>2, <3>1, GotoChange DEF Changed
  <2>3. CASE UNCHANGED file_info /\ \E code : Reply(w, code)
    BY <1>0, <1>a, <2>1, <2>3, CountSame, ReplyChange DEF Changed
  <2> QED BY <1>3, <2>2, <2>3 DEF SaveBump
<1>4. CASE SaveInsert(w)
  <2>1. CountBy(w, 0) /\ Claim(pc[w]) = 1
    BY <1>4, CountSame DEF SaveInsert, Claim, ClaimSteps
  <2>2. PICK o \in {0, 1} : RowsBy(w, o)
    BY <1>4, RowsSame, RowAdded DEF SaveInsert
  <2>3. \E code : Reply(w, code)
    BY <1>4 DEF SaveInsert
  <2>4. o \in Int /\ o - Claim(pc[w]) <= 0
    BY <2>1, <2>2
  <2>5. Change(w, "idle", o, 0)
    BY <1>0, <2>1, <2>2, <2>3, <2>4, ReplyChange
  <2> QED BY <2>4, <2>5 DEF Changed
<1> QED BY <1>1, <1>2, <1>3, <1>4

LEMMA DeleteChange ==
    ASSUME TypeOK, CountStillRead, OwnersInv, NEW w \in Workers, ~ProcessDies,
           \/ DeleteCheck(w) \/ DeleteRows(w) \/ DeleteRead(w)
           \/ DeleteDecrement(w) \/ DeleteRemove(w)
    PROVE  Changed(w)
<1> USE DEF tables
<1>0. UNCHANGED req /\ pc[w] # "idle"
  BY DEF DeleteCheck, DeleteRows, DeleteRead, DeleteDecrement, DeleteRemove
<1>a. Claim(pc[w]) \in {0, 1}
  BY DEF Claim
<1>1. CASE DeleteCheck(w)
  <2>1. RowsBy(w, 0) /\ CountBy(w, 0)
    BY <1>1, RowsSame, CountSame DEF DeleteCheck
  <2>2. CASE \E code : Reply(w, code)
    BY <1>0, <1>a, <2>1, <2>2, ReplyChange DEF Changed
  <2>3. CASE OwnRows(w) # {} /\ Goto(w, "del_rows") /\ UNCHANGED tables
    <3>1. Claim("del_rows") = 0
      BY DEF Claim, ClaimSteps
    <3>2. Change(w, "del_rows", 0, 0)
      BY <1>0, <1>a, <2>1, <2>3, <3>1 DEF Change, Goto
    <3> QED BY <3>2 DEF Changed
  <2> QED BY <1>1, <2>2, <2>3 DEF DeleteCheck
<1>2. CASE DeleteRows(w)
  <2>1. CountBy(w, 0) /\ Claim(pc[w]) = 0 /\ Claim("del_lock") = 1
    BY <1>2, CountSame DEF DeleteRows, Claim, ClaimSteps
  <2>2. CASE user_file_list' = user_file_list \ OwnRows(w) /\ Goto(w, "del_lock")
    <3>1. RowsBy(w, -1)
      BY <1>2, <2>2, RowsGone DEF DeleteRows, OwnersInv, StillThere
    <3>2. Change(w, "del_lock", -1, 0)
      BY <1>0, <2>1, <2>2, <3>1, GotoChange
    <3> QED BY <3>2 DEF Changed
  <2>3. CASE UNCHANGED user_file_list /\ \E code : Reply(w, code)
    <3>1. RowsBy(w, 0) /\ 0 - Claim(pc[w]) <= 0
      BY <2>1, <2>3, RowsSame
    <3>2. Change(w, "idle", 0, 0)
      BY <1>0, <2>1, <2>3, <3>1, ReplyChange
    <3> QED BY <3>2 DEF Changed
  <2> QED BY <1>2, <2>2, <2>3 DEF DeleteRows
<1>3. CASE DeleteRead(w) \/ DeleteRemove(w)
  <2>1. RowsBy(w, 0) /\ CountBy(w, 0)
    BY <1>3, RowsSame, CountSame DEF DeleteRead, DeleteRemove
  <2>2. CASE \E code : Reply(w, code)
    BY <1>0, <1>a, <2>1, <2>2, ReplyChange DEF Changed
  <2>3. CASE pc[w] = "del_read" /\ \E l \in {"del_dec", "del_remove"} : Goto(w, l)
    <3>1. PICK l \in {"del_dec", "del_remove"} : Goto(w, l)
      BY <2>3
    <3>2. Claim(l) \in {0, 1} /\ Claim(pc[w]) = 1
      BY <2>3 DEF Claim, ClaimSteps
    <3> QED BY <1>0, <2>1, <3>1, <3>2, GotoChange DEF Changed
  <2> QED BY <1>3, <2>2, <2>3 DEF DeleteRead, DeleteRemove
<1>4. CASE DeleteDecrement(w)
  <2>1. RowsBy(w, 0) /\ Claim(pc[w]) = 1
    BY <1>4, RowsSame DEF DeleteDecrement, Claim, ClaimSteps
  <2>2. CountBy(w, -1) \/ CountBy(w, 0)
    BY <1>4, CountSame, CountDecremented DEF DeleteDecrement
  <2>3. PICK n \in {-1, 0} : CountBy(w, n)
    BY <2>2
  <2>4. \E code : Reply(w, code)
    BY <1>4 DEF DeleteDecrement
  <2>5. n \in Int /\ 0 - Claim(pc[w]) <= n
    BY <2>1, <2>3
  <2>6. Change(w, "idle", 0, n)
    BY <1>0, <2>1, <2>3, <2>4, <2>5, ReplyChange
  <2> QED BY <2>5, <2>6 DEF Changed
<1> QED BY <1>1, <1>2, <1>3, <1>4

LEMMA BeginKeeps ==
    ASSUME TypeOK, OwnersInv, InTurn, NEW w \in Workers, Begin(w)
    PROVE  OwnersInv'
<1>1. PICK op \in OpKinds, u \in Users, m \in Md5s, n \in Names :
        /\ pc[w] = "idle" /\ Goto(w, FirstStep[op])
        /\ \A v \in Busy : req[v].user # u
        /\ req' = [req EXCEPT ![w] = [op |-> op, user |-> u, md5 |-> m, name |-> n]]
  BY DEF Begin, InTurn
<1>2. FirstStep[op] \in {"up_put", "md5_check", "save_check", "del_check"}
  BY DEF OpKinds, FirstStep
<1>3. /\ pc'[w] \in {"up_put", "md5_check", "save_check", "del_check"} /\ req'[w].user = u
      /\ \A v \in Workers : v # w => pc'[v] = pc[v] /\ req'[v] = req[v]
  BY <1>1, <1>2 DEF Goto, TypeOK
<1>4. UNCHANGED <<user_file_list, file_info>>
  BY DEF Begin, tables
<1>5. OneEach'
  BY <1>1, <1>3 DEF OwnersInv, OneEach, Busy
<1>6. StillThere' /\ KnownFile'
  BY <1>3, <1>4 DEF OwnersInv, StillThere, KnownFile, OwnRows, Registered
<1>7. \A k \in Md5s : Claims(k)' = Claims(k) /\ Owners(k)' = Owners(k) /\ CountOf(k)' = CountOf(k)
  BY <1>1, <1>3, <1>4 DEF Claims, Busy, Owners, CountOf, Registered
<1> QED BY <1>4, <1>5, <1>6, <1>7 DEF OwnersInv, Covered

LEMMA DiesKeeps ==
    ASSUME TypeOK, TypeOK', OwnersInv, ProcessDies
    PROVE  OwnersInv'
<1>1. UNCHANGED tables /\ \A w \in Workers : pc'[w] = "idle"
  BY DEF ProcessDies
<1>2. ASSUME NEW k \in Md5s
      PROVE  Cardinality(Owners(k)') + Cardinality(Claims(k)') <= CountOf(k)'
  <2>1. Claims(k)' = {} /\ Cardinality(Claims(k)') = 0
    BY <1>1, FS_EmptySet DEF Claims, Busy
  <2>2. Owners(k)' = Owners(k) /\ CountOf(k)' = CountOf(k)
    BY <1>1 DEF tables, Owners, CountOf, Registered
  <2>3. /\ Cardinality(Owners(k)) \in Nat /\ Cardinality(Claims(k)) \in Nat
        /\ CountOf(k) \in Nat
    BY ClaimsAre, ClaimsFinite, RowsFinite, CountType DEF OwnersInv
  <2> QED BY <2>1, <2>2, <2>3 DEF OwnersInv, Covered
<1> QED BY <1>1, <1>2 DEF OwnersInv, OneEach, StillThere, KnownFile, Covered, tables

LEMMA NextOwners ==
    ASSUME CountInv, CountInv', InTurn, OwnersInv, [Next /\ UNCHANGED env]_vars
    PROVE  OwnersInv'
<1>0. TypeOK /\ TypeOK' /\ CountStillRead
  BY DEF CountInv
<1>1. CASE UNCHANGED changing
  <2>1. UNCHANGED <<file_info, user_file_list, pc, req>>
    BY <1>1 DEF changing
  <2>2. /\ \A m : Owners(m)' = Owners(m) /\ Claims(m)' = Claims(m) /\ CountOf(m)' = CountOf(m)
        /\ \A m : Registered(m)' = Registered(m)
    BY <2>1 DEF Owners, Claims, Busy, CountOf, Registered
  <2>3. \A w : OwnRows(w)' = OwnRows(w)
    BY <2>1 DEF OwnRows
  <2>4. Covered'
    BY <2>2 DEF OwnersInv, Covered
  <2>5. OneEach' /\ StillThere' /\ KnownFile'
    BY <2>1, <2>2, <2>3 DEF OwnersInv, OneEach, StillThere, KnownFile
  <2> QED BY <2>1, <2>4, <2>5 DEF OwnersInv
<1>2. CASE ProcessDies
  BY <1>0, <1>2, DiesKeeps
<1>3. ASSUME NEW w \in Workers, Step(w), ~ProcessDies PROVE OwnersInv'
  <2>1. Changed(w)
    BY <1>0, <1>3, LockChange, UploadChange, Md5SaveChange, DeleteChange DEF Step
  <2> QED BY <1>0, <2>1, ChangeKeeps DEF Changed
<1> QED BY <1>0, <1>1, <1>2, <1>3, BeginKeeps DEF Next, vars, Crash

LEMMA InitOwners == Init => OwnersInv
<1> SUFFICES ASSUME Init PROVE OwnersInv
  OBVIOUS
<1>1. \A m \in Md5s : Owners(m) = {} /\ Claims(m) = {} /\ CountOf(m) = 0
  BY DEF Init, Owners, Claims, Busy, CountOf, Registered
<1> QED BY <1>1, FS_EmptySet DEF Init, OwnersInv, OneEach, StillThere, KnownFile, Covered

(* For any number of users, contents and workers, the count of a file never falls
   below the rows and requests it stands for, crashes included. *)
THEOREM CountCovers == Spec => []CountCoversOwners
<1> DEFINE Inv == InTurn => OwnersInv
<1>1. Init => Inv
  BY InitOwners
<1>2. CountInv /\ CountInv' /\ Inv /\ [Next /\ UNCHANGED env]_vars => Inv'
  <2> SUFFICES ASSUME CountInv, CountInv', Inv, [Next /\ UNCHANGED env]_vars, InTurn'
               PROVE  OwnersInv'
    OBVIOUS
  <2>1. InTurn
    BY DEF InTurn, vars
  <2> QED BY <2>1, NextOwners
<1>3. Inv => CountCoversOwners
  BY DEF InTurn, OwnersInv, Covered, CountOf, CountCoversOwners
<1> QED BY <1>1, <1>2, <1>3, CountInvariant, PTL DEF Spec
=============================================================================
