----------------------------- MODULE SharingProofs ----------------------------
(***************************************************************************)
(* What MySQL and redis keep in step when requests come one after the      *)
(* other, for any number of users, files and threads, with failing         *)
(* statements, a redis that loses its data, and the refresh of the cached  *)
(* list under way at any time.                                             *)
(***************************************************************************)
EXTENDS Sharing, FiniteSetTheorems, TLAPS

(* One request at a time, and only statements fail. *)
Calm == env.serial /\ env.faults \subseteq {"update", "flush"}

IsRow(r) == DOMAIN r = {"user", "file", "pv", "n"} /\ r.pv \in Nat
RowsSound ==
    /\ \A r \in rows : IsRow(r)
    /\ \A r, s \in rows : r.file = s.file => r = s
Busy(w, S, f) == pc[w] \in S /\ F(w) = f
RankSound ==
    /\ \A f \in DOMAIN zset : zset[f] \in Nat
    /\ \A f \in DOMAIN zset :
          f \in SharedFiles \/ \E w \in Workers : Busy(w, {"cancel: forget", "cancel: rank"}, f)
    /\ \A f \in DOMAIN zset :
          f \in hash \/ \E w \in Workers : Busy(w, {"share: name", "pv: name", "list: load name"}, f)
    /\ \A r \in rows : r.file \in DOMAIN zset => zset[r.file] <= r.pv

Shared(w) == F(w) \in SharedFiles
Unranked(w) == F(w) \notin DOMAIN zset
Counting == {"pv: forget", "pv: look", "pv: add", "pv: incr"}
Knows(w) ==
    /\ pc[w] \in {"share: mark", "share: insert"} => ~Shared(w)
    /\ pc[w] \in {"share: forget", "share: rank"} => Shared(w)
    /\ pc[w] \in Counting \cup {"pv: write"} => Shared(w) /\ num[w] \in Nat
    /\ pc[w] = "pv: write" => \A r \in RowsOf(F(w)) : r.pv = num[w]
    /\ pc[w] \in Counting => \A r \in RowsOf(F(w)) : r.pv = num[w] + 1
    /\ pc[w] \in {"pv: write", "pv: forget", "pv: look", "pv: incr"} => Unranked(w) \/ zset[F(w)] <= num[w]
    /\ pc[w] = "pv: incr" => ~Unranked(w)
    /\ pc[w] \in {"cancel: name", "delete: name", "delete: row"} => Unranked(w)
    /\ pc[w] = "list: drop names" => DOMAIN zset = {}
    /\ pc[w] \in {"list: load", "list: load name"} => todo[w] \subseteq rows

Shapes ==
    /\ DOMAIN pc = Threads /\ DOMAIN req = Threads /\ DOMAIN num = Threads /\ DOMAIN todo = Threads
    /\ \A w \in Threads : "file" \in DOMAIN req[w]
SharingInv ==
    /\ Shapes
    /\ \A v, w \in Workers : ~Idle(v) /\ ~Idle(w) => v = w
    /\ RowsSound /\ RankSound /\ \A w \in Workers : Knows(w)

LEMMA SharingInit == Init /\ Calm => SharingInv
<1> SUFFICES ASSUME Init, Calm PROVE SharingInv
  OBVIOUS
<1>1. PICK owner \in env.users :
          rows = {[user |-> owner, file |-> f, pv |-> 0, n |-> 1] : f \in env.shared}
  BY DEF Init
<1>2. Shapes /\ \A w \in Workers : pc[w] = "idle"
  BY DEF Init, Shapes, Threads
<1>3. RowsSound
  BY <1>1 DEF RowsSound, IsRow
<1>4. RankSound
  <2>1. zset = [f \in env.shared |-> 0] /\ hash = env.shared
    BY DEF Init
  <2>2. ASSUME NEW f \in env.shared PROVE f \in SharedFiles
    <3>1. [user |-> owner, file |-> f, pv |-> 0, n |-> 1] \in rows
      BY <1>1
    <3> QED BY <3>1 DEF SharedFiles
  <2>3. \A r \in rows : r.pv = 0
    BY <1>1
  <2>4. DOMAIN zset = env.shared /\ \A f \in DOMAIN zset : zset[f] = 0
    BY <2>1
  <2>5. \A r \in rows : r.file \in DOMAIN zset => zset[r.file] <= r.pv
    BY <2>3, <2>4
  <2> QED BY <2>1, <2>2, <2>4, <2>5 DEF RankSound
<1>5. \A w \in Workers : Knows(w)
  BY <1>2 DEF Knows, Counting
<1> QED BY <1>2, <1>3, <1>4, <1>5 DEF SharingInv, Idle

-----------------------------------------------------------------------------
(* The one request under way takes a step *)
Alone(w) == w \in Workers /\ SharingInv /\ Calm /\ \A v \in Workers \ {w} : Idle(v)
OthersStay(w) == \A v \in Threads \ {w} : pc'[v] = pc[v] /\ req'[v] = req[v]

LEMMA Active ==
    ASSUME SharingInv, Calm, NEW w \in Workers, ~Idle(w)
    PROVE  Alone(w)
BY DEF SharingInv, Alone

LEMMA Settle ==
    ASSUME NEW w \in Workers, Alone(w), OthersStay(w), Shapes', RowsSound', RankSound', Knows(w)'
    PROVE  SharingInv'
<1>1. \A v \in Workers \ {w} : pc'[v] = "idle"
  BY DEF Alone, OthersStay, Idle, Threads
<1>2. \A v \in Workers \ {w} : Knows(v)'
  BY <1>1 DEF Knows, Counting
<1> QED BY <1>1, <1>2 DEF SharingInv, Idle

LEMMA NextFacts ==
    ASSUME Shapes, NEW w \in Threads, NEW step, Next_(w, step)
    PROVE  /\ Shapes' /\ OthersStay(w) /\ pc'[w] = step
           /\ step # "idle" => UNCHANGED <<req, num, todo>>
<1>1. CASE step = "idle"
  BY <1>1 DEF Next_, Done, Go, Shapes, OthersStay
<1>2. CASE step # "idle"
  BY <1>2 DEF Next_, Go, Shapes, OthersStay, locals
<1> QED BY <1>1, <1>2

LEMMA DoneFacts ==
    ASSUME Shapes, NEW w \in Threads, Done(w)
    PROVE  Shapes' /\ OthersStay(w) /\ pc'[w] = "idle"
BY DEF Done, Go, Shapes, OthersStay

(* nothing but the place of the request changes *)
CancelExempt == {"cancel: forget", "cancel: rank"}
NameExempt == {"share: name", "pv: name", "list: load name"}
LEMMA QuietStep ==
    ASSUME NEW w \in Workers, Alone(w), UNCHANGED <<rows, zset, hash>>,
           OthersStay(w), Shapes', Knows(w)', pc[w] \notin NameExempt,
           pc[w] \in CancelExempt => pc'[w] \in CancelExempt /\ UNCHANGED req
    PROVE  SharingInv'
<1>1. RowsSound'
  BY DEF Alone, SharingInv, RowsSound
<1>2. RankSound'
  <2>1. RankSound /\ \A v \in Workers : v = w \/ pc[v] = "idle"
    BY DEF Alone, SharingInv, Idle
  <2>2. ASSUME NEW f \in DOMAIN zset PROVE f \in SharedFiles \/ \E v \in Workers : Busy(v, CancelExempt, f)'
    <3>1. CASE Busy(w, CancelExempt, f)
      BY <3>1 DEF Busy, CancelExempt, F
    <3>2. CASE ~Busy(w, CancelExempt, f)
      BY <2>1, <2>2, <3>2 DEF RankSound, Busy, CancelExempt
    <3> QED BY <3>1, <3>2
  <2>3. ASSUME NEW f \in DOMAIN zset PROVE f \in hash
    BY <2>1, <2>3 DEF RankSound, Busy, NameExempt
  <2> QED BY <2>1, <2>2, <2>3 DEF RankSound, CancelExempt, SharedFiles
<1> QED BY <1>1, <1>2, Settle

(* a request begins when none is under way *)
LEMMA BeginStep ==
    ASSUME SharingInv, Calm, NEW w \in Workers, NEW op \in env.ops \ {"refresh"}, env \in Scenarios, Begin(w, op)
    PROVE  SharingInv'
<1>1. Alone(w) /\ pc[w] = "idle" /\ w \in Threads
  BY DEF Alone, Begin, Quiet, Calm, Idle, Threads
<1>2. FirstStep(op) \in {"obtain", "share: look", "cancel: mark", "delete: look", "pv: read", "list: get"}
  BY SharingAssumption DEF Scenario, OpNames, FirstStep
<1>3. PICK s \in {"obtain", "share: look", "cancel: mark", "delete: look", "pv: read", "list: get"} :
          pc' = [pc EXCEPT ![w] = s]
  BY <1>2 DEF Begin, Go
<1>4. Shapes' /\ OthersStay(w) /\ pc'[w] = s /\ UNCHANGED <<rows, zset, hash>>
  <2>1. PICK u \in env.users, f \in env.files : req' = [req EXCEPT ![w] = [user |-> u, file |-> f]]
    BY DEF Begin
  <2>2. Shapes'
    BY <1>1, <1>3, <2>1 DEF Begin, Alone, SharingInv, Shapes, locals
  <2> QED BY <1>1, <1>3, <2>1, <2>2 DEF Begin, Alone, SharingInv, Shapes, OthersStay, mysql, redis, locals
<1>5. Knows(w)'
  BY <1>4 DEF Knows, Counting
<1> QED BY <1>1, <1>4, <1>5, QuietStep DEF CancelExempt, NameExempt

LEMMA ObtainStep ==
    ASSUME NEW w \in Workers, Alone(w), Obtain(w)
    PROVE  SharingInv'
<1>0. Shapes /\ w \in Threads /\ pc[w] = "obtain"
  BY DEF Alone, SharingInv, Threads, Obtain, Statement, At
<1>1. Next_(w, "idle") \/ Done(w)
  BY DEF Obtain, Statement
<1>2. Shapes' /\ OthersStay(w) /\ pc'[w] = "idle"
  BY <1>0, <1>1, NextFacts, DoneFacts
<1>3. UNCHANGED <<rows, zset, hash>> /\ Knows(w)'
  BY <1>2 DEF Obtain, Statement, Knows, Counting, mysql, redis
<1> QED BY <1>0, <1>2, <1>3, QuietStep DEF CancelExempt, NameExempt

-----------------------------------------------------------------------------
(* Steps that only read, change a status, or drop the cached answer *)
LEMMA ShareReads ==
    ASSUME NEW w \in Workers, Alone(w),
           ShareLook(w) \/ ShareCheck(w) \/ ShareMark(w) \/ ShareForget(w)
    PROVE  SharingInv'
<1>0. Shapes /\ w \in Threads /\ Knows(w)
  BY DEF Alone, SharingInv, Threads
<1>1. UNCHANGED <<rows, zset, hash>>
  BY DEF ShareLook, ShareCheck, ShareMark, ShareForget, Test, Statement, Forget, SetStatus, mysql, redis
<1>2. /\ pc[w] \in {"share: look", "share: check", "share: mark", "share: forget"}
      /\ \E s \in {"idle", "share: check", "share: mark", "share: insert", "share: rank"} :
            /\ Next_(w, s)
            /\ s \in {"share: mark", "share: insert"} => ~Shared(w)
            /\ s = "share: rank" => Shared(w)
  <2>1. CASE ShareLook(w)
    BY <2>1 DEF ShareLook, Test, At
  <2>2. CASE ShareCheck(w)
    BY <2>2 DEF ShareCheck, Test, At, Alone, Calm, Fails, Shared, SharedFiles, RowsOf
  <2>3. CASE ShareMark(w)
    <3>1. Next_(w, "share: insert") \/ Done(w)
      BY <2>3 DEF ShareMark, Statement
    <3>2. Next_(w, "share: insert") \/ Next_(w, "idle")
      BY <3>1 DEF Next_
    <3> QED BY <1>0, <2>3, <3>2 DEF ShareMark, Statement, At, Knows
  <2>4. CASE ShareForget(w)
    BY <1>0, <2>4 DEF ShareForget, Forget, At, Knows
  <2> QED BY <2>1, <2>2, <2>3, <2>4
<1>3. PICK s \in {"idle", "share: check", "share: mark", "share: insert", "share: rank"} :
            /\ Next_(w, s)
            /\ s \in {"share: mark", "share: insert"} => ~Shared(w)
            /\ s = "share: rank" => Shared(w)
  BY <1>2
<1>4. Shapes' /\ OthersStay(w) /\ pc'[w] = s /\ (s # "idle" => UNCHANGED <<req, num, todo>>)
  BY <1>0, <1>3, NextFacts
<1>5. Knows(w)'
  BY <1>1, <1>3, <1>4 DEF Knows, Counting, Shared, SharedFiles, F
<1> QED BY <1>1, <1>2, <1>4, <1>5, QuietStep DEF CancelExempt, NameExempt

LEMMA RemovalReads ==
    ASSUME NEW w \in Workers, Alone(w),
           CancelMark(w) \/ CancelForget(w) \/ DeleteLook(w) \/ DeleteForget(w) \/ DeleteUserRow(w)
    PROVE  SharingInv'
<1> DEFINE From == {"cancel: mark", "cancel: forget", "delete: look", "delete: forget", "delete: user row"}
           To == {"idle", "cancel: row", "cancel: rank", "delete: forget", "delete: user row", "delete: rank"}
<1>0. Shapes /\ w \in Threads
  BY DEF Alone, SharingInv, Threads
<1>1. ~DeleteLook(w) \/ ~Die \/ \E s \in To : Next_(w, s)
  BY DEF DeleteLook, Alone, Calm, Fails, Test
<1>2. UNCHANGED <<rows, zset, hash>>
  BY DEF CancelMark, CancelForget, DeleteLook, DeleteForget, DeleteUserRow, Test, Statement, Forget,
     SetStatus, Die, mysql, redis
<1>3. /\ pc[w] \in From
      /\ \E s \in To : Next_(w, s) /\ (pc[w] = "cancel: forget" => s = "cancel: rank")
  <2>1. CASE CancelMark(w) \/ DeleteUserRow(w)
    <3>1. Done(w) => Next_(w, "idle")
      BY DEF Next_
    <3> QED BY <2>1, <3>1 DEF CancelMark, DeleteUserRow, Statement, At
  <2>2. CASE CancelForget(w) \/ DeleteForget(w)
    BY <2>2 DEF CancelForget, DeleteForget, Forget, At
  <2>3. CASE DeleteLook(w)
    <3>1. pc[w] = "delete: look" /\ ~Fails("query")
      BY <2>3 DEF DeleteLook, Test, At, Alone, Calm, Fails
    <3>2. \E s \in To : Next_(w, s)
      BY <2>3, <3>1 DEF DeleteLook, Test
    <3> QED BY <3>1, <3>2
  <2> QED BY <2>1, <2>2, <2>3
<1>4. PICK s \in To : Next_(w, s) /\ (pc[w] = "cancel: forget" => s = "cancel: rank")
  BY <1>3
<1>5. Shapes' /\ OthersStay(w) /\ pc'[w] = s /\ (s # "idle" => UNCHANGED <<req, num, todo>>)
  BY <1>0, <1>4, NextFacts
<1>6. Knows(w)'
  BY <1>5 DEF Knows, Counting
<1> QED BY <1>2, <1>3, <1>4, <1>5, <1>6, QuietStep DEF CancelExempt, NameExempt

LEMMA PvReads ==
    ASSUME NEW w \in Workers, Alone(w), PvRead(w) \/ PvForget(w) \/ PvLook(w)
    PROVE  SharingInv'
<1>0. /\ Shapes /\ w \in Threads /\ Knows(w) /\ RowsSound /\ RankSound
      /\ \A v \in Workers : v = w \/ pc[v] = "idle"
  BY DEF Alone, SharingInv, Threads, Idle
<1>1. UNCHANGED <<rows, zset, hash>>
  BY DEF PvRead, PvForget, PvLook, Test, Forget, mysql, redis
<1>2. CASE PvRead(w)
  <2>1. pc[w] = "pv: read"
    BY <1>2 DEF PvRead, Test, At
  <2>2. CASE Done(w)
    <3>1. Shapes' /\ OthersStay(w) /\ pc'[w] = "idle"
      BY <1>0, <2>2, DoneFacts
    <3>2. Knows(w)'
      BY <3>1 DEF Knows, Counting
    <3> QED BY <1>1, <2>1, <3>1, <3>2, QuietStep DEF CancelExempt, NameExempt
  <2>3. ASSUME NEW r \in RowsOf(F(w)), Remember(w, r.pv, "pv: write") PROVE SharingInv'
    <3>1. /\ Shapes' /\ OthersStay(w) /\ pc'[w] = "pv: write" /\ num'[w] = r.pv /\ UNCHANGED req
      BY <1>0, <2>3 DEF Remember, Go, Shapes, OthersStay
    <3>2. r \in rows /\ r.file = F(w) /\ r.pv \in Nat /\ \A x \in RowsOf(F(w)) : x = r
      BY <1>0, <2>3 DEF RowsOf, RowsSound, IsRow
    <3>3. F(w) \in DOMAIN zset => zset[F(w)] <= r.pv
      BY <1>0, <3>2 DEF RankSound
    <3>4. F(w)' = F(w) /\ RowsOf(F(w))' = RowsOf(F(w)) /\ F(w) \in SharedFiles /\ SharedFiles' = SharedFiles
      BY <1>1, <3>1, <3>2 DEF F, RowsOf, SharedFiles
    <3>5. Knows(w)'
      BY <1>1, <3>1, <3>2, <3>3, <3>4 DEF Knows, Counting, Shared, Unranked
    <3> QED BY <1>1, <2>1, <3>1, <3>5, QuietStep DEF CancelExempt, NameExempt
  <2> QED BY <1>2, <2>2, <2>3 DEF PvRead, Test
<1>3. CASE PvForget(w)
  <2>1. PICK s \in {"pv: look"} : pc[w] = "pv: forget" /\ Next_(w, s)
    BY <1>3 DEF PvForget, Forget, At
  <2>2. Shapes' /\ OthersStay(w) /\ pc'[w] = "pv: look" /\ UNCHANGED <<req, num, todo>>
    BY <1>0, <2>1, NextFacts
  <2>3. Knows(w)'
    BY <1>0, <1>1, <2>1, <2>2 DEF Knows, Counting, Shared, Unranked, SharedFiles, F, RowsOf
  <2> QED BY <1>1, <2>1, <2>2, <2>3, QuietStep DEF CancelExempt, NameExempt
<1>4. CASE PvLook(w)
  <2>1. pc[w] = "pv: look"
    BY <1>4 DEF PvLook, Test, At
  <2>2. \E s \in {"pv: add", "pv: incr", "idle"} : Next_(w, s) /\ (s = "pv: incr" => ~Unranked(w))
    <3>1. PICK r \in ZsetExit(F(w)) :
              Next_(w, CASE r = 0 -> "pv: add" [] r = 1 -> "pv: incr" [] OTHER -> "idle")
      BY <1>4 DEF PvLook, Test
    <3>2. r = 1 => ~Unranked(w)
      <4> SUFFICES ASSUME Unranked(w) PROVE r # 1
        OBVIOUS
      <4>1. ZsetExit(F(w)) \subseteq {0}
        BY DEF ZsetExit, Unranked, Alone, Calm, Fails
      <4> QED BY <4>1
    <3> QED BY <3>1, <3>2
  <2>3. PICK s \in {"pv: add", "pv: incr", "idle"} : Next_(w, s) /\ (s = "pv: incr" => ~Unranked(w))
    BY <2>2
  <2>4. Shapes' /\ OthersStay(w) /\ pc'[w] = s /\ (s # "idle" => UNCHANGED <<req, num, todo>>)
    BY <1>0, <2>3, NextFacts
  <2>5. Knows(w)'
    BY <1>0, <1>1, <2>1, <2>3, <2>4 DEF Knows, Counting, Shared, Unranked, SharedFiles, F, RowsOf
  <2> QED BY <1>1, <2>1, <2>4, <2>5, QuietStep DEF CancelExempt, NameExempt
<1> QED BY <1>2, <1>3, <1>4

LEMMA ListReads ==
    ASSUME NEW w \in Workers, Alone(w),
           ListGet(w) \/ ListCount(w) \/ ListCompare(w) \/ ListSelect(w) \/ ListKeep(w) \/ Read(w)
    PROVE  SharingInv'
<1> DEFINE From == {"list: get", "list: count", "list: compare", "list: select", "list: keep",
                    "list: members", "list: details"}
           To == {"idle", "list: count", "list: compare", "list: drop", "list: members", "list: load",
                  "list: details", "list: keep"}
<1>0. Shapes /\ w \in Threads
  BY DEF Alone, SharingInv, Threads
<1>1. UNCHANGED <<rows, zset, hash>>
  BY DEF ListGet, ListCount, ListCompare, ListSelect, ListKeep, Read, ReadMembers, ReadDetails, Test, mysql, redis
<1>2. pc[w] \in From
  BY DEF ListGet, ListCount, ListCompare, ListSelect, ListKeep, Read, ReadMembers, ReadDetails, Test, At
<1>n. ASSUME NEW s \in To \ {"list: load"}, Next_(w, s)
      PROVE  Shapes' /\ OthersStay(w) /\ pc'[w] = s
  BY <1>0, <1>n, NextFacts
<1>d. ASSUME Done(w) PROVE Shapes' /\ OthersStay(w) /\ pc'[w] = "idle"
  BY <1>0, <1>d, DoneFacts
<1>a. ASSUME Answered(w, Failed) \/ \E a : Answered(w, a)
      PROVE  Shapes' /\ OthersStay(w) /\ pc'[w] = "list: keep"
  BY <1>0, <1>a DEF Answered, Go, Shapes, OthersStay
<1>t. ASSUME NEW s \in To, NEW S, Take(w, S, s)
      PROVE  Shapes' /\ OthersStay(w) /\ pc'[w] = s /\ todo'[w] = S
  BY <1>0, <1>t DEF Take, Go, Shapes, OthersStay
<1>3. /\ Shapes' /\ OthersStay(w)
      /\ pc'[w] \in To /\ (pc'[w] = "list: load" => todo'[w] = rows)
  <2>1. CASE ListGet(w)
    <3>1. \E s \in {"idle", "list: count"} : Next_(w, s)
      BY <2>1 DEF ListGet, Test
    <3> QED BY <3>1, <1>n
  <2>2. CASE ListCount(w)
    <3>1. ASSUME NEW n, Remember(w, n, "list: compare")
          PROVE  Shapes' /\ OthersStay(w) /\ pc'[w] = "list: compare"
      BY <1>0, <3>1 DEF Remember, Go, Shapes, OthersStay
    <3> QED BY <2>2, <3>1, <1>a DEF ListCount, Test
  <2>3. CASE ListCompare(w)
    <3>1. (\E s \in {"list: drop", "list: members"} : Next_(w, s)) \/ Answered(w, Failed)
      BY <2>3 DEF ListCompare, Test
    <3> QED BY <3>1, <1>n, <1>a
  <2>4. CASE ListSelect(w)
    BY <2>4, <1>t, <1>a DEF ListSelect, Test
  <2>5. CASE ListKeep(w)
    BY <2>5, <1>d DEF ListKeep
  <2>6. CASE ReadMembers(w)
    BY <2>6, <1>t, <1>a DEF ReadMembers, Test
  <2>7. CASE ReadDetails(w)
    BY <2>7, <1>a DEF ReadDetails, Test
  <2> QED BY <2>1, <2>2, <2>3, <2>4, <2>5, <2>6, <2>7 DEF Read
<1>4. Knows(w)'
  BY <1>1, <1>3 DEF Knows, Counting
<1> QED BY <1>1, <1>2, <1>3, <1>4, QuietStep DEF CancelExempt, NameExempt

-----------------------------------------------------------------------------
(* Steps that write *)
LEMMA AloneKnows ==
    ASSUME NEW w \in Workers, Alone(w)
    PROVE  /\ Shapes /\ w \in Threads /\ Knows(w) /\ RowsSound /\ ~Fails("redis")
           /\ \A f \in DOMAIN zset :
                 /\ zset[f] \in Nat
                 /\ f \in SharedFiles \/ (pc[w] \in CancelExempt /\ f = F(w))
                 /\ f \in hash \/ (pc[w] \in NameExempt /\ f = F(w))
           /\ \A r \in rows : r.pv \in Nat /\ (r.file \in DOMAIN zset => zset[r.file] <= r.pv)
<1>1. Shapes /\ w \in Threads /\ Knows(w) /\ RowsSound /\ RankSound /\ ~Fails("redis")
  BY DEF Alone, SharingInv, Threads, Calm, Fails
<1>2. \A v \in Workers : v = w \/ pc[v] = "idle"
  BY DEF Alone, Idle
<1>3. \A r \in rows : r.pv \in Nat
  BY <1>1 DEF RowsSound, IsRow
<1> QED BY <1>1, <1>2, <1>3 DEF RankSound, Busy, CancelExempt, NameExempt

LEMMA RankTo ==
    ASSUME NEW w \in Workers,
           \A f \in DOMAIN zset' :
               /\ zset'[f] \in Nat
               /\ f \in SharedFiles' \/ (pc'[w] \in CancelExempt /\ f = F(w)')
               /\ f \in hash' \/ (pc'[w] \in NameExempt /\ f = F(w)'),
           \A r \in rows' : r.file \in DOMAIN zset' => zset'[r.file] <= r.pv
    PROVE  RankSound'
BY DEF RankSound, Busy, CancelExempt, NameExempt, F

LEMMA FailedStatement ==
    ASSUME NEW w \in Workers, Alone(w), UNCHANGED <<mysql, redis>>, Done(w),
           pc[w] \in {"share: insert", "cancel: row", "delete: row", "pv: write"}
    PROVE  SharingInv'
<1>1. Shapes' /\ OthersStay(w) /\ pc'[w] = "idle"
  BY AloneKnows, DoneFacts
<1>2. UNCHANGED <<rows, zset, hash>> /\ Knows(w)'
  BY <1>1 DEF Knows, Counting, mysql, redis
<1> QED BY <1>1, <1>2, QuietStep DEF CancelExempt, NameExempt

(* a rank more, a rank less *)
LEMMA WithFacts ==
    ASSUME NEW f, NEW n, zset' = With(f, n)
    PROVE  /\ DOMAIN zset' = DOMAIN zset \cup {f} /\ zset'[f] = n
           /\ \A g \in DOMAIN zset \ {f} : zset'[g] = zset[g]
BY DEF With

LEMMA WithoutFacts ==
    ASSUME NEW f, zset' = Without(f)
    PROVE  /\ DOMAIN zset' = DOMAIN zset \ {f}
           /\ \A g \in DOMAIN zset' : zset'[g] = zset[g]
BY DEF Without, Restrict

LEMMA InsertStep ==
    ASSUME NEW w \in Workers, Alone(w), ShareInsert(w)
    PROVE  SharingInv'
<1>0. pc[w] = "share: insert" /\ UNCHANGED redis
  BY DEF ShareInsert, Statement, At
<1>1. CASE UNCHANGED mysql /\ Done(w)
  BY <1>0, <1>1, FailedStatement
<1>2. CASE rows' = rows \cup {NewRow(w)} /\ Next_(w, "share: forget")
  <2>0. PICK s \in {"share: forget"} : Next_(w, s)
    BY <1>2
  <2>1. Shapes' /\ OthersStay(w) /\ pc'[w] = "share: forget" /\ UNCHANGED <<req, num, todo>>
    BY <2>0, AloneKnows, NextFacts
  <2>2. NewRow(w).file = F(w) /\ NewRow(w).pv = 0 /\ IsRow(NewRow(w))
    BY DEF NewRow, IsRow
  <2>3. F(w) \notin SharedFiles /\ \A r \in rows : r.file # F(w)
    BY <1>0, AloneKnows DEF Knows, Shared, SharedFiles
  <2>4. RowsSound'
    <3>1. RowsSound /\ \A r \in rows' : r \in rows \/ r = NewRow(w)
      BY <1>2, AloneKnows
    <3>2. \A r \in rows' : IsRow(r)
      BY <2>2, <3>1 DEF RowsSound
    <3>3. \A r, x \in rows' : r.file = x.file => r = x
      BY <2>2, <2>3, <3>1 DEF RowsSound
    <3> QED BY <3>2, <3>3 DEF RowsSound
  <2>5. F(w)' = F(w) /\ UNCHANGED <<zset, hash>> /\ F(w) \in SharedFiles' /\ SharedFiles \subseteq SharedFiles'
    BY <1>0, <1>2, <2>1, <2>2 DEF F, redis, SharedFiles
  <2>6. F(w) \notin DOMAIN zset
    BY <1>0, <2>3, AloneKnows DEF CancelExempt
  <2>7. RankSound'
    <3>1. \A f \in DOMAIN zset' : zset'[f] \in Nat /\ f \in SharedFiles' /\ f \in hash'
      BY <1>0, <2>5, AloneKnows DEF CancelExempt, NameExempt
    <3>2. \A r \in rows' : r.file \in DOMAIN zset' => zset'[r.file] <= r.pv
      BY <1>2, <2>2, <2>5, <2>6, AloneKnows
    <3> QED BY <3>1, <3>2, RankTo
  <2>8. Knows(w)'
    BY <2>1, <2>5 DEF Knows, Counting, Shared
  <2> QED BY <2>1, <2>4, <2>7, <2>8, Settle
<1> QED BY <1>1, <1>2 DEF ShareInsert, Statement, SetRows

LEMMA RemoveStep ==
    ASSUME NEW w \in Workers, Alone(w), CancelRow(w) \/ DeleteRow(w)
    PROVE  SharingInv'
<1>0. pc[w] \in {"cancel: row", "delete: row"} /\ UNCHANGED redis
  BY DEF CancelRow, DeleteRow, Statement, At
<1>1. CASE UNCHANGED mysql /\ Done(w)
  BY <1>0, <1>1, FailedStatement
<1>2. ASSUME NEW s \in {"cancel: forget", "delete: user row"}, rows' = rows \ OwnRows(w), Next_(w, s),
             s = "delete: user row" => pc[w] = "delete: row"
      PROVE  SharingInv'
  <2>1. Shapes' /\ OthersStay(w) /\ pc'[w] = s /\ UNCHANGED <<req, num, todo>>
    BY <1>2, AloneKnows, NextFacts
  <2>2. RowsSound' /\ rows' \subseteq rows
    BY <1>2, AloneKnows DEF RowsSound
  <2>3. F(w)' = F(w) /\ UNCHANGED <<zset, hash>> /\ \A f \in SharedFiles : f \in SharedFiles' \/ f = F(w)
    BY <1>0, <1>2, <2>1 DEF F, redis, SharedFiles, OwnRows, RowsOf
  <2>4. s = "delete: user row" => F(w) \notin DOMAIN zset
    BY <1>2, AloneKnows DEF Knows, Unranked
  <2>5. RankSound'
    <3>1. \A f \in DOMAIN zset' :
              /\ zset'[f] \in Nat /\ f \in hash'
              /\ f \in SharedFiles' \/ (pc'[w] \in CancelExempt /\ f = F(w)')
      BY <1>0, <2>1, <2>3, <2>4, AloneKnows DEF CancelExempt, NameExempt
    <3>2. \A r \in rows' : r.file \in DOMAIN zset' => zset'[r.file] <= r.pv
      BY <2>2, <2>3, AloneKnows
    <3> QED BY <3>1, <3>2, RankTo
  <2>6. Knows(w)'
    BY <2>1 DEF Knows, Counting
  <2> QED BY <2>1, <2>2, <2>5, <2>6, Settle
<1> QED BY <1>0, <1>1, <1>2 DEF CancelRow, DeleteRow, Statement, SetRows, At
LEMMA OneMore ==
    ASSUME NEW a \in Nat
    PROVE  a + 1 \in Nat /\ \A b \in Nat : b <= a => b <= a + 1
OBVIOUS


LEMMA CountStep ==
    ASSUME NEW w \in Workers, Alone(w), PvWrite(w)
    PROVE  SharingInv'
<1> DEFINE counted == {[r EXCEPT !.pv = num[w] + 1] : r \in RowsOf(F(w))}
<1>0. pc[w] = "pv: write" /\ UNCHANGED redis
  BY DEF PvWrite, Statement, At
<1>1. CASE UNCHANGED mysql /\ Done(w)
  BY <1>0, <1>1, FailedStatement
<1>2. CASE rows' = (rows \ RowsOf(F(w))) \cup counted /\ Next_(w, "pv: forget")
  <2>0. PICK s \in {"pv: forget"} : Next_(w, s)
    BY <1>2
  <2>1. Shapes' /\ OthersStay(w) /\ pc'[w] = "pv: forget" /\ UNCHANGED <<req, num, todo>>
    BY <2>0, AloneKnows, NextFacts
  <2>2. RowsSound /\ num[w] \in Nat /\ F(w) \in SharedFiles /\ (\A x \in RowsOf(F(w)) : x.pv = num[w])
        /\ (F(w) \in DOMAIN zset => zset[F(w)] <= num[w])
    BY <1>0, AloneKnows DEF Knows, Shared, Unranked
  <2>n. num[w] \in Nat
    BY <2>2
  <2>3. PICK r \in rows : r.file = F(w) /\ \A x \in rows : x.file = F(w) => x = r
    BY <2>2 DEF SharedFiles, RowsSound
  <2>4. RowsOf(F(w)) = {r}
    BY <2>3 DEF RowsOf
  <2> DEFINE q == [r EXCEPT !.pv = num[w] + 1]
  <2>5. rows' = (rows \ {r}) \cup {q}
    BY <1>2, <2>4
  <2>6. DOMAIN q = {"user", "file", "pv", "n"} /\ q.file = F(w) /\ q.pv = num[w] + 1
    <3>1. IsRow(r)
      BY <2>2 DEF RowsSound
    <3> QED BY <2>3, <3>1 DEF IsRow
  <2> HIDE DEF q
  <2>q. IsRow(q)
    <3>1. q.pv \in Nat
      <4>1. num[w] + 1 \in Nat
        BY <2>n, OneMore
      <4> QED BY <2>6, <4>1
    <3> QED BY <2>6, <3>1 DEF IsRow
  <2>7. RowsSound'
    <3>1. \A x \in rows' : x = q \/ (x \in rows /\ x.file # F(w))
      BY <2>3, <2>5
    <3>2. \A x \in rows' : IsRow(x)
      BY <2>2, <2>q, <3>1 DEF RowsSound
    <3>3. \A x, y \in rows' : x.file = y.file => x = y
      BY <2>2, <2>6, <3>1 DEF RowsSound
    <3> QED BY <3>2, <3>3 DEF RowsSound
  <2>8. SharedFiles' = SharedFiles /\ F(w)' = F(w) /\ UNCHANGED <<zset, hash>>
    BY <1>0, <2>1, <2>3, <2>5, <2>6 DEF SharedFiles, F, redis
  <2>9. RankSound'
    <3>1. \A f \in DOMAIN zset' : zset'[f] \in Nat /\ f \in SharedFiles' /\ f \in hash'
      BY <1>0, <2>8, AloneKnows DEF CancelExempt, NameExempt
    <3>2. \A x \in rows' : x.file \in DOMAIN zset' => zset'[x.file] <= x.pv
      <4>1. q.file \in DOMAIN zset' => zset'[q.file] <= q.pv
        <5>1. ASSUME F(w) \in DOMAIN zset PROVE zset[F(w)] <= num[w] + 1
          <6>1. zset[F(w)] \in Nat /\ zset[F(w)] <= num[w]
            BY <2>2, <5>1, AloneKnows
          <6> QED BY <2>n, <6>1, OneMore
        <5> QED BY <2>6, <2>8, <5>1
      <4> QED BY <2>5, <2>8, <4>1, AloneKnows
    <3> QED BY <3>1, <3>2, RankTo
  <2>10. Knows(w)'
    <3>1. \A x \in RowsOf(F(w))' : x.pv = num[w] + 1
      BY <2>3, <2>5, <2>6, <2>8 DEF RowsOf
    <3> QED BY <2>1, <2>2, <2>8, <3>1 DEF Knows, Counting, Shared, Unranked
  <2> QED BY <2>1, <2>7, <2>9, <2>10, Settle
<1> QED BY <1>1, <1>2 DEF PvWrite, Statement, SetRows

LEMMA RankStep ==
    ASSUME NEW w \in Workers, Alone(w), ShareRank(w) \/ PvAdd(w) \/ PvIncr(w)
    PROVE  SharingInv'
<1>0. UNCHANGED <<rows, hash>> /\ RowsSound /\ Shapes /\ w \in Threads
  BY AloneKnows DEF ShareRank, PvAdd, PvIncr, Command, SetRanks, mysql, redis
<1>1. PICK n \in Nat, s \in {"share: name", "pv: name", "idle"} :
          /\ Next_(w, s) /\ zset' = With(F(w), n)
          /\ \A r \in RowsOf(F(w)) : n <= r.pv
          /\ F(w) \in SharedFiles /\ (s = "idle" => F(w) \in hash)
          /\ pc[w] \in {"share: rank", "pv: add", "pv: incr"}
  <2>1. CASE ShareRank(w)
    <3>1. /\ pc[w] = "share: rank" /\ Next_(w, "share: name") /\ zset' = With(F(w), 0)
      BY <2>1, AloneKnows DEF ShareRank, Command, SetRanks, At
    <3>2. F(w) \in SharedFiles /\ \A r \in RowsOf(F(w)) : 0 <= r.pv
      <4>1. \A r \in rows : 0 <= r.pv
        BY AloneKnows
      <4> QED BY <3>1, <4>1, AloneKnows DEF Knows, Shared, RowsOf
    <3> QED BY <3>1, <3>2
  <2>2. CASE PvAdd(w)
    <3>1. /\ pc[w] = "pv: add" /\ Next_(w, "pv: name") /\ zset' = With(F(w), num[w] + 1)
      BY <2>2, AloneKnows DEF PvAdd, Command, SetRanks, At
    <3>2. /\ F(w) \in SharedFiles /\ num[w] \in Nat /\ \A r \in RowsOf(F(w)) : r.pv = num[w] + 1
      BY <3>1, AloneKnows DEF Knows, Shared, Counting
    <3>3. num[w] + 1 \in Nat /\ \A r \in RowsOf(F(w)) : num[w] + 1 <= r.pv
      BY <3>2
    <3> QED BY <3>1, <3>2, <3>3
  <2>3. CASE PvIncr(w)
    <3>1. /\ pc[w] = "pv: incr" /\ Next_(w, "idle") /\ zset' = With(F(w), Incremented(F(w)))
      BY <2>3, AloneKnows DEF PvIncr, Command, SetRanks, At
    <3>2. /\ F(w) \in SharedFiles /\ num[w] \in Nat /\ \A r \in RowsOf(F(w)) : r.pv = num[w] + 1
          /\ F(w) \in DOMAIN zset /\ zset[F(w)] <= num[w]
      BY <3>1, AloneKnows DEF Knows, Shared, Counting, Unranked
    <3>3. zset[F(w)] \in Nat /\ F(w) \in hash
      BY <3>1, <3>2, AloneKnows DEF NameExempt
    <3>4. Incremented(F(w)) \in Nat /\ \A r \in RowsOf(F(w)) : Incremented(F(w)) <= r.pv
      BY <3>2, <3>3 DEF Incremented
    <3> QED BY <3>1, <3>2, <3>3, <3>4
  <2> QED BY <2>1, <2>2, <2>3
<1>2. Shapes' /\ OthersStay(w) /\ pc'[w] = s /\ (s # "idle" => UNCHANGED <<req, num, todo>>)
  BY <1>0, <1>1, NextFacts
<1>3. /\ DOMAIN zset' = DOMAIN zset \cup {F(w)} /\ zset'[F(w)] = n
      /\ \A g \in DOMAIN zset \ {F(w)} : zset'[g] = zset[g]
  BY <1>1, WithFacts
<1>4. RowsSound' /\ SharedFiles' = SharedFiles
  BY <1>0 DEF RowsSound, SharedFiles
<1>5. RankSound'
  <2>1. \A f \in DOMAIN zset' :
            /\ zset'[f] \in Nat /\ f \in SharedFiles'
            /\ f \in hash' \/ (pc'[w] \in NameExempt /\ f = F(w)')
    <3>1. ASSUME NEW f \in DOMAIN zset, f # F(w)
          PROVE  zset'[f] \in Nat /\ f \in SharedFiles' /\ f \in hash'
      BY <1>0, <1>1, <1>3, <1>4, <3>1, AloneKnows DEF CancelExempt, NameExempt
    <3>2. s # "idle" => F(w)' = F(w) /\ pc'[w] \in NameExempt
      BY <1>2 DEF F, NameExempt
    <3>3. F(w) \in hash' \/ (pc'[w] \in NameExempt /\ F(w) = F(w)')
      BY <1>0, <1>1, <3>2
    <3> QED BY <1>1, <1>3, <1>4, <3>1, <3>3
  <2>2. \A r \in rows' : r.file \in DOMAIN zset' => zset'[r.file] <= r.pv
    BY <1>0, <1>1, <1>3, AloneKnows DEF RowsOf
  <2> QED BY <2>1, <2>2, RankTo
<1>6. Knows(w)'
  BY <1>2 DEF Knows, Counting
<1> QED BY <1>2, <1>4, <1>5, <1>6, Settle

LEMMA UnrankStep ==
    ASSUME NEW w \in Workers, Alone(w), CancelRank(w) \/ DeleteRank(w)
    PROVE  SharingInv'
<1>0. UNCHANGED <<rows, hash>> /\ RowsSound /\ Shapes /\ w \in Threads
  BY AloneKnows DEF CancelRank, DeleteRank, Command, SetRanks, mysql, redis
<1>1. PICK s \in {"cancel: name", "delete: name"} :
          /\ Next_(w, s) /\ zset' = Without(F(w))
          /\ pc[w] \in {"cancel: rank", "delete: rank"}
  BY AloneKnows DEF CancelRank, DeleteRank, Command, SetRanks, At
<1>2. Shapes' /\ OthersStay(w) /\ pc'[w] = s /\ UNCHANGED <<req, num, todo>>
  BY <1>0, <1>1, NextFacts
<1>3. DOMAIN zset' = DOMAIN zset \ {F(w)} /\ (\A g \in DOMAIN zset' : zset'[g] = zset[g])
      /\ F(w)' = F(w)
  BY <1>1, <1>2, WithoutFacts DEF F
<1>4. RowsSound' /\ SharedFiles' = SharedFiles
  BY <1>0 DEF RowsSound, SharedFiles
<1>5. RankSound'
  <2>1. \A f \in DOMAIN zset' : zset'[f] \in Nat /\ f \in SharedFiles' /\ f \in hash'
    BY <1>0, <1>1, <1>3, <1>4, AloneKnows DEF NameExempt
  <2>2. \A r \in rows' : r.file \in DOMAIN zset' => zset'[r.file] <= r.pv
    BY <1>0, <1>3, AloneKnows
  <2> QED BY <2>1, <2>2, RankTo
<1>6. Knows(w)'
  BY <1>2, <1>3 DEF Knows, Counting, Unranked
<1> QED BY <1>2, <1>4, <1>5, <1>6, Settle

LEMMA NameStep ==
    ASSUME NEW w \in Workers, Alone(w), ShareName(w) \/ PvName(w) \/ CancelName(w) \/ DeleteName(w)
    PROVE  SharingInv'
<1>0. UNCHANGED <<rows, zset>> /\ RowsSound /\ Shapes /\ w \in Threads
  BY AloneKnows DEF ShareName, PvName, CancelName, DeleteName, Command, SetNames, mysql, redis
<1>1. PICK s \in {"idle", "delete: row"} :
          /\ Next_(w, s)
          /\ \/ hash' = hash \cup {F(w)}
             \/ hash' = hash \ {F(w)} /\ F(w) \notin DOMAIN zset
          /\ s = "delete: row" => F(w) \notin DOMAIN zset
          /\ pc[w] \in {"share: name", "pv: name", "cancel: name", "delete: name"}
          /\ pc[w] \in {"share: name", "pv: name"} => F(w) \in hash'
  BY AloneKnows DEF ShareName, PvName, CancelName, DeleteName, Command, SetNames, At, Knows, Unranked
<1>2. Shapes' /\ OthersStay(w) /\ pc'[w] = s /\ (s # "idle" => UNCHANGED <<req, num, todo>>)
  BY <1>0, <1>1, NextFacts
<1>3. RowsSound' /\ SharedFiles' = SharedFiles
  BY <1>0 DEF RowsSound, SharedFiles
<1>4. RankSound'
  <2>1. \A f \in DOMAIN zset' : zset'[f] \in Nat /\ f \in SharedFiles' /\ f \in hash'
    BY <1>0, <1>1, <1>3, AloneKnows DEF CancelExempt, NameExempt
  <2>2. \A r \in rows' : r.file \in DOMAIN zset' => zset'[r.file] <= r.pv
    BY <1>0, AloneKnows
  <2> QED BY <2>1, <2>2, RankTo
<1>5. Knows(w)'
  BY <1>0, <1>1, <1>2 DEF Knows, Counting, Unranked, F
<1> QED BY <1>2, <1>3, <1>4, <1>5, Settle

(* reloading redis: empty it, then one row after the other *)
LEMMA EmptyStep ==
    ASSUME NEW w \in Workers, Alone(w), ListDrop(w) \/ ListDropNames(w)
    PROVE  SharingInv'
<1>0. UNCHANGED rows /\ RowsSound /\ Shapes /\ w \in Threads
  BY AloneKnows DEF ListDrop, ListDropNames, Command, mysql
<1>1. DOMAIN zset' = {} /\ \E s \in {"list: drop names", "list: select"} : Next_(w, s)
  BY AloneKnows DEF ListDrop, ListDropNames, Command, SetRanks, SetNames, At, Restrict, Knows
<1>2. PICK s \in {"list: drop names", "list: select"} : Next_(w, s)
  BY <1>1
<1>3. Shapes' /\ OthersStay(w) /\ pc'[w] = s
  BY <1>0, <1>2, NextFacts
<1>4. RowsSound' /\ RankSound'
  BY <1>0, <1>1, RankTo DEF RowsSound
<1>5. Knows(w)'
  BY <1>1, <1>3 DEF Knows, Counting
<1> QED BY <1>3, <1>4, <1>5, Settle

LEMMA LoadStep ==
    ASSUME NEW w \in Workers, Alone(w), ListLoad(w)
    PROVE  SharingInv'
<1>0. /\ UNCHANGED rows /\ RowsSound /\ Shapes /\ w \in Threads
      /\ pc[w] = "list: load" /\ todo[w] \subseteq rows
  BY AloneKnows DEF ListLoad, mysql, At, Knows
<1>1. CASE Next_(w, "list: members") /\ UNCHANGED redis
  <2>0. PICK s \in {"list: members"} : Next_(w, s)
    BY <1>1
  <2>1. Shapes' /\ OthersStay(w) /\ pc'[w] = "list: members"
    BY <1>0, <2>0, NextFacts
  <2>2. UNCHANGED <<rows, zset, hash>> /\ Knows(w)'
    BY <1>0, <1>1, <2>1 DEF Knows, Counting, redis
  <2> QED BY <1>0, <2>1, <2>2, QuietStep DEF CancelExempt, NameExempt
<1>2. ASSUME NEW r \in todo[w], SetRanks(With(r.file, r.pv)),
             todo' = [todo EXCEPT ![w] = @ \ {r}], req' = [req EXCEPT ![w].file = r.file],
             Go(w, "list: load name"), UNCHANGED <<num, answer>>
      PROVE  SharingInv'
  <2>1. /\ Shapes' /\ OthersStay(w) /\ pc'[w] = "list: load name"
        /\ F(w)' = r.file /\ todo'[w] \subseteq rows /\ UNCHANGED hash
    BY <1>0, <1>2 DEF Go, Shapes, OthersStay, F, SetRanks
  <2>2. /\ DOMAIN zset' = DOMAIN zset \cup {r.file} /\ zset'[r.file] = r.pv
        /\ \A g \in DOMAIN zset \ {r.file} : zset'[g] = zset[g]
    <3>1. zset' = With(r.file, r.pv)
      BY <1>2 DEF SetRanks
    <3> QED BY <3>1, WithFacts
  <2>3. r \in rows /\ r.pv \in Nat /\ r.file \in SharedFiles /\ \A x \in rows : x.file = r.file => x = r
    BY <1>0, AloneKnows DEF RowsSound, SharedFiles
  <2>4. RowsSound' /\ SharedFiles' = SharedFiles
    BY <1>0 DEF RowsSound, SharedFiles
  <2>5. RankSound'
    <3>1. \A f \in DOMAIN zset' :
              /\ zset'[f] \in Nat /\ f \in SharedFiles'
              /\ f \in hash' \/ (pc'[w] \in NameExempt /\ f = F(w)')
      <4>1. ASSUME NEW f \in DOMAIN zset, f # r.file
            PROVE  zset'[f] \in Nat /\ f \in SharedFiles' /\ f \in hash'
        BY <1>0, <2>1, <2>2, <2>4, <4>1, AloneKnows DEF CancelExempt, NameExempt
      <4>2. zset'[r.file] \in Nat /\ r.file \in SharedFiles' /\ pc'[w] \in NameExempt
        BY <2>1, <2>2, <2>3, <2>4 DEF NameExempt
      <4> QED BY <2>1, <2>2, <4>1, <4>2
    <3>2. \A x \in rows' : x.file \in DOMAIN zset' => zset'[x.file] <= x.pv
      <4>1. zset'[r.file] <= r.pv
        BY <2>2, <2>3
      <4>2. ASSUME NEW x \in rows, x # r, x.file \in DOMAIN zset' PROVE zset'[x.file] <= x.pv
        BY <2>2, <2>3, <4>2, AloneKnows
      <4> QED BY <1>0, <2>3, <4>1, <4>2
    <3> QED BY <3>1, <3>2, RankTo
  <2>6. Knows(w)'
    BY <1>0, <2>1 DEF Knows, Counting
  <2> QED BY <2>1, <2>4, <2>5, <2>6, Settle
<1>3. ~Fails("redis")
  BY AloneKnows
<1> QED BY <1>1, <1>2, <1>3 DEF ListLoad

LEMMA LoadNameStep ==
    ASSUME NEW w \in Workers, Alone(w), ListLoadName(w)
    PROVE  SharingInv'
<1>0. /\ UNCHANGED <<rows, zset>> /\ RowsSound /\ Shapes /\ w \in Threads
      /\ pc[w] = "list: load name" /\ todo[w] \subseteq rows /\ hash' = hash \cup {F(w)}
  BY AloneKnows DEF ListLoadName, Command, SetNames, mysql, At, Knows
<1>1. PICK s \in {"list: load"} : Next_(w, s)
  BY DEF ListLoadName, Command
<1>2. Shapes' /\ OthersStay(w) /\ pc'[w] = "list: load" /\ UNCHANGED <<req, num, todo>>
  BY <1>0, <1>1, NextFacts
<1>3. RowsSound' /\ SharedFiles' = SharedFiles
  BY <1>0 DEF RowsSound, SharedFiles
<1>4. RankSound'
  <2>1. \A f \in DOMAIN zset' : zset'[f] \in Nat /\ f \in SharedFiles' /\ f \in hash'
    BY <1>0, <1>3, AloneKnows DEF CancelExempt
  <2>2. \A r \in rows' : r.file \in DOMAIN zset' => zset'[r.file] <= r.pv
    BY <1>0, AloneKnows
  <2> QED BY <2>1, <2>2, RankTo
<1>5. Knows(w)'
  BY <1>0, <1>2 DEF Knows, Counting
<1> QED BY <1>2, <1>3, <1>4, <1>5, Settle

-----------------------------------------------------------------------------
(* What is not a step of a request *)
Untouched(v) ==
    /\ pc'[v] = pc[v] /\ req'[v] = req[v] /\ num'[v] = num[v] /\ todo'[v] = todo[v]
    /\ DOMAIN answer = Threads => answer'[v] = answer[v]
LEMMA RefresherApart ==
    ASSUME Shapes, Refresh \/ Read(Refresher) \/ RefreshKeep
    PROVE  UNCHANGED <<rows, zset, hash>> /\ Shapes' /\ \A v \in Workers : Untouched(v)
<1>0. Refresher \in Threads /\ \A v \in Workers : v # Refresher /\ v \in Threads
  BY SharingAssumption DEF Threads
<1>n. ASSUME NEW s, Next_(Refresher, s) PROVE Shapes' /\ \A v \in Workers : Untouched(v)
  BY <1>0, <1>n DEF Next_, Done, Go, Shapes, locals, Untouched
<1>a. ASSUME NEW a, Answered(Refresher, a) PROVE Shapes' /\ \A v \in Workers : Untouched(v)
  BY <1>0, <1>a DEF Answered, Go, Shapes, Untouched
<1>1. CASE Refresh
  <2>1. \E s : Next_(Refresher, s)
    BY <1>1 DEF Refresh
  <2> QED BY <1>1, <1>n, <2>1 DEF Refresh, mysql, redis
<1>2. CASE ReadMembers(Refresher)
  <2>1. UNCHANGED <<rows, zset, hash>>
    BY <1>2 DEF ReadMembers, Test, mysql, redis
  <2>2. Take(Refresher, DOMAIN zset, "list: details") \/ Answered(Refresher, Failed)
    BY <1>2 DEF ReadMembers, Test
  <2>3. CASE Take(Refresher, DOMAIN zset, "list: details")
    BY <1>0, <2>1, <2>3 DEF Take, Go, Shapes, Untouched
  <2> QED BY <1>a, <2>1, <2>2, <2>3
<1>3. CASE ReadDetails(Refresher)
  BY <1>3, <1>a DEF ReadDetails, Test, mysql, redis
<1>4. CASE RefreshKeep
  BY <1>0, <1>4 DEF RefreshKeep, Done, Go, Shapes, mysql, redis, Untouched
<1> QED BY <1>1, <1>2, <1>3, <1>4 DEF Read

LEMMA RefresherStep ==
    ASSUME SharingInv, Refresh \/ Read(Refresher) \/ RefreshKeep
    PROVE  SharingInv'
<1>1. /\ UNCHANGED <<rows, zset, hash>> /\ Shapes'
      /\ \A v \in Workers : pc'[v] = pc[v] /\ req'[v] = req[v] /\ num'[v] = num[v] /\ todo'[v] = todo[v]
  BY RefresherApart DEF SharingInv, Untouched
<1>2. RowsSound' /\ SharedFiles' = SharedFiles
  BY <1>1 DEF SharingInv, RowsSound, SharedFiles
<1>3. RankSound'
  <2>1. RankSound /\ \A w \in Workers : \A S, f : Busy(w, S, f)' <=> Busy(w, S, f)
    BY <1>1 DEF SharingInv, Busy, F
  <2> QED BY <1>1, <1>2, <2>1 DEF RankSound
<1>4. ASSUME NEW w \in Workers PROVE Knows(w)'
  <2>1. Knows(w) /\ pc'[w] = pc[w] /\ num'[w] = num[w] /\ todo'[w] = todo[w] /\ F(w)' = F(w)
    BY <1>1 DEF SharingInv, F
  <2>2. Shared(w)' = Shared(w) /\ Unranked(w)' = Unranked(w) /\ RowsOf(F(w))' = RowsOf(F(w))
    BY <1>1, <1>2, <2>1 DEF Shared, Unranked, RowsOf
  <2>3. rows' = rows /\ zset' = zset
    BY <1>1
  <2> QED BY <2>1, <2>2, <2>3 DEF Knows, Counting
<1> QED BY <1>1, <1>2, <1>3, <1>4 DEF SharingInv, Idle

LEMMA SameStep ==
    ASSUME SharingInv, UNCHANGED <<rows, zset, hash, pc, req, num, todo>>
    PROVE  SharingInv'
<1>1. RowsSound' /\ Shapes' /\ SharedFiles' = SharedFiles
  BY DEF SharingInv, RowsSound, Shapes, SharedFiles
<1>2. RankSound'
  <2>1. RankSound /\ \A w \in Workers : \A S, f : Busy(w, S, f)' <=> Busy(w, S, f)
    BY DEF SharingInv, Busy, F
  <2> QED BY <1>1, <2>1 DEF RankSound
<1>3. ASSUME NEW w \in Workers PROVE Knows(w)'
  BY DEF SharingInv, Knows, Counting, Shared, Unranked, SharedFiles, RowsOf, F
<1> QED BY <1>1, <1>2, <1>3 DEF SharingInv, Idle

LEMMA FlushStep ==
    ASSUME SharingInv, Calm, Flush
    PROVE  SharingInv'
<1>1. /\ UNCHANGED <<rows, pc, req, num, todo>> /\ DOMAIN zset' = {}
      /\ \A w \in Workers : pc[w] = "idle"
  BY DEF Flush, Calm, Quiet, Idle, Restrict, mysql, locals
<1>2. RowsSound' /\ RankSound' /\ Shapes'
  BY <1>1 DEF SharingInv, RowsSound, RankSound, Shapes
<1>3. \A w \in Workers : Knows(w)'
  BY <1>1 DEF Knows, Counting
<1> QED BY <1>1, <1>2, <1>3 DEF SharingInv, Idle

LEMMA RequestStep ==
    ASSUME SharingInv, Calm, NEW w \in Workers, Step(w)
    PROVE  SharingInv'
<1>1. ~Idle(w)
  BY DEF Step, Obtain, Share, ShareLook, ShareCheck, ShareMark, ShareInsert, ShareForget, ShareRank, ShareName,
     Cancel, CancelMark, CancelRow, CancelForget, CancelRank, CancelName, Delete, DeleteLook, DeleteForget,
     DeleteRank, DeleteName, DeleteRow, DeleteUserRow, Pv, PvRead, PvWrite, PvForget, PvLook, PvAdd, PvName,
     PvIncr, List, ListGet, ListCount, ListCompare, ListDrop, ListDropNames, ListSelect, ListLoad,
     ListLoadName, ListKeep, Read, ReadMembers, ReadDetails, Test, Statement, Command, Forget, At, Idle
<1>2. Alone(w)
  BY <1>1, Active
<1>3. CASE Obtain(w)
  BY <1>2, <1>3, ObtainStep
<1>4. CASE Share(w)
  BY <1>2, <1>4, ShareReads, InsertStep, RankStep, NameStep DEF Share
<1>5. CASE Cancel(w)
  BY <1>2, <1>5, RemovalReads, RemoveStep, UnrankStep, NameStep DEF Cancel
<1>6. CASE Delete(w)
  BY <1>2, <1>6, RemovalReads, RemoveStep, UnrankStep, NameStep DEF Delete
<1>7. CASE Pv(w)
  BY <1>2, <1>7, PvReads, CountStep, RankStep, NameStep DEF Pv
<1>8. CASE List(w)
  BY <1>2, <1>8, ListReads, EmptyStep, LoadStep, LoadNameStep DEF List
<1>9. CASE Read(w)
  BY <1>2, <1>9, ListReads
<1> QED BY <1>3, <1>4, <1>5, <1>6, <1>7, <1>8, <1>9 DEF Step

LEMMA SharingStep ==
    ASSUME SharingInv, Calm, env \in Scenarios, [Next /\ UNCHANGED env]_vars
    PROVE  SharingInv'
<1>1. ASSUME NEW w \in Workers, Step(w) PROVE SharingInv'
  BY <1>1, RequestStep
<1>2. ASSUME NEW w \in Workers, NEW op \in env.ops \ {"refresh"}, Begin(w, op) PROVE SharingInv'
  BY <1>2, BeginStep
<1>3. CASE Refresh \/ Read(Refresher) \/ RefreshKeep
  BY <1>3, RefresherStep
<1>4. CASE RunTask \/ Expire
  BY <1>4, SameStep DEF RunTask, Expire, mysql, redis, locals
<1>5. CASE Flush
  BY <1>5, FlushStep
<1>6. CASE Crash
  BY <1>6 DEF Crash, Calm, Fails
<1>7. CASE UNCHANGED vars
  BY <1>7, SameStep DEF vars, changing
<1> QED BY <1>1, <1>2, <1>3, <1>4, <1>5, <1>6, <1>7 DEF Next

-----------------------------------------------------------------------------
InScenario == env \in Scenarios /\ (Calm => SharingInv)

LEMMA Invariance == Spec => []InScenario
<1>1. Init => InScenario
  BY SharingInit DEF Init, InScenario
<1>2. ASSUME InScenario, [Next /\ UNCHANGED env]_vars PROVE InScenario'
  <2>1. UNCHANGED env
    BY <1>2 DEF vars
  <2>2. CASE Calm
    BY <1>2, <2>1, <2>2, SharingStep DEF InScenario
  <2>3. CASE ~Calm
    BY <1>2, <2>1, <2>3 DEF InScenario, Calm
  <2> QED BY <2>2, <2>3
<1> QED BY <1>1, <1>2, PTL DEF Spec

LEMMA Rested ==
    ASSUME InScenario, AtRest
    PROVE  /\ RowsSound
           /\ \A f \in DOMAIN zset : f \in SharedFiles /\ f \in hash
           /\ \A r \in rows : r.file \in DOMAIN zset => zset[r.file] <= r.pv
<1>1. SharingInv /\ \A w \in Workers : pc[w] = "idle"
  BY DEF InScenario, AtRest, Calm, Quiet, Idle
<1> QED BY <1>1 DEF SharingInv, RankSound, Busy

(* A file has at most one row in share_file_list, although the unique key holds
   the user as well: handleShareFile looks for the file before it inserts. *)
THEOREM SharedOnce == Spec => []OneSharer
<1>1. InScenario => OneSharer
  <2> SUFFICES ASSUME InScenario, AtRest, NEW f \in Files PROVE Cardinality(RowsOf(f)) <= 1
    BY DEF OneSharer
  <2>1. \A r, s \in RowsOf(f) : r = s
    BY Rested DEF RowsSound, RowsOf
  <2>2. CASE RowsOf(f) = {}
    BY <2>2, FS_EmptySet
  <2>3. CASE RowsOf(f) # {}
    <3>1. PICK r \in RowsOf(f) : RowsOf(f) = {r}
      BY <2>1, <2>3
    <3> QED BY <3>1, FS_Singleton
  <2> QED BY <2>2, <2>3
<1> QED BY <1>1, Invariance, PTL

(* The sorted set ranks no file that MySQL does not list as shared: a cancel or a
   delete takes the file out of both, a share and a download put it into the first
   only when the second has it. *)
THEOREM RankedAreShared == Spec => []NoGhost
<1>1. InScenario => NoGhost
  BY Rested DEF NoGhost
<1> QED BY <1>1, Invariance, PTL

(* Every ranked file has its name in the hash when no request is under way. *)
THEOREM RankedAreNamed == Spec => []RankedHaveNames
<1>1. InScenario => RankedHaveNames
  BY Rested DEF RankedHaveNames
<1> QED BY <1>1, Invariance, PTL

(* Redis never counts a download that MySQL has not counted, whatever statements
   fail and whenever redis loses its data and is loaded again. *)
THEOREM RanksBehind == Spec => []ScoreNotAhead
<1>1. InScenario => ScoreNotAhead
  BY Rested DEF ScoreNotAhead
<1> QED BY <1>1, Invariance, PTL

-----------------------------------------------------------------------------
(* Types, with any faults and any number of requests at once.  A request under way
   has a user and a file; while the ranking is reloaded, what is left to load are
   rows; and the refresh hands over its answer when no other one waits. *)
Loading == {"list: load", "list: load name"}
RefresherSteps == {"idle", "list: members", "list: details", "list: keep"}
Typed(w) ==
    /\ ~Idle(w) => U(w) \in Users /\ F(w) \in Files
    /\ pc[w] \in Loading => todo[w] \subseteq Rows
Tables ==
    /\ status \in [Users \X Files -> {0, 1, NoRow}]
    /\ rows \subseteq Rows /\ IsFiniteSet(rows)
Ranks == IsList(zset) /\ hash \subseteq Files
Cached ==
    /\ kv = NoAnswer \/ IsAnswer(kv)
    /\ tasks = <<>> \/ (tasks = <<tasks[1]>> /\ IsAnswer(tasks[1]))
Locals ==
    /\ pc = [t \in Threads |-> pc[t]]
    /\ req \in [Threads -> Requests] /\ num \in [Threads -> Nat]
    /\ todo \in [Threads -> SUBSET (Rows \cup Files)]
    /\ answer = [t \in Threads |-> answer[t]] /\ \A t \in Threads : IsAnswer(answer[t])
    /\ \A w \in Workers : Typed(w)
Turns == pc[Refresher] \in RefresherSteps /\ (tasks # <<>> => Idle(Refresher))
TypeInv == env \in Scenarios /\ Tables /\ Ranks /\ Cached /\ Locals /\ Turns

LEMMA TypeInvImplies == TypeInv => TypeOK
BY DEF TypeInv, Tables, Ranks, Cached, Locals, TypeOK

LEMMA TypeInit == Init => TypeInv
<1> SUFFICES ASSUME Init PROVE TypeInv
  OBVIOUS
<1>1. PICK owner \in env.users :
        /\ status = [x \in Users \X Files |-> IF x[1] = owner /\ x[2] \in env.shared THEN 1 ELSE 0]
        /\ rows = {[user |-> owner, file |-> f, pv |-> 0, n |-> 1] : f \in env.shared}
  BY DEF Init
<1>2. env \in Scenarios /\ owner \in Users /\ env.shared \subseteq Files
  BY <1>1, SharingAssumption DEF Init, Scenario
<1>3. IsFiniteSet(rows)
  <2> DEFINE g == [f \in env.shared |-> [user |-> owner, file |-> f, pv |-> 0, n |-> 1]]
  <2>1. g \in Surjection(env.shared, rows)
    BY <1>1 DEF Surjection
  <2>2. IsFiniteSet(env.shared)
    BY <1>2, SharingAssumption, FS_Subset
  <2> QED BY <2>1, <2>2, FS_Surjection
<1>4. Tables
  BY <1>1, <1>2, <1>3 DEF Tables, Rows
<1>5. Ranks /\ Cached
  BY <1>2 DEF Init, Ranks, Cached, IsList
<1>6. Locals /\ Turns
  BY DEF Init, Locals, Turns, Typed, Idle, Loading, RefresherSteps, Requests, IsAnswer, Threads
<1> QED BY <1>2, <1>4, <1>5, <1>6 DEF TypeInv

(* Thread t moves, the others stay where they are. *)
Controlled(t) == Locals' /\ \A u \in Threads \ {t} : pc'[u] = pc[u]

LEMMA DoneTypes ==
    ASSUME Locals, NEW t \in Threads, Done(t)
    PROVE  Controlled(t) /\ pc'[t] = "idle"
<1> USE DEF Done, Go
<1>1. pc' = [u \in Threads |-> pc'[u]] /\ pc'[t] = "idle" /\ \A u \in Threads \ {t} : pc'[u] = pc[u]
  BY DEF Locals
<1>2. req' \in [Threads -> Requests] /\ num' \in [Threads -> Nat]
      /\ todo' \in [Threads -> SUBSET (Rows \cup Files)]
  BY DEF Locals, Requests
<1>3. answer' = [u \in Threads |-> answer'[u]] /\ \A u \in Threads : IsAnswer(answer[u])'
  BY DEF Locals, IsAnswer, IsList
<1>4. ASSUME NEW w \in Workers PROVE Typed(w)'
  BY <1>1 DEF Locals, Typed, Idle, Loading, U, F, Threads
<1> QED BY <1>1, <1>2, <1>3, <1>4 DEF Locals, Controlled

LEMMA GoTypes ==
    ASSUME Locals, NEW t \in Threads, NEW s, Go(t, s), UNCHANGED <<req, num>>,
           t \in Workers => ~Idle(t),
           todo' \in [Threads -> SUBSET (Rows \cup Files)], \A u \in Threads \ {t} : todo'[u] = todo[u],
           s \in Loading => todo'[t] \subseteq Rows,
           answer' = [u \in Threads |-> answer'[u]], \A u \in Threads : IsAnswer(answer[u])'
    PROVE  Controlled(t) /\ pc'[t] = s
<1>1. pc' = [u \in Threads |-> pc'[u]] /\ pc'[t] = s /\ \A u \in Threads \ {t} : pc'[u] = pc[u]
  BY DEF Locals, Go
<1>2. ASSUME NEW w \in Workers PROVE Typed(w)'
  BY <1>1 DEF Locals, Typed, Idle, U, F, Threads
<1> QED BY <1>1, <1>2 DEF Locals, Controlled

LEMMA NextTypes ==
    ASSUME Locals, NEW t \in Threads, NEW s, Next_(t, s),
           t \in Workers => ~Idle(t), s \in Loading => todo[t] \subseteq Rows
    PROVE  Controlled(t) /\ pc'[t] = s
<1>1. CASE s = "idle"
  BY <1>1, DoneTypes DEF Next_
<1>2. CASE s # "idle"
  <2>1. Go(t, s) /\ UNCHANGED <<req, num, todo, answer>>
    BY <1>2 DEF Next_, locals
  <2>2. todo' \in [Threads -> SUBSET (Rows \cup Files)] /\ answer' = [u \in Threads |-> answer'[u]]
        /\ \A u \in Threads : IsAnswer(answer[u])'
    BY <2>1 DEF Locals, IsAnswer, IsList
  <2> QED BY <2>1, <2>2, GoTypes
<1> QED BY <1>1, <1>2

LEMMA RememberTypes ==
    ASSUME Locals, NEW t \in Workers, ~Idle(t), NEW n \in Nat, NEW s, s \notin Loading, Remember(t, n, s)
    PROVE  Controlled(t)
<1>1. t \in Threads /\ num' \in [Threads -> Nat] /\ UNCHANGED <<req, todo, answer>>
  BY DEF Remember, Locals, Threads
<1>2. pc' = [u \in Threads |-> pc'[u]] /\ pc'[t] = s /\ \A u \in Threads \ {t} : pc'[u] = pc[u]
  BY <1>1 DEF Locals, Remember, Go
<1>3. ASSUME NEW w \in Workers PROVE Typed(w)'
  BY <1>1, <1>2 DEF Locals, Typed, Idle, U, F, Threads
<1>4. \A u \in Threads : IsAnswer(answer[u])'
  BY <1>1 DEF Locals, IsAnswer, IsList
<1> QED BY <1>1, <1>2, <1>3, <1>4 DEF Locals, Controlled

LEMMA TakeTypes ==
    ASSUME Locals, NEW t \in Threads, t \in Workers => ~Idle(t), NEW S \in SUBSET (Rows \cup Files), NEW s,
           s \in Loading => S \subseteq Rows, Take(t, S, s)
    PROVE  Controlled(t) /\ pc'[t] = s
<1>1. todo' \in [Threads -> SUBSET (Rows \cup Files)] /\ todo'[t] = S
      /\ \A u \in Threads \ {t} : todo'[u] = todo[u]
  BY DEF Take, Locals
<1>2. answer' = [u \in Threads |-> answer'[u]] /\ \A u \in Threads : IsAnswer(answer[u])'
  BY DEF Take, Locals, IsAnswer, IsList
<1> QED BY <1>1, <1>2, GoTypes DEF Take

LEMMA AnsweredTypes ==
    ASSUME Locals, NEW t \in Threads, t \in Workers => ~Idle(t), NEW a, IsAnswer(a), Answered(t, a)
    PROVE  Controlled(t) /\ pc'[t] = "list: keep"
<1>1. answer' = [u \in Threads |-> answer'[u]] /\ \A u \in Threads : IsAnswer(answer[u])'
  <2>1. answer' = [answer EXCEPT ![t] = a] /\ answer = [u \in Threads |-> answer[u]]
    BY DEF Answered, Locals
  <2>2. ASSUME NEW u \in Threads PROVE IsAnswer(answer[u])'
    <3>1. CASE u = t
      <4>1. answer'[u] = a
        BY <2>1, <3>1
      <4> QED BY <4>1 DEF IsAnswer, IsList
    <3>2. CASE u # t
      <4>1. answer'[u] = answer[u] /\ IsAnswer(answer[u])
        BY <2>1, <3>2 DEF Locals
      <4> QED BY <4>1 DEF IsAnswer, IsList
    <3> QED BY <3>1, <3>2
  <2> QED BY <2>1, <2>2
<1>2. todo' \in [Threads -> SUBSET (Rows \cup Files)] /\ UNCHANGED <<req, num, todo>>
  BY DEF Answered, Locals
<1> QED BY <1>1, <1>2, GoTypes DEF Answered, Loading

LEMMA DieTypes ==
    ASSUME TypeInv, Die, UNCHANGED env
    PROVE  TypeInv'
<1>1. Locals'
  <2>1. \A w \in Workers : Typed(w)'
    BY DEF Die, Typed, Idle, Loading, Threads
  <2>2. answer' = [t \in Threads |-> answer'[t]] /\ \A t \in Threads : IsAnswer(answer[t])'
    BY DEF Die, IsAnswer, IsList
  <2>3. /\ pc' = [t \in Threads |-> pc'[t]] /\ req' \in [Threads -> Requests]
        /\ num' \in [Threads -> Nat] /\ todo' \in [Threads -> SUBSET (Rows \cup Files)]
    BY DEF Die, Requests
  <2> QED BY <2>1, <2>2, <2>3 DEF Locals
<1>2. Turns' /\ Cached'
  BY DEF Die, Turns, Cached, RefresherSteps, Threads
<1>3. Tables' /\ Ranks'
  BY DEF Die, TypeInv, Tables, Ranks, mysql, redis, IsList
<1> QED BY <1>1, <1>2, <1>3 DEF TypeInv

(* What a worker's step does to the tables *)
LEMMA NewRowTypes ==
    ASSUME TypeInv, NEW w \in Workers, ~Idle(w)
    PROVE  NewRow(w) \in Rows
<1> DEFINE R == RowsOf(F(w))
           N == {r.n : r \in R}
           g == [r \in R |-> r.n]
           k == Cardinality(R)
<1>1. IsFiniteSet(R)
  BY FS_Subset DEF TypeInv, Tables, RowsOf
<1>2. g \in Surjection(R, N)
  BY DEF Surjection
<1>3. IsFiniteSet(N) /\ Cardinality(N) <= k /\ k \in Nat
  BY <1>1, <1>2, FS_Surjection, FS_CardinalityType
<1>4. \E n \in 1..k + 1 : n \notin N
  <2> SUFFICES ASSUME 1..k + 1 \subseteq N PROVE FALSE
    OBVIOUS
  <2>1. Cardinality(1..k + 1) = k + 1
    BY <1>3, FS_Interval
  <2>2. Cardinality(1..k + 1) <= Cardinality(N) /\ Cardinality(N) \in Nat
    BY <1>3, FS_Subset, FS_CardinalityType
  <2> QED BY <1>3, <2>1, <2>2
<1>5. \E n \in 1..k + 1 : \A r \in R : r.n # n
  BY <1>4
<1>6. NewRow(w).n \in 1..k + 1
  BY <1>5 DEF NewRow
<1>7. U(w) \in Users /\ F(w) \in Files
  BY DEF TypeInv, Locals, Typed
<1> HIDE DEF k
<1>8. NewRow(w).n \in Nat \ {0}
  BY <1>3, <1>6
<1> QED BY <1>7, <1>8 DEF NewRow, Rows

LEMMA Changes ==
    ASSUME TypeInv, NEW w \in Workers, Step(w), ~Die, UNCHANGED env
    PROVE  ~Idle(w) /\ Tables' /\ Ranks' /\ Cached'
<1>1. ~Idle(w)
  BY DEF Step, Obtain, Share, ShareLook, ShareCheck, ShareMark, ShareInsert, ShareForget, ShareRank, ShareName,
     Cancel, CancelMark, CancelRow, CancelForget, CancelRank, CancelName, Delete, DeleteLook, DeleteForget,
     DeleteRank, DeleteName, DeleteRow, DeleteUserRow, Pv, PvRead, PvWrite, PvForget, PvLook, PvAdd, PvName,
     PvIncr, List, ListGet, ListCount, ListCompare, ListDrop, ListDropNames, ListSelect, ListLoad,
     ListLoadName, ListKeep, Read, ReadMembers, ReadDetails, Test, Statement, Command, Forget, At, Idle
<1>2. U(w) \in Users /\ F(w) \in Files /\ num[w] \in Nat /\ w \in Threads
  BY <1>1 DEF TypeInv, Locals, Typed, Threads
<1>3. Tables'
  <2>1. CASE UNCHANGED mysql
    BY <2>1 DEF TypeInv, Tables, mysql
  <2>2. ASSUME NEW s \in {0, 1}, SetStatus(w, s) PROVE Tables'
    BY <1>2, <2>2 DEF TypeInv, Tables, SetStatus
  <2>3. ASSUME status' = [status EXCEPT ![<<U(w), F(w)>>] = NoRow] /\ UNCHANGED rows PROVE Tables'
    BY <1>2, <2>3 DEF TypeInv, Tables
  <2>4. ASSUME status' = [status EXCEPT ![<<U(w), F(w)>>] = IF @ = NoRow THEN 0 ELSE @] /\ UNCHANGED rows
        PROVE  Tables'
    BY <1>2, <2>4 DEF TypeInv, Tables
  <2>5. ASSUME NEW R, SetRows(R), R \subseteq Rows, IsFiniteSet(R) PROVE Tables'
    BY <2>5 DEF TypeInv, Tables, SetRows
  <2>6. ASSUME SetRows(rows \ OwnRows(w)) PROVE Tables'
    <3>1. rows \ OwnRows(w) \subseteq Rows /\ IsFiniteSet(rows \ OwnRows(w))
      BY FS_Subset DEF TypeInv, Tables
    <3> QED BY <2>5, <2>6, <3>1
  <2>7. ASSUME SetRows(rows \cup {NewRow(w)}) PROVE Tables'
    <3>1. rows \cup {NewRow(w)} \subseteq Rows /\ IsFiniteSet(rows \cup {NewRow(w)})
      BY <1>1, NewRowTypes, FS_AddElement DEF TypeInv, Tables
    <3> QED BY <2>5, <2>7, <3>1
  <2>8. ASSUME PvWrite(w) PROVE Tables'
    <3> DEFINE counted == {[r EXCEPT !.pv = num[w] + 1] : r \in RowsOf(F(w))}
    <3>1. counted \subseteq Rows
      BY <1>2 DEF TypeInv, Tables, RowsOf, Rows
    <3>2. IsFiniteSet(counted)
      <4> DEFINE g == [r \in RowsOf(F(w)) |-> [r EXCEPT !.pv = num[w] + 1]]
      <4>1. g \in Surjection(RowsOf(F(w)), counted)
        BY DEF Surjection
      <4>2. IsFiniteSet(RowsOf(F(w)))
        BY FS_Subset DEF TypeInv, Tables, RowsOf
      <4> QED BY <4>1, <4>2, FS_Surjection
    <3>3. IsFiniteSet(rows \ RowsOf(F(w)))
      BY FS_Subset DEF TypeInv, Tables
    <3>4. (rows \ RowsOf(F(w))) \cup counted \subseteq Rows /\ IsFiniteSet((rows \ RowsOf(F(w))) \cup counted)
      BY <3>1, <3>2, <3>3, FS_Union DEF TypeInv, Tables
    <3>5. UNCHANGED mysql \/ SetRows((rows \ RowsOf(F(w))) \cup counted)
      BY <2>8 DEF PvWrite, Statement
    <3> QED BY <2>1, <2>5, <3>4, <3>5
  <2>9. CASE Obtain(w)
    BY <2>1, <2>4, <2>9 DEF Obtain, Statement
  <2>10. CASE Share(w)
    BY <2>1, <2>2, <2>7, <2>10 DEF Share, ShareLook, ShareCheck, ShareMark, ShareInsert, ShareForget, ShareRank,
       ShareName, Test, Statement, Command, Forget
  <2>11. CASE Cancel(w)
    BY <2>1, <2>2, <2>6, <2>11 DEF Cancel, CancelMark, CancelRow, CancelForget, CancelRank, CancelName,
       Statement, Command, Forget
  <2>12. CASE Delete(w)
    BY <2>1, <2>3, <2>6, <2>12 DEF Delete, DeleteLook, DeleteForget, DeleteRank, DeleteName, DeleteRow,
       DeleteUserRow, Test, Statement, Command, Forget
  <2>13. CASE Pv(w)
    BY <2>1, <2>8, <2>13 DEF Pv, PvRead, PvForget, PvLook, PvAdd, PvName, PvIncr, Test, Command, Forget
  <2>14. CASE List(w) \/ Read(w)
    BY <2>1, <2>14 DEF List, ListGet, ListCount, ListCompare, ListDrop, ListDropNames, ListSelect, ListLoad,
       ListLoadName, ListKeep, Read, ReadMembers, ReadDetails, Test, Command
  <2> QED BY <2>9, <2>10, <2>11, <2>12, <2>13, <2>14 DEF Step
<1>4. Ranks'
  <2>1. CASE UNCHANGED redis
    BY <2>1 DEF TypeInv, Ranks, redis, IsList
  <2>2. ASSUME NEW z, SetRanks(z), IsList(z) PROVE Ranks'
    BY <2>2 DEF TypeInv, Ranks, SetRanks, IsList
  <2>3. ASSUME NEW h, SetNames(h), h \subseteq Files PROVE Ranks'
    BY <2>3 DEF TypeInv, Ranks, SetNames, IsList
  <2>4. ASSUME NEW f \in Files, NEW n \in Nat, SetRanks(With(f, n)) PROVE Ranks'
    <3>1. IsList(With(f, n))
      BY DEF TypeInv, Ranks, IsList, With
    <3> QED BY <2>2, <2>4, <3>1
  <2>5. ASSUME NEW S, SetRanks(Restrict(zset, S)), S \subseteq DOMAIN zset PROVE Ranks'
    <3>1. IsList(Restrict(zset, S))
      BY <2>5 DEF TypeInv, Ranks, IsList, Restrict
    <3> QED BY <2>2, <2>5, <3>1
  <2>6. ASSUME SetRanks(Without(F(w))) PROVE Ranks'
    BY <2>5, <2>6 DEF Without
  <2>7. hash \cup {F(w)} \subseteq Files /\ hash \ {F(w)} \subseteq Files /\ {} \subseteq Files
    BY <1>2 DEF TypeInv, Ranks
  <2>8. num[w] + 1 \in Nat /\ 0 \in Nat /\ Incremented(F(w)) \in Nat
    BY <1>2 DEF TypeInv, Ranks, IsList, Incremented
  <2>9. CASE Obtain(w)
    BY <2>1, <2>9 DEF Obtain, Statement
  <2>10. CASE Share(w)
    BY <1>2, <2>1, <2>3, <2>4, <2>7, <2>8, <2>10 DEF Share, ShareLook, ShareCheck, ShareMark, ShareInsert,
       ShareForget, ShareRank, ShareName, Test, Statement, Command, Forget
  <2>11. CASE Cancel(w)
    BY <2>1, <2>3, <2>6, <2>7, <2>11 DEF Cancel, CancelMark, CancelRow, CancelForget, CancelRank, CancelName,
       Statement, Command, Forget
  <2>12. CASE Delete(w)
    BY <2>1, <2>3, <2>6, <2>7, <2>12 DEF Delete, DeleteLook, DeleteForget, DeleteRank, DeleteName, DeleteRow,
       DeleteUserRow, Test, Statement, Command, Forget
  <2>13. CASE Pv(w)
    BY <1>2, <2>1, <2>3, <2>4, <2>7, <2>8, <2>13 DEF Pv, PvRead, PvWrite, PvForget, PvLook, PvAdd, PvName,
       PvIncr, Test, Statement, Command, Forget
  <2>14. CASE List(w) \/ Read(w)
    <3>1. ASSUME ListDrop(w) PROVE Ranks'
      <4>1. SetRanks(Restrict(zset, {})) \/ UNCHANGED redis
        BY <3>1 DEF ListDrop, Command
      <4>2. {} \subseteq DOMAIN zset
        OBVIOUS
      <4>3. ASSUME SetRanks(Restrict(zset, {})) PROVE Ranks'
        BY ONLY <4>2, <4>3, <2>5
      <4> QED BY <2>1, <4>1, <4>3
    <3>2. ASSUME ListLoad(w) PROVE Ranks'
      <4>1. todo[w] \subseteq Rows
        BY <3>2 DEF ListLoad, At, TypeInv, Locals, Typed, Loading
      <4>2. \A r \in todo[w] : r.file \in Files /\ r.pv \in Nat
        BY <4>1 DEF Rows
      <4> QED BY <2>1, <2>4, <3>2, <4>2 DEF ListLoad
    <3>3. ASSUME ListDropNames(w) \/ ListLoadName(w) PROVE Ranks'
      BY <2>1, <2>3, <2>7, <3>3 DEF ListDropNames, ListLoadName, Command
    <3>4. ASSUME ListGet(w) \/ ListCount(w) \/ ListCompare(w) \/ ListSelect(w) \/ ListKeep(w) \/ Read(w)
          PROVE  Ranks'
      BY <2>1, <3>4 DEF ListGet, ListCount, ListCompare, ListSelect, ListKeep, Read, ReadMembers, ReadDetails, Test
    <3> QED BY <2>14, <3>1, <3>2, <3>3, <3>4 DEF List
  <2> QED BY <2>9, <2>10, <2>11, <2>12, <2>13, <2>14 DEF Step
<1>5. Cached'
  <2>1. CASE UNCHANGED cache
    BY <2>1 DEF TypeInv, Cached, cache, IsAnswer, IsList
  <2>2. ASSUME kv' = NoAnswer, UNCHANGED tasks PROVE Cached'
    BY <2>2 DEF TypeInv, Cached, IsAnswer, IsList
  <2>3. ASSUME ListKeep(w) PROVE Cached'
    <3>1. IsAnswer(answer[w]) /\ kv' = answer[w] /\ UNCHANGED tasks
      BY <1>2, <2>3 DEF TypeInv, Locals, ListKeep
    <3> QED BY <3>1 DEF TypeInv, Cached, IsAnswer, IsList
  <2>4. ASSUME NEW from, NEW to, Forget(w, from, to) PROVE Cached'
    BY <2>2, <2>4 DEF Forget
  <2> QED BY <2>1, <2>3, <2>4 DEF Step, Obtain, Share, ShareLook, ShareCheck, ShareMark, ShareInsert, ShareForget,
     ShareRank, ShareName, Cancel, CancelMark, CancelRow, CancelForget, CancelRank, CancelName, Delete, DeleteLook,
     DeleteForget, DeleteRank, DeleteName, DeleteRow, DeleteUserRow, Pv, PvRead, PvWrite, PvForget, PvLook, PvAdd,
     PvName, PvIncr, List, ListGet, ListCount, ListCompare, ListDrop, ListDropNames, ListSelect, ListLoad,
     ListLoadName, Read, ReadMembers, ReadDetails, Test, Statement, Command
<1> QED BY <1>1, <1>3, <1>4, <1>5

(* The part that the refreshing thread shares with the request *)
LEMMA ReadMoves ==
    ASSUME TypeInv, NEW t \in Threads, Read(t), t \in Workers => ~Idle(t)
    PROVE  Controlled(t) /\ UNCHANGED <<mysql, redis, cache>> /\ pc'[t] \in {"list: details", "list: keep"}
<1>0. Locals /\ DOMAIN zset \subseteq Files /\ zset \in [DOMAIN zset -> Nat]
  BY DEF TypeInv, Ranks, IsList
<1>1. ASSUME Answered(t, Failed) PROVE Controlled(t) /\ pc'[t] = "list: keep"
  BY <1>0, <1>1, AnsweredTypes DEF IsAnswer
<1> DEFINE Moved == Controlled(t) /\ pc'[t] \in {"list: details", "list: keep"}
<1>2. ASSUME ReadMembers(t) PROVE Moved
  <2>1. ASSUME Take(t, DOMAIN zset, "list: details") PROVE Controlled(t) /\ pc'[t] = "list: details"
    <3>1. DOMAIN zset \in SUBSET (Rows \cup Files)
      BY <1>0
    <3> QED BY <1>0, <2>1, <3>1, TakeTypes DEF Loading
  <2> QED BY <1>1, <1>2, <2>1 DEF ReadMembers, Test
<1>3. ASSUME ReadDetails(t) PROVE Moved
  <2>1. ASSUME todo[t] \subseteq hash \cap DOMAIN zset, Answered(t, [code |-> 0, list |-> Restrict(zset, todo[t])])
        PROVE  Controlled(t) /\ pc'[t] = "list: keep"
    <3> DEFINE a == [code |-> 0, list |-> Restrict(zset, todo[t])]
    <3>1. IsAnswer(a)
      <4>1. IsList(a.list)
        BY <1>0, <2>1 DEF IsList, Restrict
      <4> QED BY <4>1 DEF IsAnswer
    <3> HIDE DEF a
    <3> QED BY <1>0, <2>1, <3>1, AnsweredTypes DEF a
  <2> QED BY <1>1, <1>3, <2>1 DEF ReadDetails, Test
<1>4. UNCHANGED <<mysql, redis, cache>>
  BY DEF Read, ReadMembers, ReadDetails, Test
<1> QED BY <1>2, <1>3, <1>4 DEF Read

(* What a worker's step does to its own state *)
LEMMA WorkerMoves ==
    ASSUME TypeInv, NEW w \in Workers, Step(w), ~Die, ~Idle(w)
    PROVE  Controlled(w)
<1>0. Locals /\ w \in Threads
  BY DEF TypeInv, Threads
<1>1. ASSUME NEW s, Next_(w, s), s \notin Loading PROVE Controlled(w)
  BY <1>0, <1>1, NextTypes
<1>2. ASSUME Done(w) PROVE Controlled(w)
  BY <1>0, <1>2, DoneTypes
<1>3. ASSUME NEW n \in Nat, NEW s, s \notin Loading, Remember(w, n, s) PROVE Controlled(w)
  BY <1>0, <1>3, RememberTypes
<1>4. ASSUME Answered(w, Failed) PROVE Controlled(w)
  BY <1>0, <1>4, AnsweredTypes DEF IsAnswer
<1>5. CASE Obtain(w)
  BY <1>1, <1>2, <1>5 DEF Obtain, Statement, Loading
<1>6. CASE Share(w)
  BY <1>1, <1>2, <1>6 DEF Share, ShareLook, ShareCheck, ShareMark, ShareInsert, ShareForget, ShareRank, ShareName,
     Test, Statement, Command, Forget, Loading
<1>7. CASE Cancel(w)
  BY <1>1, <1>2, <1>7 DEF Cancel, CancelMark, CancelRow, CancelForget, CancelRank, CancelName, Statement, Command,
     Forget, Loading
<1>8. CASE Delete(w)
  <2>1. ASSUME DeleteLook(w) PROVE Controlled(w)
    BY <1>1, <2>1 DEF DeleteLook, Test, Loading
  <2> QED BY <1>1, <1>2, <1>8, <2>1 DEF Delete, DeleteForget, DeleteRank, DeleteName, DeleteRow, DeleteUserRow,
       Statement, Command, Forget, Loading
<1>9. CASE Pv(w)
  <2>1. ASSUME PvRead(w) PROVE Controlled(w)
    <3>1. \A r \in RowsOf(F(w)) : r.pv \in Nat
      BY DEF TypeInv, Tables, RowsOf, Rows
    <3>2. ASSUME NEW r \in RowsOf(F(w)), Remember(w, r.pv, "pv: write") PROVE Controlled(w)
      <4>1. r.pv \in Nat /\ "pv: write" \notin Loading
        BY <3>1 DEF Loading
      <4> QED BY <1>3, <3>2, <4>1
    <3> QED BY <1>2, <2>1, <3>2 DEF PvRead, Test
  <2>2. ASSUME PvLook(w) PROVE Controlled(w)
    <3>1. PICK r \in ZsetExit(F(w)) :
            Next_(w, CASE r = 0 -> "pv: add" [] r = 1 -> "pv: incr" [] OTHER -> "idle")
      BY <2>2 DEF PvLook, Test
    <3>2. \E s \in {"pv: add", "pv: incr", "idle"} : Next_(w, s)
      BY <3>1
    <3> QED BY <1>1, <3>2 DEF Loading
  <2> QED BY <1>1, <1>2, <1>9, <2>1, <2>2 DEF Pv, PvWrite, PvForget, PvAdd, PvName, PvIncr, Statement, Command,
       Forget, Loading
<1>10. CASE List(w)
  <2>1. ASSUME ListCount(w) PROVE Controlled(w)
    <3>1. Cardinality(rows) \in Nat
      BY FS_CardinalityType DEF TypeInv, Tables
    <3> QED BY <1>3, <1>4, <2>1, <3>1 DEF ListCount, Test, Loading
  <2>2. ASSUME ListSelect(w) PROVE Controlled(w)
    <3>1. rows \subseteq Rows
      BY DEF TypeInv, Tables
    <3>2. ASSUME Take(w, rows, "list: load") PROVE Controlled(w)
      BY <1>0, <3>1, <3>2, TakeTypes
    <3> QED BY <1>4, <2>2, <3>2 DEF ListSelect, Test
  <2>3. ASSUME ListLoadName(w) PROVE Controlled(w)
    <3>1. Next_(w, "list: load") /\ todo[w] \subseteq Rows
      BY <1>0, <2>3 DEF ListLoadName, Command, At, Locals, Typed, Loading
    <3> QED BY <1>0, <3>1, NextTypes
  <2>4. ASSUME ListLoad(w) PROVE Controlled(w)
    <3>1. CASE Next_(w, "list: members")
      BY <1>1, <3>1 DEF Loading
    <3>2. ASSUME NEW r \in todo[w],
                 todo' = [todo EXCEPT ![w] = @ \ {r}], req' = [req EXCEPT ![w].file = r.file],
                 Go(w, "list: load name"), UNCHANGED <<num, answer>>
          PROVE  Controlled(w)
      <4>1. todo[w] \subseteq Rows /\ r \in Rows /\ r.file \in Files
        BY <1>0, <2>4, <3>2 DEF ListLoad, At, Locals, Typed, Loading, Rows
      <4>2. pc' = [u \in Threads |-> pc'[u]] /\ pc'[w] = "list: load name"
            /\ \A u \in Threads \ {w} : pc'[u] = pc[u]
        BY <1>0, <3>2 DEF Locals, Go
      <4>3. req[w] \in Requests /\ req \in [Threads -> Requests] /\ U(w) \in Users
        BY <1>0 DEF Locals, Typed
      <4>4. req' \in [Threads -> Requests] /\ req'[w] = [user |-> U(w), file |-> r.file]
            /\ \A u \in Threads \ {w} : req'[u] = req[u]
        <5>1. [req[w] EXCEPT !.file = r.file] = [user |-> U(w), file |-> r.file]
          BY <4>3 DEF Requests, U
        <5>2. req' = [req EXCEPT ![w] = [user |-> U(w), file |-> r.file]]
          BY <3>2, <5>1
        <5>3. [user |-> U(w), file |-> r.file] \in Requests
          BY <4>1, <4>3 DEF Requests
        <5> QED BY <1>0, <4>3, <5>2, <5>3
      <4>5. todo' \in [Threads -> SUBSET (Rows \cup Files)] /\ todo'[w] \subseteq Rows
            /\ \A u \in Threads \ {w} : todo'[u] = todo[u]
        BY <1>0, <3>2, <4>1 DEF Locals
      <4>6. num' \in [Threads -> Nat] /\ answer' = [u \in Threads |-> answer'[u]]
            /\ \A u \in Threads : IsAnswer(answer[u])'
        BY <1>0, <3>2 DEF Locals, IsAnswer, IsList
      <4>7. ASSUME NEW v \in Workers PROVE Typed(v)'
        <5>1. CASE v = w
          BY <4>1, <4>3, <4>4, <4>5, <5>1 DEF Typed, U, F
        <5>2. CASE v # w
          BY <1>0, <4>2, <4>4, <4>5, <5>2 DEF Locals, Typed, Idle, U, F, Threads
        <5> QED BY <5>1, <5>2
      <4> QED BY <4>2, <4>4, <4>5, <4>6, <4>7 DEF Locals, Controlled
    <3> QED BY <2>4, <3>1, <3>2 DEF ListLoad
  <2> QED BY <1>1, <1>2, <1>4, <1>10, <2>1, <2>2, <2>3, <2>4 DEF List, ListGet, ListCompare, ListDrop,
       ListDropNames, ListKeep, Test, Command, Loading
<1>11. CASE Read(w)
  BY <1>0, <1>11, ReadMoves
<1> QED BY <1>5, <1>6, <1>7, <1>8, <1>9, <1>10, <1>11 DEF Step

LEMMA BeginTypes ==
    ASSUME TypeInv, NEW w \in Workers, NEW op \in env.ops \ {"refresh"}, Begin(w, op), UNCHANGED env
    PROVE  TypeInv'
<1>0. w \in Threads /\ env \in Scenario /\ Locals /\ UNCHANGED <<mysql, redis, cache, locals>>
  BY SharingAssumption DEF Begin, TypeInv, Threads
<1>1. PICK u \in env.users, f \in env.files : req' = [req EXCEPT ![w] = [user |-> u, file |-> f]]
  BY DEF Begin
<1>2. u \in Users /\ f \in Files
  BY <1>0, <1>1 DEF Scenario
<1>3. req' \in [Threads -> Requests] /\ req'[w] = [user |-> u, file |-> f]
      /\ \A t \in Threads \ {w} : req'[t] = req[t]
  <2>1. [user |-> u, file |-> f] \in Requests
    BY <1>2 DEF Requests
  <2> QED BY <1>0, <1>1, <2>1 DEF Locals
<1>4. FirstStep(op) \notin Loading
  <2>1. op \in {"obtain", "share", "cancel", "delete", "pv", "list"}
    BY <1>0 DEF Scenario, OpNames
  <2> QED BY <2>1 DEF FirstStep, Loading
<1>5. pc' = [t \in Threads |-> pc'[t]] /\ pc'[w] = FirstStep(op) /\ \A t \in Threads \ {w} : pc'[t] = pc[t]
  BY <1>0 DEF Begin, Go, Locals
<1>6. Locals'
  <2>1. ASSUME NEW v \in Workers PROVE Typed(v)'
    <3>1. CASE v = w
      BY <1>2, <1>3, <1>4, <1>5, <3>1 DEF Typed, U, F
    <3>2. CASE v # w
      BY <1>0, <1>3, <1>5, <3>2 DEF Locals, Typed, Idle, U, F, Threads, locals
    <3> QED BY <3>1, <3>2
  <2>2. num' \in [Threads -> Nat] /\ todo' \in [Threads -> SUBSET (Rows \cup Files)]
        /\ answer' = [t \in Threads |-> answer'[t]] /\ \A t \in Threads : IsAnswer(answer[t])'
    BY <1>0 DEF Locals, locals, IsAnswer, IsList
  <2> QED BY <1>3, <1>5, <2>1, <2>2 DEF Locals
<1>7. Tables' /\ Ranks' /\ Cached'
  BY <1>0 DEF TypeInv, Tables, Ranks, Cached, mysql, redis, cache, IsAnswer, IsList
<1>8. Turns'
  BY <1>0, <1>5, SharingAssumption DEF TypeInv, Turns, Idle, cache, Threads
<1> QED BY <1>6, <1>7, <1>8 DEF TypeInv

(* The refresh begins only when the last answer was taken over. *)
LEMMA RefresherTypes ==
    ASSUME TypeInv, Refresh \/ Read(Refresher) \/ RefreshKeep, UNCHANGED env
    PROVE  TypeInv'
<1>0. Refresher \in Threads /\ Refresher \notin Workers /\ Locals
  BY SharingAssumption DEF Threads, TypeInv
<1>1. CASE Refresh
  <2>1. Next_(Refresher, "list: members") /\ tasks = <<>> /\ UNCHANGED <<mysql, redis, cache>>
    BY <1>1 DEF Refresh
  <2>2. Controlled(Refresher) /\ pc'[Refresher] = "list: members"
    BY <1>0, <2>1, NextTypes DEF Loading
  <2>3. Tables' /\ Ranks' /\ Cached'
    BY <2>1 DEF TypeInv, Tables, Ranks, Cached, mysql, redis, cache, IsAnswer, IsList
  <2>4. Turns'
    BY <2>1, <2>2 DEF Turns, RefresherSteps, cache
  <2> QED BY <2>2, <2>3, <2>4 DEF TypeInv, Controlled
<1>2. CASE Read(Refresher)
  <2>1. Controlled(Refresher) /\ UNCHANGED <<mysql, redis, cache>>
        /\ pc'[Refresher] \in {"list: details", "list: keep"}
    BY <1>0, <1>2, ReadMoves
  <2>2. ~Idle(Refresher)
    BY <1>2 DEF Read, ReadMembers, ReadDetails, Test, At, Idle
  <2>3. Tables' /\ Ranks' /\ Cached'
    BY <2>1 DEF TypeInv, Tables, Ranks, Cached, mysql, redis, cache, IsAnswer, IsList
  <2>4. Turns'
    BY <2>1, <2>2 DEF TypeInv, Turns, RefresherSteps, cache
  <2> QED BY <2>1, <2>3, <2>4 DEF TypeInv, Controlled
<1>3. CASE RefreshKeep
  <2>1. Done(Refresher) /\ UNCHANGED <<mysql, redis, kv>> /\ tasks' = Append(tasks, answer[Refresher])
    BY <1>3 DEF RefreshKeep
  <2>2. Controlled(Refresher) /\ pc'[Refresher] = "idle"
    BY <1>0, <2>1, DoneTypes
  <2>3. tasks = <<>>
    BY <1>3 DEF RefreshKeep, At, TypeInv, Turns, Idle
  <2>4. tasks' = <<answer[Refresher]>> /\ IsAnswer(answer[Refresher])
    BY <1>0, <2>1, <2>3 DEF Locals
  <2>5. IsAnswer(tasks[1])' /\ tasks' = <<tasks'[1]>>
    BY <2>4 DEF IsAnswer, IsList
  <2>6. Tables' /\ Ranks' /\ Cached'
    BY <2>1, <2>5 DEF TypeInv, Tables, Ranks, Cached, mysql, redis, IsAnswer, IsList
  <2> QED BY <2>2, <2>6 DEF TypeInv, Controlled, Turns, RefresherSteps, Idle
<1> QED BY <1>1, <1>2, <1>3

(* A cached answer comes, goes, or redis loses its data. *)
LEMMA CacheTypes ==
    ASSUME TypeInv, RunTask \/ Expire \/ Flush \/ UNCHANGED changing, UNCHANGED env
    PROVE  TypeInv'
<1>1. UNCHANGED <<mysql, pc, req, locals>>
  BY DEF RunTask, Expire, Flush, changing, mysql, locals
<1>2. Tables'
  BY <1>1 DEF TypeInv, Tables, mysql
<1>3. Locals'
  <2>1. \A w \in Workers : Typed(w)'
    BY <1>1 DEF TypeInv, Locals, Typed, Idle, U, F, locals
  <2>2. \A t \in Threads : IsAnswer(answer[t])'
    BY <1>1 DEF TypeInv, Locals, IsAnswer, IsList, locals
  <2> QED BY <1>1, <2>1, <2>2 DEF TypeInv, Locals, locals
<1>4. Ranks'
  <2>1. CASE UNCHANGED redis
    BY <2>1 DEF TypeInv, Ranks, redis, IsList
  <2>2. CASE Flush
    BY <2>2 DEF Flush, Ranks, IsList, Restrict
  <2> QED BY <2>1, <2>2 DEF RunTask, Expire, changing, redis
<1>5. Cached' /\ Turns'
  <2>1. CASE RunTask
    <3>1. tasks = <<tasks[1]>> /\ IsAnswer(tasks[1])
      BY <2>1 DEF RunTask, TypeInv, Cached
    <3>2. kv' = tasks[1] /\ tasks' = <<>>
      <4>1. PICK a : tasks = <<a>>
        BY <3>1
      <4>2. Head(<<a>>) = a /\ Tail(<<a>>) = <<>>
        OBVIOUS
      <4> QED BY <2>1, <4>1, <4>2 DEF RunTask
    <3>3. IsAnswer(kv)'
      BY <3>1, <3>2 DEF IsAnswer, IsList
    <3> QED BY <1>1, <3>2, <3>3 DEF TypeInv, Cached, Turns, Idle
  <2>2. CASE Expire
    BY <1>1, <2>2 DEF Expire, TypeInv, Cached, Turns, Idle, IsAnswer, IsList
  <2>3. CASE UNCHANGED cache
    BY <1>1, <2>3 DEF TypeInv, Cached, Turns, Idle, IsAnswer, IsList, cache
  <2> QED BY <2>1, <2>2, <2>3 DEF Flush, changing, cache
<1> QED BY <1>2, <1>3, <1>4, <1>5 DEF TypeInv

LEMMA TypeStep ==
    ASSUME TypeInv, [Next /\ UNCHANGED env]_vars
    PROVE  TypeInv'
<1>1. UNCHANGED env
  BY DEF vars
<1>2. ASSUME NEW w \in Workers, Step(w) PROVE TypeInv'
  <2>1. CASE Die
    BY <1>1, <2>1, DieTypes
  <2>2. CASE ~Die
    <3>1. ~Idle(w) /\ Tables' /\ Ranks' /\ Cached'
      BY <1>1, <1>2, <2>2, Changes
    <3>2. Controlled(w)
      BY <1>2, <2>2, <3>1, WorkerMoves
    <3>3. UNCHANGED tasks
      BY <1>2, <2>2 DEF Step, Obtain, Share, ShareLook, ShareCheck, ShareMark, ShareInsert, ShareForget,
         ShareRank, ShareName, Cancel, CancelMark, CancelRow, CancelForget, CancelRank, CancelName, Delete,
         DeleteLook, DeleteForget, DeleteRank, DeleteName, DeleteRow, DeleteUserRow, Pv, PvRead, PvWrite,
         PvForget, PvLook, PvAdd, PvName, PvIncr, List, ListGet, ListCount, ListCompare, ListDrop,
         ListDropNames, ListSelect, ListLoad, ListLoadName, ListKeep, Read, ReadMembers, ReadDetails, Test,
         Statement, Command, Forget, cache
    <3>4. Turns'
      BY <3>2, <3>3, SharingAssumption DEF TypeInv, Turns, Idle, Controlled, Threads
    <3> QED BY <1>1, <3>1, <3>2, <3>4 DEF TypeInv, Controlled
  <2> QED BY <2>1, <2>2
<1>3. ASSUME NEW w \in Workers, NEW op \in env.ops \ {"refresh"}, Begin(w, op) PROVE TypeInv'
  BY <1>1, <1>3, BeginTypes
<1>4. CASE Refresh \/ Read(Refresher) \/ RefreshKeep
  BY <1>1, <1>4, RefresherTypes
<1>5. CASE RunTask \/ Expire \/ Flush \/ UNCHANGED vars
  BY <1>1, <1>5, CacheTypes DEF vars
<1>6. CASE Crash
  BY <1>1, <1>6, DieTypes DEF Crash
<1> QED BY <1>2, <1>3, <1>4, <1>5, <1>6 DEF Next

(* Tables, ranking list, cached answer and threads keep their types whatever fails
   and however the requests interleave, and no second answer waits for the worker
   of the cache. *)
THEOREM TypeCorrect == Spec => []TypeOK
<1>1. Spec => []TypeInv
  BY TypeInit, TypeStep, PTL DEF Spec
<1> QED BY <1>1, TypeInvImplies, PTL

-----------------------------------------------------------------------------
(* A ranking request, from the comparison of the counts to its answer. *)
Complete == DOMAIN zset = SharedFiles /\ SharedFiles \subseteq hash
Loaded(w, r) ==
    r.file \in DOMAIN zset /\ (r.file \in hash \/ (pc[w] = "list: load name" /\ r.file = F(w)))
Whole(w) ==
    /\ pc[w] = "list: compare" => num[w] = Cardinality(rows)
    /\ pc[w] \in Loading => \A r \in rows : r \in todo[w] \/ Loaded(w, r)
    /\ pc[w] \in {"list: members", "list: details"} => Complete
    /\ pc[w] = "list: details" => todo[w] = DOMAIN zset
    /\ pc[w] = "list: keep" => answer[w].code = 0 /\ DOMAIN answer[w].list = SharedFiles
Listing == {"list: compare", "list: members", "list: details", "list: keep"} \cup Loading

LEMMA NotListing == ASSUME NEW w, pc[w] \notin Listing PROVE Whole(w)
BY DEF Whole, Listing

LEMMA WholeStays ==
    ASSUME NEW w \in Workers, Whole(w), Untouched(w), DOMAIN answer = Threads, UNCHANGED <<rows, zset, hash>>
    PROVE  Whole(w)'
BY DEF Whole, Untouched, Complete, Loaded, SharedFiles, F

(* With one row per file and nothing but shared files ranked, equal counts mean that
   both sets are the same. *)
LEMMA EqualCounts ==
    ASSUME RowsSound, IsFiniteSet(rows), DOMAIN zset \subseteq SharedFiles,
           Cardinality(DOMAIN zset) = Cardinality(rows)
    PROVE  DOMAIN zset = SharedFiles
<1> DEFINE g == [r \in rows |-> r.file]
<1>1. g \in Surjection(rows, SharedFiles) /\ g \in Injection(rows, SharedFiles)
  BY DEF Surjection, Injection, SharedFiles, RowsSound, IsInjective
<1>2. IsFiniteSet(SharedFiles) /\ Cardinality(SharedFiles) = Cardinality(rows)
  BY <1>1, FS_Surjection
<1> QED BY <1>2, FS_Subset

(* Only a ranking request gets to these steps. *)
LEMMA NextPlace ==
    ASSUME NEW w \in Workers, pc = [t \in Threads |-> pc[t]]
    PROVE  /\ \A s : Next_(w, s) => pc'[w] = s
           /\ Done(w) => pc'[w] = "idle"
           /\ \A n, s : Remember(w, n, s) => pc'[w] = s /\ (DOMAIN num = Threads => num'[w] = n)
           /\ \A S, s : Take(w, S, s) => pc'[w] = s /\ (DOMAIN todo = Threads => todo'[w] = S)
           /\ \A a : Answered(w, a) => pc'[w] = "list: keep" /\ (DOMAIN answer = Threads => answer'[w] = a)
<1>1. w \in Threads /\ DOMAIN pc = Threads
  BY DEF Threads
<1> QED BY <1>1 DEF Next_, Done, Remember, Take, Answered, Go

LEMMA ElsewhereStep ==
    ASSUME NEW w \in Workers, pc = [t \in Threads |-> pc[t]],
           Obtain(w) \/ Share(w) \/ Cancel(w) \/ Delete(w) \/ Pv(w)
    PROVE  pc'[w] \notin Listing
<1> DEFINE Away == {"idle", "share: check", "share: rank", "share: mark", "share: insert", "share: forget",
                    "share: name", "cancel: row", "cancel: forget", "cancel: rank", "cancel: name",
                    "delete: forget", "delete: user row", "delete: rank", "delete: name", "delete: row",
                    "pv: write", "pv: forget", "pv: look", "pv: add", "pv: incr", "pv: name"}
<1>1. Away \cap Listing = {}
  BY DEF Listing, Loading
<1>a. ASSUME NEW s \in Away, Next_(w, s) PROVE pc'[w] \notin Listing
  <2>1. pc'[w] = s
    BY <1>a, NextPlace
  <2> QED BY <1>1, <2>1
<1>d. ASSUME Done(w) PROVE pc'[w] \notin Listing
  <2>1. pc'[w] = "idle"
    BY <1>d, NextPlace
  <2> QED BY <1>1, <2>1
<1>2. CASE Obtain(w) \/ Share(w)
  <2>1. (\E s \in Away : Next_(w, s)) \/ Done(w)
    BY <1>2 DEF Obtain, Share, ShareLook, ShareCheck, ShareMark, ShareInsert, ShareForget, ShareRank, ShareName,
       Test, Statement, Command, Forget
  <2> QED BY <1>a, <1>d, <2>1
<1>3. CASE Cancel(w)
  <2>1. (\E s \in Away : Next_(w, s)) \/ Done(w)
    BY <1>3 DEF Cancel, CancelMark, CancelRow, CancelForget, CancelRank, CancelName, Statement, Command, Forget
  <2> QED BY <1>a, <1>d, <2>1
<1>4. CASE Delete(w)
  <2>1. (\E s \in Away : Next_(w, s)) \/ Done(w) \/ Die
    BY <1>4 DEF Delete, DeleteLook, DeleteForget, DeleteRank, DeleteName, DeleteRow, DeleteUserRow,
       Test, Statement, Command, Forget
  <2>2. Die => pc'[w] = "idle"
    BY DEF Die, Threads
  <2> QED BY <1>a, <1>d, <1>1, <2>1, <2>2
<1>5. CASE Pv(w)
  <2>1. (\E s \in Away : Next_(w, s)) \/ Done(w) \/ \E n : Remember(w, n, "pv: write")
    BY <1>5 DEF Pv, PvRead, PvWrite, PvForget, PvLook, PvAdd, PvName, PvIncr, Test, Statement, Command, Forget, ZsetExit
  <2>2. ASSUME NEW n, Remember(w, n, "pv: write") PROVE pc'[w] \notin Listing
    <3>1. pc'[w] = "pv: write"
      BY <2>2, NextPlace
    <3> QED BY <1>1, <3>1
  <2> QED BY <1>a, <1>d, <2>1, <2>2
<1> QED BY <1>2, <1>3, <1>4, <1>5

LEMMA ListingStep ==
    ASSUME NEW w \in Workers, Alone(w), TypeInv, Whole(w), List(w) \/ Read(w)
    PROVE  Whole(w)'
<1>0. /\ pc = [t \in Threads |-> pc[t]] /\ w \in Threads /\ IsFiniteSet(rows) /\ ~Fails("query") /\ ~Fails("redis")
      /\ DOMAIN num = Threads /\ DOMAIN todo = Threads /\ DOMAIN answer = Threads
      /\ DOMAIN req = Threads
  BY DEF TypeInv, Locals, Tables, Threads, Alone, Calm, Fails
<1>1. RowsSound /\ DOMAIN zset \subseteq SharedFiles \cup (IF pc[w] \in CancelExempt THEN {F(w)} ELSE {})
      /\ DOMAIN zset \subseteq hash \cup (IF pc[w] \in NameExempt THEN {F(w)} ELSE {})
  BY AloneKnows
<1>2. CASE ListGet(w)
  <2>1. pc'[w] \in {"idle", "list: count"}
    BY <1>0, <1>2, NextPlace DEF ListGet, Test
  <2> QED BY <2>1, NotListing DEF Whole, Loading
<1>3. CASE ListCount(w)
  <2>1. pc'[w] = "list: compare" /\ num'[w] = Cardinality(rows) /\ UNCHANGED rows
    BY <1>0, <1>3, NextPlace DEF ListCount, Test, mysql
  <2> QED BY <2>1 DEF Whole, Loading
<1>4. CASE ListCompare(w)
  <2>1. /\ pc[w] = "list: compare" /\ UNCHANGED <<rows, zset, hash>>
        /\ pc'[w] = IF Cardinality(DOMAIN zset) # num[w] THEN "list: drop" ELSE "list: members"
    BY <1>0, <1>4, NextPlace DEF ListCompare, Test, At, mysql, redis
  <2>2. pc'[w] = "list: members" => Complete
    <3> SUFFICES ASSUME Cardinality(DOMAIN zset) = num[w] PROVE Complete
      BY <2>1
    <3>1. DOMAIN zset \subseteq SharedFiles /\ DOMAIN zset \subseteq hash
      BY <1>1, <2>1 DEF CancelExempt, NameExempt
    <3>2. DOMAIN zset = SharedFiles
      BY <1>0, <1>1, <2>1, <3>1, EqualCounts DEF Whole
    <3> QED BY <3>1, <3>2 DEF Complete
  <2> QED BY <2>1, <2>2 DEF Whole, Loading, Complete, SharedFiles
<1>5. CASE ListDrop(w) \/ ListDropNames(w)
  <2>1. pc'[w] \in {"list: drop names", "list: select"}
    BY <1>0, <1>5, NextPlace DEF ListDrop, ListDropNames, Command
  <2> QED BY <2>1 DEF Whole, Loading
<1>6. CASE ListSelect(w)
  <2>1. pc'[w] = "list: load" /\ todo'[w] = rows /\ UNCHANGED rows
    BY <1>0, <1>6, NextPlace DEF ListSelect, Test, mysql
  <2> QED BY <2>1 DEF Whole, Loading
<1>7. CASE ListLoad(w)
  <2>1. pc[w] = "list: load" /\ UNCHANGED rows /\ \A r \in rows : r \in todo[w] \/ Loaded(w, r)
    BY <1>7 DEF ListLoad, At, mysql, Whole, Loading
  <2>2. CASE todo[w] = {} /\ Next_(w, "list: members") /\ UNCHANGED redis
    <3>1. pc'[w] = "list: members" /\ UNCHANGED <<zset, hash>>
      BY <1>0, <2>2, NextPlace DEF redis
    <3>2. \A r \in rows : r.file \in DOMAIN zset /\ r.file \in hash
      BY <2>1, <2>2 DEF Loaded
    <3>3. DOMAIN zset \subseteq SharedFiles
      BY <1>1, <2>1 DEF CancelExempt
    <3>4. Complete
      BY <3>2, <3>3 DEF Complete, SharedFiles
    <3> QED BY <2>1, <3>1, <3>4 DEF Whole, Loading, Complete, SharedFiles
  <2>3. ASSUME NEW r \in todo[w], SetRanks(With(r.file, r.pv)), todo' = [todo EXCEPT ![w] = @ \ {r}],
               req' = [req EXCEPT ![w].file = r.file], Go(w, "list: load name")
        PROVE  Whole(w)'
    <3>1. pc'[w] = "list: load name" /\ todo'[w] = todo[w] \ {r}
      BY <1>0, <2>3 DEF Go
    <3>2. F(w)' = r.file
      BY <1>0, <2>3 DEF F, TypeInv, Locals, Requests
    <3>3. DOMAIN zset' = DOMAIN zset \cup {r.file} /\ UNCHANGED hash
      BY <2>3, WithFacts DEF SetRanks
    <3>4. ASSUME NEW x \in rows PROVE x \in todo'[w] \/ Loaded(w, x)'
      BY <2>1, <3>1, <3>2, <3>3 DEF Loaded
    <3> QED BY <2>1, <3>1, <3>4 DEF Whole, Loading
  <2> QED BY <1>0, <1>7, <2>2, <2>3 DEF ListLoad
<1>8. CASE ListLoadName(w)
  <2>1. pc[w] = "list: load name" /\ UNCHANGED <<rows, zset>> /\ hash' = hash \cup {F(w)}
        /\ \A r \in rows : r \in todo[w] \/ Loaded(w, r)
    BY <1>0, <1>8 DEF ListLoadName, Command, SetNames, At, mysql, Whole, Loading
  <2>2. pc'[w] = "list: load" /\ UNCHANGED todo
    BY <1>0, <1>8, NextPlace DEF ListLoadName, Command, Next_, locals
  <2>3. ASSUME NEW r \in rows PROVE r \in todo'[w] \/ Loaded(w, r)'
    BY <2>1, <2>2 DEF Loaded
  <2> QED BY <2>1, <2>2, <2>3 DEF Whole, Loading
<1>9. CASE ReadMembers(w)
  <2>1. /\ pc[w] = "list: members" /\ UNCHANGED <<rows, zset, hash>>
        /\ pc'[w] = "list: details" /\ todo'[w] = DOMAIN zset
    BY <1>0, <1>9, NextPlace DEF ReadMembers, Test, At, mysql, redis
  <2> QED BY <2>1 DEF Whole, Loading, Complete, SharedFiles
<1>10. CASE ReadDetails(w)
  <2>1. pc[w] = "list: details" /\ UNCHANGED <<rows, zset, hash>> /\ Complete /\ todo[w] = DOMAIN zset
    BY <1>10 DEF ReadDetails, Test, At, mysql, redis, Whole
  <2>2. Answered(w, [code |-> 0, list |-> Restrict(zset, todo[w])])
    BY <1>0, <1>10, <2>1 DEF ReadDetails, Test, Complete
  <2>3. pc'[w] = "list: keep" /\ answer'[w] = [code |-> 0, list |-> Restrict(zset, todo[w])]
    BY <1>0, <2>2, NextPlace
  <2>4. answer'[w].code = 0 /\ DOMAIN answer'[w].list = SharedFiles
    <3>1. PICK l : l = Restrict(zset, todo[w])
      OBVIOUS
    <3>2. DOMAIN l = SharedFiles
      BY <2>1, <3>1 DEF Restrict, Complete
    <3>3. answer'[w] = [code |-> 0, list |-> l]
      BY <2>3, <3>1
    <3> QED BY <3>2, <3>3
  <2> QED BY <2>1, <2>3, <2>4 DEF Whole, Loading, SharedFiles
<1>11. CASE ListKeep(w)
  <2>1. pc'[w] = "idle"
    BY <1>0, <1>11, NextPlace DEF ListKeep
  <2> QED BY <2>1 DEF Whole, Loading
<1> QED BY <1>2, <1>3, <1>4, <1>5, <1>6, <1>7, <1>8, <1>9, <1>10, <1>11 DEF List, Read

LEMMA WholeStep ==
    ASSUME TypeInv, SharingInv, Calm, \A w \in Workers : Whole(w), [Next /\ UNCHANGED env]_vars
    PROVE  \A w \in Workers : Whole(w)'
<1>0. pc = [t \in Threads |-> pc[t]] /\ DOMAIN answer = Threads
  BY DEF TypeInv, Locals
<1>e. UNCHANGED env
  BY DEF vars
<1>1. ASSUME NEW w \in Workers, Step(w) PROVE \A v \in Workers : Whole(v)'
  <2>1. CASE Die
    <3>1. \A v \in Workers : pc'[v] = "idle"
      BY <2>1 DEF Die, Threads
    <3> QED BY <3>1 DEF Whole, Loading
  <2>2. CASE ~Die
    <3>1. ~Idle(w)
      BY <1>e, <1>1, <2>2, Changes
    <3>2. Alone(w) /\ Controlled(w)
      BY <1>1, <2>2, <3>1, Active, WorkerMoves
    <3>3. ASSUME NEW v \in Workers, v # w PROVE Whole(v)'
      <4>1. pc'[v] = "idle"
        BY <3>2, <3>3 DEF Alone, Controlled, Idle, Threads
      <4> QED BY <4>1 DEF Whole, Loading
    <3>4. Whole(w)'
      <4>1. CASE List(w) \/ Read(w)
        BY <3>2, <4>1, ListingStep
      <4>2. CASE ~(List(w) \/ Read(w))
        <5>1. pc'[w] \notin Listing
          BY <1>0, <1>1, <4>2, ElsewhereStep DEF Step
        <5> QED BY <5>1 DEF Whole, Listing
      <4> QED BY <4>1, <4>2
    <3> QED BY <3>3, <3>4
  <2> QED BY <2>1, <2>2
<1>2. ASSUME NEW w \in Workers, NEW op \in env.ops \ {"refresh"}, Begin(w, op) PROVE \A v \in Workers : Whole(v)'
  <2>1. FirstStep(op) \in {"obtain", "share: look", "cancel: mark", "delete: look", "pv: read", "list: get"}
    BY SharingAssumption DEF TypeInv, Scenario, OpNames, FirstStep
  <2>2. \A v \in Workers : pc[v] = "idle" /\ v \in Threads
    BY <1>2 DEF Begin, Quiet, Calm, Idle, Threads
  <2>3. \A v \in Workers : pc'[v] \in {"idle", FirstStep(op)}
    BY <1>0, <1>2, <2>2 DEF Begin, Go
  <2> QED BY <2>1, <2>3 DEF Whole, Loading
<1>3. CASE Refresh \/ Read(Refresher) \/ RefreshKeep
  BY <1>0, <1>3, RefresherApart, WholeStays DEF SharingInv
<1>4. CASE RunTask \/ Expire \/ UNCHANGED vars
  <2>1. \A w \in Workers : Untouched(w)
    BY <1>4 DEF RunTask, Expire, vars, changing, locals, Untouched
  <2> QED BY <1>0, <1>4, <2>1, WholeStays DEF RunTask, Expire, vars, changing, mysql, redis
<1>5. CASE Flush
  <2>1. \A w \in Workers : pc'[w] = "idle"
    BY <1>5 DEF Flush, Calm, Quiet, Idle
  <2> QED BY <2>1 DEF Whole, Loading
<1>6. CASE Crash
  BY <1>6 DEF Crash, Calm, Fails
<1> QED BY <1>1, <1>2, <1>3, <1>4, <1>5, <1>6 DEF Next

(* A ranking request that computes its answer finds every shared file and no other,
   each with its name, although redis may have lost its data at any time between two
   requests: comparing counts is enough to notice it. *)
THEOREM RankingIsWhole == Spec => []AnswerIsWhole
<1> DEFINE Inv == Calm => \A w \in Workers : Whole(w)
<1>1. Init => Inv
  BY DEF Init, Whole, Loading, Threads
<1>2. TypeInv /\ InScenario /\ Inv /\ [Next /\ UNCHANGED env]_vars => Inv'
  <2> SUFFICES ASSUME TypeInv, InScenario, Inv, [Next /\ UNCHANGED env]_vars, Calm'
               PROVE  \A w \in Workers : Whole(w)'
    OBVIOUS
  <2>1. Calm
    BY DEF Calm, vars
  <2> QED BY <2>1, WholeStep DEF InScenario
<1>3. Inv => AnswerIsWhole
  BY DEF Calm, AnswerIsWhole, Whole, At
<1>4. Spec => []TypeInv
  BY TypeInit, TypeStep, PTL DEF Spec
<1> QED BY <1>1, <1>2, <1>3, <1>4, Invariance, PTL DEF Spec
=============================================================================
