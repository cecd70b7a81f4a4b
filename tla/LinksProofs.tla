---------------------------- MODULE LinksProofs ----------------------------
(***************************************************************************)
(* Links for any number of workers, visitors, pictures and keys: types,    *)
(* keys that lead to their pictures, and the refinement of LinkMap.        *)
(***************************************************************************)
EXTENDS Links, FiniteSetTheorems, TLAPS

(* The RPC server works for one waiting share, and each other share in its queue
   waits there once and has no answer yet. *)
RpcServes ==
    /\ rpc_at # "accept" => pc[rpc_for] = "sh_wait" /\ answer[rpc_for] = Unsent
    /\ \A i \in 1..Len(backlog) :
           /\ pc[backlog[i]] = "sh_wait" /\ answer[backlog[i]] = Unsent
           /\ rpc_at # "accept" => backlog[i] # rpc_for
           /\ \A j \in 1..Len(backlog) : i # j => backlog[i] # backlog[j]
    /\ \A w \in Workers : answer[w] # Unsent => pc[w] = "sh_wait"

(* likewise for the web service and its visitors *)
WebServes ==
    /\ web_at # "accept" => asks[web_for] # NoKey
    /\ web_at \in {"get", "fallback", "set", "send"} => web_key = asks[web_for]
    /\ \A i \in 1..Len(queue) :
           /\ asks[queue[i]] # NoKey
           /\ web_at # "accept" => queue[i] # web_for
           /\ \A j \in 1..Len(queue) : i # j => queue[i] # queue[j]

InvOK == TypeOK /\ RpcServes /\ WebServes

LEMMA InitOK == Init => InvOK
BY LinksAssumption DEF Init, InvOK, TypeOK, RpcServes, WebServes, Steps, ShareSteps, Urls

LEMMA DeathOK == InvOK /\ ProcessDies => InvOK'
BY LinksAssumption DEF ProcessDies, InvOK, TypeOK, RpcServes, WebServes, Steps, ShareSteps, Urls, stored

LEMMA ReplyType ==
    ASSUME TypeOK, NEW w \in Workers, Reply(w)
    PROVE  /\ pc' \in [Workers -> Steps] /\ pic' \in [Workers -> Pics \cup {NoUrl}]
           /\ seen' \in [Workers -> Nat]
           /\ answer' \in [Workers -> Keys \cup {NoKey, Unsent}]
           /\ pc'[w] = "idle"
           /\ \A v \in Workers \ {w} : /\ pc'[v] = pc[v] /\ pic'[v] = pic[v]
                                      /\ seen'[v] = seen[v] /\ answer'[v] = answer[v]
BY DEF Reply, Goto, TypeOK, Steps

(* A handler that replies writes the rows of MySQL and the listen queue at most. *)
LEMMA ReplyKeepsTypes ==
    ASSUME TypeOK, NEW w \in Workers, Reply(w),
           UNCHANGED <<named, redis, short_url_map, backlog, rpc_at, rpc_for, rpc_key, asks, shown, web>>,
           share_picture_list' \subseteq named, pv' \in [Pics -> Nat],
           given' \in [Pics -> Keys \cup {NoKey}], told' \in [Pics -> Seq(Nat)]
    PROVE  TypeOK'
<1>1. \A v \in Workers : pc'[v] # "idle" => pic'[v] \in named'
  <2>1. pc'[w] = "idle" /\ \A v \in Workers \ {w} : pc'[v] = pc[v] /\ pic'[v] = pic[v]
    BY ReplyType
  <2> QED BY <2>1 DEF TypeOK
<1>2. /\ pc' \in [Workers -> Steps] /\ pic' \in [Workers -> Pics \cup {NoUrl}]
      /\ seen' \in [Workers -> Nat] /\ answer' \in [Workers -> Keys \cup {NoKey, Unsent}]
  BY ReplyType
<1>3. UNCHANGED <<queue, web_at, web_for, web_key, web_url>>
  BY DEF web
<1> QED BY <1>1, <1>2, <1>3 DEF TypeOK

LEMMA HandlerTypes ==
    ASSUME TypeOK, NEW w \in Workers, Begin(w) \/ Handle(w)
    PROVE  TypeOK'
<1> USE DEF TypeOK
<1>1. CASE Begin(w)
  <2>1. CASE BeginShare(w)
    BY <1>1, <2>1 DEF Begin, BeginShare, Goto, Steps, ShareSteps, server, web
  <2>2. CASE BeginOther(w)
    <3>1. PICK p \in named, step \in {"br_row", "cancel"} :
             pic' = [pic EXCEPT ![w] = p] /\ pc' = [pc EXCEPT ![w] = step]
      BY <2>2 DEF BeginOther, Goto
    <3>2. /\ pc' \in [Workers -> Steps] /\ pic' \in [Workers -> Pics \cup {NoUrl}]
          /\ \A v \in Workers : pc'[v] # "idle" => pic'[v] \in named
      BY <3>1 DEF Steps
    <3>3. UNCHANGED <<stored, seen, answer, server, asks, shown, web>>
      BY <1>1, <2>2 DEF Begin, BeginOther
    <3> QED BY <3>2, <3>3 DEF stored, server, web
  <2> QED BY <1>1, <2>1, <2>2 DEF Begin
<1>2. ASSUME Handle(w) PROVE UNCHANGED <<rpc_at, rpc_for, rpc_key, asks, shown, web>>
  BY <1>2 DEF Handle
<1>3. CASE Handle(w) /\ ShareInsert(w)
  <2>1. CASE share_picture_list' = share_picture_list \cup {pic[w]} /\ Goto(w, "sh_call")
             /\ UNCHANGED <<pic, seen, answer>>
    BY <1>2, <1>3, <2>1 DEF ShareInsert, Goto, Steps, ShareSteps, web
  <2>2. CASE Reply(w) /\ UNCHANGED share_picture_list
    BY <1>2, <1>3, <2>2, ReplyKeepsTypes DEF ShareInsert
  <2> QED BY <1>3, <2>1, <2>2 DEF ShareInsert
<1>4. CASE Handle(w) /\ ShareCall(w)
  <2>1. CASE backlog' = Append(backlog, w) /\ Goto(w, "sh_wait") /\ UNCHANGED <<pic, seen, answer>>
    <3>1. Append(backlog, w) \in Seq(Workers)
      OBVIOUS
    <3> QED BY <1>2, <1>4, <2>1, <3>1 DEF ShareCall, Goto, Steps, ShareSteps, web, stored
  <2>2. CASE Reply(w) /\ UNCHANGED backlog
    BY <1>2, <1>4, <2>2, ReplyKeepsTypes DEF ShareCall, stored
  <2> QED BY <1>4, <2>1, <2>2 DEF ShareCall
<1>5. CASE Handle(w) /\ ShareReply(w)
  <2>1. pic[w] \in Pics /\ answer[w] \in Keys \cup {NoKey}
    BY <1>5 DEF ShareReply, Steps
  <2>2. given' \in [Pics -> Keys \cup {NoKey}]
    BY <1>5, <2>1 DEF ShareReply
  <2> QED BY <1>2, <1>5, <2>2, ReplyKeepsTypes DEF ShareReply
<1>6. CASE Handle(w) /\ (BrowseRow(w) \/ BrowseUrl(w))
  <2>1. CASE Reply(w)
    BY <1>2, <1>6, <2>1, ReplyKeepsTypes DEF BrowseRow, BrowseUrl, stored
  <2>2. CASE BrowseRow(w) /\ ~Reply(w)
    <3>1. seen' = [seen EXCEPT ![w] = pv[pic[w]]] /\ pic[w] \in Pics
      BY <2>2 DEF BrowseRow
    <3>2. seen' \in [Workers -> Nat]
      BY <3>1
    <3>3. Goto(w, "br_url") /\ pc[w] = "br_row" /\ UNCHANGED <<stored, backlog, pic, answer>>
      BY <2>2 DEF BrowseRow
    <3> QED BY <1>2, <1>6, <3>2, <3>3 DEF Goto, Steps, web, stored
  <2>3. CASE BrowseUrl(w) /\ ~Reply(w)
    <3>1. Goto(w, "br_count") /\ pc[w] = "br_url" /\ UNCHANGED <<stored, backlog, pic, seen, answer>>
      BY <2>3 DEF BrowseUrl
    <3> QED BY <1>2, <1>6, <3>1 DEF Goto, Steps, web, stored
  <2> QED BY <1>6, <2>1, <2>2, <2>3
<1>7. CASE Handle(w) /\ BrowseCount(w)
  <2>1. pic[w] \in Pics
    BY <1>7 DEF BrowseCount
  <2>2. CASE pv' = Counted(w) /\ Goto(w, "br_reply") /\ UNCHANGED <<pic, seen, answer>>
    <3>1. pv' \in [Pics -> Nat]
      BY <2>1, <2>2 DEF Counted
    <3> QED BY <1>2, <1>7, <2>2, <3>1 DEF BrowseCount, Goto, Steps, web
  <2>3. CASE Reply(w) /\ UNCHANGED pv
    BY <1>2, <1>7, <2>3, ReplyKeepsTypes DEF BrowseCount
  <2> QED BY <1>7, <2>2, <2>3 DEF BrowseCount
<1>8. CASE Handle(w) /\ Cancel(w)
  <2>1. Reply(w) /\ share_picture_list' \subseteq named /\ UNCHANGED <<named, pv, redis, short_url_map, given, told, backlog>>
    BY <1>8 DEF Cancel
  <2> QED BY <1>2, <1>8, <2>1, ReplyKeepsTypes
<1>9. CASE Handle(w) /\ BrowseReply(w)
  <2>1. pic[w] \in Pics /\ seen[w] + 1 \in Nat /\ told[pic[w]] \in Seq(Nat)
    BY <1>9 DEF BrowseReply
  <2>2. told' \in [Pics -> Seq(Nat)]
    BY <1>9, <2>1 DEF BrowseReply
  <2> QED BY <1>2, <1>9, <2>2, ReplyKeepsTypes DEF BrowseReply
<1> QED BY <1>1, <1>3, <1>4, <1>5, <1>6, <1>7, <1>8, <1>9 DEF Handle

LEMMA RpcTypes == ASSUME TypeOK, RpcServes, Rpc PROVE TypeOK'
<1> USE DEF TypeOK
<1>0. UNCHANGED <<named, share_picture_list, pv, given, told, handlers, asks, shown, web>>
  BY DEF Rpc
<1>1. CASE RpcAccept
  <2>1. backlog # <<>> /\ Head(backlog) \in Workers /\ Tail(backlog) \in Seq(Workers)
    BY <1>1 DEF RpcAccept
  <2> QED BY <1>0, <1>1, <2>1 DEF RpcAccept, handlers, web
<1>2. CASE RpcGet
  BY <1>0, <1>2 DEF RpcGet, handlers, web
<1>3. CASE RpcSet
  <2>1. redis' \in [Keys -> Urls]
    BY <1>3 DEF RpcSet, Urls
  <2> QED BY <1>0, <1>3, <2>1 DEF RpcSet, handlers, web
<1>4. CASE RpcInsert
  <2>1. pic[rpc_for] \in Pics
    BY <1>4 DEF RpcInsert, RpcServes
  <2> QED BY <1>0, <1>4, <2>1 DEF RpcInsert, handlers, web
<1>5. CASE RpcSend
  BY <1>0, <1>5 DEF RpcSend, handlers, web
<1> QED BY <1>1, <1>2, <1>3, <1>4, <1>5 DEF Rpc

WebMoves == \/ WebAccept \/ WebRead \/ WebGet \/ WebFallback \/ WebSet \/ WebSend

LEMMA WebTypes ==
    ASSUME TypeOK, WebMoves,
           UNCHANGED <<named, share_picture_list, pv, short_url_map, given, told, handlers, answer, server>>
    PROVE  TypeOK'
<1> USE DEF TypeOK, handlers, server
<1>1. CASE WebAccept
  <2>1. queue # <<>> /\ Head(queue) \in Visitors /\ Tail(queue) \in Seq(Visitors)
    BY <1>1 DEF WebAccept
  <2> QED BY <1>1, <2>1 DEF WebAccept
<1>2. CASE WebRead
  BY <1>2 DEF WebRead
<1>3. CASE WebGet
  BY <1>3 DEF WebGet
<1>4. CASE WebFallback
  BY <1>4 DEF WebFallback
<1>5. CASE WebSet
  BY <1>5 DEF WebSet
<1>6. CASE WebSend
  BY <1>6 DEF WebSend, Urls
<1> QED BY <1>1, <1>2, <1>3, <1>4, <1>5, <1>6 DEF WebMoves

LEMMA VisitTypes == ASSUME TypeOK, NEW v \in Visitors, Visit(v) PROVE TypeOK'
<1>1. queue' \in Seq(Visitors)
  BY DEF Visit, TypeOK
<1>2. asks' \in [Visitors -> Keys \cup {NoKey, Mute, Gone}]
  BY DEF Visit, TypeOK
<1> QED BY <1>1, <1>2 DEF Visit, TypeOK, stored, handlers, server

LEMMA LossTypes == ASSUME TypeOK, RedisLoses PROVE TypeOK'
BY DEF RedisLoses, TypeOK, handlers, server, web, Urls

-----------------------------------------------------------------------------
(* Queues *)

LEMMA LeavesQueue ==
    ASSUME TypeOK, RpcServes, NEW w \in Workers,
           pc[w] # "sh_wait" \/ answer[w] # Unsent,
           UNCHANGED <<backlog, rpc_at, rpc_for>>, answer'[w] = Unsent,
           \A v \in Workers \ {w} : pc'[v] = pc[v] /\ answer'[v] = answer[v]
    PROVE  RpcServes'
<1>1. rpc_at # "accept" => rpc_for \in Workers \ {w}
  BY DEF RpcServes, TypeOK
<1>2. \A i \in 1..Len(backlog) : backlog[i] \in Workers \ {w}
  BY DEF RpcServes, TypeOK
<1> QED BY <1>1, <1>2 DEF RpcServes

LEMMA HandlerServes ==
    ASSUME TypeOK, RpcServes, NEW w \in Workers, Begin(w) \/ Handle(w)
    PROVE  RpcServes'
<1>0. UNCHANGED <<rpc_at, rpc_for>>
  BY DEF Begin, Handle, server
<1>1. CASE \/ Begin(w) \/ ShareInsert(w) \/ BrowseRow(w) \/ BrowseUrl(w) \/ BrowseCount(w)
           \/ BrowseReply(w) \/ Cancel(w)
  <2>1. pc[w] # "sh_wait" /\ backlog' = backlog
    BY <1>1 DEF Begin, BeginShare, BeginOther, ShareInsert, BrowseRow, BrowseUrl,
                BrowseCount, BrowseReply, Cancel, server
  <2>2. Reply(w) \/ \E step \in Steps : Goto(w, step) /\ answer' = answer
    <3>1. CASE Begin(w)
      BY <3>1 DEF Begin, BeginShare, BeginOther, Steps, ShareSteps
    <3>2. CASE ShareInsert(w) \/ BrowseRow(w) \/ BrowseUrl(w)
      BY <3>2 DEF ShareInsert, BrowseRow, BrowseUrl, Steps, ShareSteps
    <3>3. CASE BrowseCount(w) \/ BrowseReply(w) \/ Cancel(w)
      BY <3>3 DEF BrowseCount, BrowseReply, Cancel, Steps
    <3> QED BY <1>1, <3>1, <3>2, <3>3
  <2>3. answer'[w] = Unsent
    BY <2>1, <2>2 DEF Reply, RpcServes, TypeOK
  <2>4. \A v \in Workers \ {w} : pc'[v] = pc[v] /\ answer'[v] = answer[v]
    BY <2>2 DEF Reply, Goto, TypeOK
  <2> QED BY <1>0, <2>1, <2>3, <2>4, LeavesQueue
<1>2. CASE ShareCall(w)
  <2>1. CASE Reply(w) /\ backlog' = backlog
    <3>1. pc[w] # "sh_wait" /\ answer'[w] = Unsent
      BY <1>2, <2>1 DEF Reply, ShareCall, TypeOK
    <3> QED BY <1>0, <2>1, <3>1, ReplyType, LeavesQueue
  <2>2. CASE backlog' = Append(backlog, w) /\ Goto(w, "sh_wait") /\ UNCHANGED <<pic, seen, answer>>
    <3>1. pc[w] = "sh_call" /\ pc' = [pc EXCEPT ![w] = "sh_wait"] /\ answer' = answer
      BY <1>2, <2>2 DEF ShareCall, Goto
    <3>2. answer[w] = Unsent /\ (rpc_at # "accept" => rpc_for # w)
      BY <3>1 DEF RpcServes, TypeOK
    <3>3. \A i \in 1..Len(backlog) : backlog[i] # w /\ backlog[i] \in Workers
      BY <3>1 DEF RpcServes, TypeOK
    <3>4. /\ Len(backlog') = Len(backlog) + 1 /\ Len(backlog) \in Nat
          /\ \A i \in 1..Len(backlog) : backlog'[i] = backlog[i]
          /\ backlog'[Len(backlog) + 1] = w
      BY <2>2 DEF TypeOK
    <3>5. pc' [w] = "sh_wait" /\ \A v \in Workers \ {w} : pc'[v] = pc[v]
      BY <3>1 DEF TypeOK
    <3>6. \A i \in 1..Len(backlog') : i \in 1..Len(backlog) \/ i = Len(backlog) + 1
      BY <3>4
    <3>7. rpc_at # "accept" => rpc_for \in Workers \ {w}
      BY <3>2 DEF TypeOK
    <3>8. \A u \in Workers : answer'[u] # Unsent => pc'[u] = "sh_wait"
      BY <3>1, <3>5 DEF RpcServes
    <3>9. rpc_at # "accept" => pc'[rpc_for] = "sh_wait" /\ answer'[rpc_for] = Unsent
      BY <3>1, <3>5, <3>7 DEF RpcServes
    <3>10. ASSUME NEW i \in 1..Len(backlog')
           PROVE  /\ pc'[backlog'[i]] = "sh_wait" /\ answer'[backlog'[i]] = Unsent
                  /\ rpc_at # "accept" => backlog'[i] # rpc_for
      BY <3>1, <3>2, <3>3, <3>4, <3>5, <3>6 DEF RpcServes
    <3>11. ASSUME NEW i \in 1..Len(backlog'), NEW j \in 1..Len(backlog'), i # j
           PROVE  backlog'[i] # backlog'[j]
      BY <3>3, <3>4, <3>6, <3>11 DEF RpcServes
    <3> QED BY <1>0, <3>8, <3>9, <3>10, <3>11 DEF RpcServes
  <2> QED BY <1>2, <2>1, <2>2 DEF ShareCall
<1>3. CASE ShareReply(w)
  <2>1. Reply(w) /\ backlog' = backlog /\ answer[w] # Unsent
    BY <1>3 DEF ShareReply
  <2>2. answer'[w] = Unsent
    BY <2>1 DEF Reply, TypeOK
  <2> QED BY <1>0, <2>1, <2>2, ReplyType, LeavesQueue
<1> QED BY <1>1, <1>2, <1>3 DEF Handle

LEMMA RpcStepServes == ASSUME TypeOK, RpcServes, Rpc PROVE RpcServes'
<1>0. UNCHANGED pc
  BY DEF Rpc, handlers
<1>1. CASE RpcAccept
  <2>1. /\ backlog # <<>> /\ backlog' = Tail(backlog) /\ rpc_for' = Head(backlog)
        /\ answer' = answer /\ backlog \in Seq(Workers)
    BY <1>1 DEF RpcAccept, TypeOK
  <2>2. /\ Len(backlog) \in Nat \ {0} /\ Len(backlog') = Len(backlog) - 1
        /\ rpc_for' = backlog[1]
        /\ \A i \in 1..Len(backlog') : backlog'[i] = backlog[i + 1]
    BY <2>1
  <2>3. 1 \in 1..Len(backlog) /\ \A i \in 1..Len(backlog') : i + 1 \in 1..Len(backlog) /\ i + 1 # 1
    BY <2>2
  <2>4. \A i, j \in 1..Len(backlog') : i # j => i + 1 # j + 1
    BY <2>2
  <2> QED BY <1>0, <2>1, <2>2, <2>3, <2>4 DEF RpcServes
<1>2. CASE RpcGet \/ RpcSet \/ RpcInsert
  BY <1>0, <1>2 DEF RpcGet, RpcSet, RpcInsert, RpcServes
<1>3. CASE RpcSend
  <2>1. /\ rpc_for \in Workers /\ answer' = [answer EXCEPT ![rpc_for] = rpc_key]
        /\ rpc_at = "send" /\ rpc_at' = "accept" /\ backlog' = backlog
    BY <1>3 DEF RpcSend, TypeOK
  <2>2. \A i \in 1..Len(backlog) : backlog[i] \in Workers \ {rpc_for}
    BY <2>1 DEF RpcServes, TypeOK
  <2> QED BY <1>0, <2>1, <2>2 DEF RpcServes, TypeOK
<1> QED BY <1>1, <1>2, <1>3 DEF Rpc

LEMMA WebStepServes ==
    ASSUME TypeOK, WebServes, WebMoves
    PROVE  WebServes'
<1>1. CASE WebAccept
  <2>1. /\ queue # <<>> /\ queue' = Tail(queue) /\ web_for' = Head(queue)
        /\ asks' = asks /\ queue \in Seq(Visitors) /\ web_at' = "read"
    BY <1>1 DEF WebAccept, TypeOK
  <2>2. /\ Len(queue) \in Nat \ {0} /\ Len(queue') = Len(queue) - 1
        /\ web_for' = queue[1]
        /\ \A i \in 1..Len(queue') : queue'[i] = queue[i + 1]
    BY <2>1
  <2>3. 1 \in 1..Len(queue) /\ \A i \in 1..Len(queue') : i + 1 \in 1..Len(queue) /\ i + 1 # 1
    BY <2>2
  <2>4. \A i, j \in 1..Len(queue') : i # j => i + 1 # j + 1
    BY <2>2
  <2> QED BY <2>1, <2>2, <2>3, <2>4 DEF WebServes
<1>2. CASE WebRead \/ WebGet \/ WebFallback \/ WebSet
  BY <1>2 DEF WebRead, WebGet, WebFallback, WebSet, WebServes
<1>3. CASE WebSend
  <2>1. /\ web_for \in Visitors /\ asks' = [asks EXCEPT ![web_for] = NoKey]
        /\ web_at = "send" /\ web_at' = "accept" /\ queue' = queue
    BY <1>3 DEF WebSend, TypeOK
  <2>2. \A i \in 1..Len(queue) : queue[i] \in Visitors \ {web_for}
    BY <2>1 DEF WebServes, TypeOK
  <2> QED BY <2>1, <2>2 DEF WebServes, TypeOK
<1> QED BY <1>1, <1>2, <1>3 DEF WebMoves

LEMMA VisitServes == ASSUME TypeOK, WebServes, NEW v \in Visitors, Visit(v) PROVE WebServes'
<1>1. PICK k \in Keys \cup {Mute, Gone} : asks[v] = NoKey /\ asks' = [asks EXCEPT ![v] = k]
  BY DEF Visit
<1>2. queue' = Append(queue, v) /\ UNCHANGED <<web_at, web_for, web_key>>
  BY DEF Visit
<1>3. k # NoKey /\ asks'[v] = k /\ \A u \in Visitors \ {v} : asks'[u] = asks[u]
  BY <1>1, LinksAssumption DEF TypeOK
<1>4. web_at # "accept" => web_for \in Visitors \ {v}
  BY <1>1 DEF TypeOK, WebServes
<1>5. \A i \in 1..Len(queue) : queue[i] \in Visitors \ {v}
  BY <1>1 DEF WebServes, TypeOK
<1>6. /\ Len(queue') = Len(queue) + 1 /\ Len(queue) \in Nat
      /\ \A i \in 1..Len(queue) : queue'[i] = queue[i]
      /\ queue'[Len(queue) + 1] = v
  BY <1>2 DEF TypeOK
<1>7. \A i \in 1..Len(queue') : i \in 1..Len(queue) \/ i = Len(queue) + 1
  BY <1>6
<1>8. web_at \in {"read", "get", "fallback", "set", "send", "accept"}
  BY DEF TypeOK
<1> QED BY <1>2, <1>3, <1>4, <1>5, <1>6, <1>7, <1>8 DEF WebServes

LEMMA NextOK == InvOK /\ [Next /\ UNCHANGED env]_vars => InvOK'
<1> SUFFICES ASSUME InvOK, [Next /\ UNCHANGED env]_vars
             PROVE  InvOK'
  OBVIOUS
<1> USE DEF InvOK
<1>1. ASSUME NEW w \in Workers, Begin(w) \/ Handle(w)
      PROVE  InvOK'
  <2>1. UNCHANGED <<asks, web>>
    BY <1>1 DEF Begin, Handle
  <2> QED BY <1>1, <2>1, HandlerTypes, HandlerServes DEF WebServes, web
<1>2. ASSUME NEW v \in Visitors, Visit(v)
      PROVE  InvOK'
  <2>1. UNCHANGED <<handlers, answer, server>>
    BY <1>2 DEF Visit
  <2> QED BY <1>2, <2>1, VisitTypes, VisitServes DEF RpcServes, handlers, server
<1>3. CASE Rpc
  <2>1. UNCHANGED <<asks, web>>
    BY <1>3 DEF Rpc
  <2> QED BY <1>3, <2>1, RpcTypes, RpcStepServes DEF WebServes, web
<1>4. CASE Web
  <2>1. CASE ProcessDies
    BY <2>1, DeathOK
  <2>2. CASE /\ WebMoves
             /\ UNCHANGED <<named, share_picture_list, pv, short_url_map, given, told, handlers, answer, server>>
    BY <2>2, WebTypes, WebStepServes DEF RpcServes, handlers, server
  <2> QED BY <1>4, <2>1, <2>2 DEF Web, WebMoves, FallbackDies, EmptyRequestDies
<1>5. CASE RedisLoses
  <2>1. UNCHANGED <<handlers, answer, server, asks, web>>
    BY <1>5 DEF RedisLoses
  <2> QED BY <1>5, <2>1, LossTypes DEF RpcServes, WebServes, handlers, server, web
<1>6. CASE Crash
  BY <1>6, DeathOK DEF Crash
<1>7. CASE UNCHANGED vars
  BY <1>7 DEF vars, changing, stored, handlers, server, web, TypeOK, RpcServes, WebServes
<1> QED BY <1>1, <1>2, <1>3, <1>4, <1>5, <1>6, <1>7 DEF Next

(* Every variable keeps its type, and the two single-threaded servers and those
   who wait for them agree about who is served next. *)
THEOREM TypeCorrect == Spec => []TypeOK
<1>1. InvOK => TypeOK
  BY DEF InvOK
<1> QED BY <1>1, InitOK, NextOK, PTL DEF Spec

LEMMA InvariantOK == Spec => []InvOK
BY InitOK, NextOK, PTL DEF Spec

-----------------------------------------------------------------------------
(* Who waits *)

LEMMA QueuedMore ==
    ASSUME NEW S, NEW s \in Seq(S), NEW e \in S, NEW t, t = Append(s, e)
    PROVE  Queues(t, e) /\ \A d : Queues(s, d) => Queues(t, d)
<1>1. Len(s) \in Nat /\ Len(t) = Len(s) + 1 /\ t[Len(t)] = e /\ \A i \in 1..Len(s) : t[i] = s[i]
  OBVIOUS
<1>2. Len(t) \in 1..Len(t) /\ \A i \in 1..Len(s) : i \in 1..Len(t)
  BY <1>1
<1> QED BY <1>1, <1>2 DEF Queues

LEMMA QueuedLess ==
    ASSUME NEW S, NEW s \in Seq(S), s # <<>>, NEW d, Queues(s, d)
    PROVE  d = Head(s) \/ Queues(Tail(s), d)
<1>1. PICK i \in 1..Len(s) : s[i] = d
  BY DEF Queues
<1>2. Len(s) \in Nat /\ Len(Tail(s)) = Len(s) - 1 /\ Head(s) = s[1]
  OBVIOUS
<1>3. CASE i # 1
  <2>1. i - 1 \in 1..Len(Tail(s)) /\ Tail(s)[i - 1] = s[i]
    BY <1>2, <1>3
  <2> QED BY <1>1, <2>1 DEF Queues
<1> QED BY <1>1, <1>2, <1>3

LEMMA HandlerWaits ==
    ASSUME InvOK, WaitersServed, NEW w \in Workers, Begin(w) \/ Handle(w)
    PROVE  WaitersServed'
<1>0. TypeOK /\ UNCHANGED <<rpc_at, rpc_for, asks, queue, web_at, web_for>>
  BY DEF InvOK, Begin, Handle, server, web
<1>1. CASE backlog' = Append(backlog, w) /\ Goto(w, "sh_wait") /\ UNCHANGED answer
  <2>1. Queues(backlog', w) /\ \A v : Queues(backlog, v) => Queues(backlog', v)
    BY <1>0, <1>1, QueuedMore DEF TypeOK
  <2>2. \A v \in Workers \ {w} : pc'[v] = pc[v]
    BY <1>0, <1>1 DEF Goto, TypeOK
  <2> QED BY <1>0, <1>1, <2>1, <2>2 DEF WaitersServed
<1>2. CASE ~(backlog' = Append(backlog, w) /\ Goto(w, "sh_wait") /\ UNCHANGED answer)
  <2>1. UNCHANGED backlog
    <3>1. CASE Begin(w)
      BY <3>1 DEF Begin, server
    <3>2. CASE \/ ShareInsert(w) \/ ShareReply(w) \/ BrowseRow(w) \/ BrowseUrl(w)
               \/ BrowseCount(w) \/ BrowseReply(w) \/ Cancel(w)
      BY <3>2 DEF ShareInsert, ShareReply, BrowseRow, BrowseUrl, BrowseCount, BrowseReply, Cancel
    <3>3. CASE ShareCall(w)
      BY <1>2, <3>3 DEF ShareCall
    <3> QED BY <3>1, <3>2, <3>3 DEF Handle
  <2>2. Reply(w) \/ \E s \in Steps \ {"sh_wait"} : Goto(w, s) /\ answer' = answer
    <3>1. CASE Begin(w)
      BY <3>1 DEF Begin, BeginShare, BeginOther, Steps, ShareSteps
    <3>2. CASE ShareInsert(w)
      BY <3>2 DEF ShareInsert, Steps, ShareSteps
    <3>3. CASE BrowseRow(w) \/ BrowseUrl(w)
      BY <3>3 DEF BrowseRow, BrowseUrl, Steps, ShareSteps
    <3>4. CASE ShareReply(w) \/ BrowseCount(w) \/ BrowseReply(w) \/ Cancel(w)
      BY <3>4 DEF ShareReply, BrowseCount, BrowseReply, Cancel, Steps, ShareSteps
    <3>5. CASE ShareCall(w)
      BY <1>2, <3>5 DEF ShareCall
    <3> QED BY <3>1, <3>2, <3>3, <3>4, <3>5 DEF Handle
  <2>3. pc'[w] # "sh_wait" /\ \A v \in Workers \ {w} : pc'[v] = pc[v] /\ answer'[v] = answer[v]
    <3>1. CASE Reply(w)
      BY <1>0, <3>1, ReplyType
    <3>2. ASSUME NEW s \in Steps \ {"sh_wait"}, Goto(w, s), UNCHANGED answer
          PROVE  pc'[w] # "sh_wait" /\ \A v \in Workers \ {w} : pc'[v] = pc[v]
      BY <1>0, <3>2 DEF Goto, TypeOK
    <3> QED BY <2>2, <3>1, <3>2
  <2> QED BY <1>0, <2>1, <2>3 DEF WaitersServed
<1> QED BY <1>1, <1>2

LEMMA RpcWaits ==
    ASSUME InvOK, WaitersServed, Rpc
    PROVE  WaitersServed'
<1>0. TypeOK /\ UNCHANGED <<pc, asks, queue, web_at, web_for>>
  BY DEF InvOK, Rpc, handlers, web
<1>1. CASE RpcAccept
  <2>1. /\ backlog # <<>> /\ backlog' = Tail(backlog) /\ rpc_for' = Head(backlog)
        /\ rpc_at = "accept" /\ rpc_at' = "get" /\ UNCHANGED answer
    BY <1>1 DEF RpcAccept
  <2>2. \A w \in Workers : Queues(backlog, w) => w = rpc_for' \/ Queues(backlog', w)
    BY <1>0, <2>1, QueuedLess DEF TypeOK
  <2> QED BY <1>0, <2>1, <2>2 DEF WaitersServed
<1>2. CASE RpcGet \/ RpcSet \/ RpcInsert
  <2>1. rpc_at # "accept" /\ rpc_at' # "accept" /\ UNCHANGED <<answer, backlog, rpc_for>>
    BY <1>2 DEF RpcGet, RpcSet, RpcInsert
  <2> QED BY <1>0, <2>1 DEF WaitersServed
<1>3. CASE RpcSend
  <2>1. /\ rpc_for \in Workers /\ rpc_key \in Keys \cup {NoKey} /\ UNCHANGED backlog
        /\ answer' = [answer EXCEPT ![rpc_for] = rpc_key]
    BY <1>0, <1>3 DEF RpcSend, TypeOK
  <2>2. answer'[rpc_for] # Unsent /\ \A w \in Workers \ {rpc_for} : answer'[w] = answer[w]
    BY <1>0, <2>1, LinksAssumption DEF TypeOK
  <2> QED BY <1>0, <2>1, <2>2 DEF WaitersServed
<1> QED BY <1>1, <1>2, <1>3 DEF Rpc

LEMMA VisitorWaits ==
    ASSUME InvOK, WaitersServed, UNCHANGED <<handlers, answer, server>>,
           WebMoves \/ \E v \in Visitors : Visit(v)
    PROVE  WaitersServed'
<1>0. TypeOK /\ UNCHANGED <<pc, answer, backlog, rpc_at, rpc_for>>
  BY DEF InvOK, handlers, server
<1>1. CASE WebAccept
  <2>1. /\ queue # <<>> /\ queue' = Tail(queue) /\ web_for' = Head(queue)
        /\ web_at = "accept" /\ web_at' = "read" /\ UNCHANGED asks
    BY <1>1 DEF WebAccept
  <2>2. \A v \in Visitors : Queues(queue, v) => v = web_for' \/ Queues(queue', v)
    BY <1>0, <2>1, QueuedLess DEF TypeOK
  <2> QED BY <1>0, <2>1, <2>2 DEF WaitersServed
<1>2. CASE WebRead \/ WebGet \/ WebFallback \/ WebSet
  <2>1. web_at # "accept" /\ web_at' # "accept" /\ UNCHANGED <<asks, queue, web_for>>
    BY <1>2 DEF WebRead, WebGet, WebFallback, WebSet
  <2> QED BY <1>0, <2>1 DEF WaitersServed
<1>3. CASE WebSend
  <2>1. asks' = [asks EXCEPT ![web_for] = NoKey] /\ web_for \in Visitors /\ UNCHANGED queue
    BY <1>0, <1>3 DEF WebSend, TypeOK
  <2>2. asks'[web_for] = NoKey /\ \A v \in Visitors \ {web_for} : asks'[v] = asks[v]
    BY <1>0, <2>1 DEF TypeOK
  <2> QED BY <1>0, <2>1, <2>2 DEF WaitersServed
<1>4. ASSUME NEW v \in Visitors, Visit(v) PROVE WaitersServed'
  <2>1. queue' = Append(queue, v) /\ UNCHANGED <<web_at, web_for>>
    BY <1>4 DEF Visit
  <2>2. Queues(queue', v) /\ \A u : Queues(queue, u) => Queues(queue', u)
    BY <1>0, <2>1, QueuedMore DEF TypeOK
  <2>3. \A u \in Visitors \ {v} : asks'[u] = asks[u]
    BY <1>0, <1>4 DEF Visit, TypeOK
  <2> QED BY <1>0, <2>1, <2>2, <2>3 DEF WaitersServed
<1> QED BY <1>1, <1>2, <1>3, <1>4 DEF WebMoves

LEMMA DeathWaits == ASSUME ProcessDies PROVE WaitersServed'
BY DEF ProcessDies, WaitersServed

(* Whoever waits for the RPC server or the web service, which serve one client at
   a time, is known to it, though both may fail at every statement and command. *)
THEOREM WaitersKnown == Spec => []WaitersServed
<1>1. Init => WaitersServed
  BY DEF Init, WaitersServed
<1>2. InvOK /\ WaitersServed /\ [Next /\ UNCHANGED env]_vars => WaitersServed'
  <2> SUFFICES ASSUME InvOK, WaitersServed, [Next /\ UNCHANGED env]_vars PROVE WaitersServed'
    OBVIOUS
  <2>1. CASE UNCHANGED <<handlers, answer, server, asks, web>>
    BY <2>1 DEF WaitersServed, Queues, handlers, server, web
  <2>2. CASE ProcessDies
    BY <2>2, DeathWaits
  <2>3. CASE (\E w \in Workers : Begin(w) \/ Handle(w)) \/ Rpc
    BY <2>3, HandlerWaits, RpcWaits
  <2>4. CASE (\E v \in Visitors : Visit(v)) \/ (WebMoves /\ UNCHANGED <<handlers, answer, server>>)
    <3>1. UNCHANGED <<handlers, answer, server>>
      BY <2>4 DEF Visit
    <3> QED BY <2>4, <3>1, VisitorWaits
  <2> QED BY <2>1, <2>2, <2>3, <2>4 DEF Next, Web, WebMoves, FallbackDies, EmptyRequestDies, RedisLoses, Crash, vars, changing
<1> QED BY <1>1, <1>2, InvariantOK, PTL DEF Spec

-----------------------------------------------------------------------------
(* Keys and pictures *)

(* What was, is or will be returned by convertToShortUrl is in short_url_map. *)
Promised ==
    /\ \A p \in Pics : given[p] # NoKey => <<given[p], p>> \in short_url_map
    /\ \A w \in Workers : answer[w] \notin {Unsent, NoKey} => <<answer[w], pic[w]>> \in short_url_map
    /\ rpc_at = "send" /\ rpc_key # NoKey => <<rpc_key, pic[rpc_for]>> \in short_url_map

(* Where redis keeps what it has, it agrees with short_url_map and with the RPC
   server, and the web service never needs the fallback. *)
RedisAgrees ==
    /\ \A k \in Keys, p \in Pics : <<k, p>> \in short_url_map => redis[k] = p
    /\ rpc_at = "set" => redis[rpc_key] = NoUrl
    /\ rpc_at = "insert" => redis[rpc_key] = pic[rpc_for]
    /\ \A v \in Visitors : asks[v] \in Keys => redis[asks[v]] # NoUrl
    /\ web_at \notin {"fallback", "set"}
    /\ web_at = "send" => web_url = redis[web_key]

LinksInv == InvOK /\ Promised /\ (Sound => RedisAgrees)


LEMMA LinksInitOK == Init => LinksInv
<1> SUFFICES ASSUME Init PROVE LinksInv
  OBVIOUS
<1>1. Promised
  BY DEF Init, Promised
<1>2. RedisAgrees
  BY LinksAssumption DEF Init, RedisAgrees
<1> QED BY <1>1, <1>2, InitOK DEF LinksInv

LEMMA DeathKeeps == ASSUME LinksInv, ProcessDies PROVE Promised' /\ (RedisAgrees => RedisAgrees')
<1>1. Promised'
  BY DEF LinksInv, Promised, ProcessDies, stored
<1>2. ASSUME RedisAgrees PROVE RedisAgrees'
  BY <1>2, LinksAssumption DEF RedisAgrees, ProcessDies, stored
<1> QED BY <1>1, <1>2

(* A worker has an answer and a picture with it only until it returns. *)
LEMMA HandlersKeep ==
    ASSUME LinksInv, NEW w \in Workers, Begin(w) \/ Handle(w)
    PROVE  Promised' /\ (RedisAgrees => RedisAgrees')
<1>0. TypeOK /\ RpcServes /\ Promised
  BY DEF LinksInv, InvOK
<1>1. UNCHANGED <<redis, short_url_map, rpc_at, rpc_for, rpc_key, asks, web>>
  <2>1. CASE Begin(w)
    BY <2>1 DEF Begin, BeginShare, BeginOther, stored, server
  <2>2. CASE Handle(w)
    BY <2>2 DEF Handle, ShareInsert, ShareCall, ShareReply, BrowseRow, BrowseUrl, BrowseCount, BrowseReply, Cancel, stored
  <2> QED BY <2>1, <2>2
<1>2. CASE ShareReply(w)
  <2>1. /\ pc[w] = "sh_wait" /\ answer[w] # Unsent /\ pic[w] \in Pics
        /\ given' = [given EXCEPT ![pic[w]] = answer[w]] /\ answer[w] \in Keys \cup {NoKey}
    BY <1>0, <1>2 DEF ShareReply, TypeOK
  <2>2. \A v \in Workers \ {w} : answer'[v] = answer[v] /\ pic'[v] = pic[v]
    BY <1>0, <1>2, ReplyType DEF ShareReply
  <2>3. answer'[w] = Unsent
    BY <1>0, <1>2 DEF ShareReply, Reply, TypeOK
  <2>4. rpc_at # "accept" => rpc_for \in Workers \ {w}
    BY <1>0, <2>1 DEF RpcServes, TypeOK
  <2>5. \A p \in Pics : given'[p] # NoKey => <<given'[p], p>> \in short_url_map
    BY <1>0, <2>1 DEF Promised, TypeOK
  <2>6. Promised'
    BY <1>0, <1>1, <2>2, <2>3, <2>4, <2>5 DEF Promised
  <2>7. ASSUME RedisAgrees PROVE RedisAgrees'
    BY <1>1, <2>2, <2>4, <2>7 DEF RedisAgrees, web
  <2> QED BY <2>6, <2>7
<1>3. CASE ~ ShareReply(w)
  <2>1. given' = given
    BY <1>3 DEF Begin, Handle, BeginShare, BeginOther, ShareInsert, ShareCall, BrowseRow,
                BrowseUrl, BrowseCount, BrowseReply, Cancel, stored
  <2>2. pc[w] # "sh_wait"
    BY <1>3 DEF Begin, Handle, BeginShare, BeginOther, ShareInsert, ShareCall, BrowseRow,
                BrowseUrl, BrowseCount, BrowseReply, Cancel
  <2>3. \/ Reply(w)
        \/ answer' = answer /\ (pic' = pic \/ \E p \in Pics : pic' = [pic EXCEPT ![w] = p])
    <3>1. CASE Begin(w)
      BY <1>0, <3>1 DEF Begin, BeginShare, BeginOther, TypeOK
    <3>2. CASE Handle(w)
      BY <1>3, <3>2 DEF Handle, ShareInsert, ShareCall, BrowseRow, BrowseUrl, BrowseCount, BrowseReply, Cancel
    <3> QED BY <3>1, <3>2
  <2>4. \A v \in Workers \ {w} : answer'[v] = answer[v] /\ pic'[v] = pic[v]
    BY <1>0, <2>3 DEF Reply, TypeOK
  <2>5. answer'[w] = Unsent
    BY <1>0, <2>2, <2>3 DEF Reply, RpcServes, TypeOK
  <2>6. rpc_at # "accept" => rpc_for \in Workers \ {w}
    BY <1>0, <2>2 DEF RpcServes, TypeOK
  <2>7. Promised'
    BY <1>0, <1>1, <2>1, <2>4, <2>5, <2>6 DEF Promised
  <2>8. ASSUME RedisAgrees PROVE RedisAgrees'
    BY <1>1, <2>4, <2>6, <2>8 DEF RedisAgrees, web
  <2> QED BY <2>7, <2>8
<1> QED BY <1>2, <1>3

LEMMA RpcKeeps == ASSUME LinksInv, Rpc PROVE Promised' /\ (Sound /\ RedisAgrees => RedisAgrees')
<1>0. TypeOK /\ RpcServes /\ WebServes /\ Promised
  BY DEF LinksInv, InvOK
<1>1. UNCHANGED <<given, pc, pic, asks, web_at, web_key, web_url>>
  BY DEF Rpc, handlers, web
<1>2. CASE RpcAccept
  BY <1>0, <1>1, <1>2 DEF RpcAccept, Promised, RedisAgrees
<1>3. CASE RpcGet
  <2>1. Promised'
    BY <1>0, <1>1, <1>3 DEF RpcGet, Promised
  <2>2. ASSUME Sound, RedisAgrees PROVE RedisAgrees'
    <3>1. redis[rpc_key'] = NoUrl
      BY <1>3, <2>2 DEF RpcGet, Sound, CanFail, FreeKeys
    <3> QED BY <1>1, <1>3, <2>2, <3>1 DEF RpcGet, RedisAgrees
  <2> QED BY <2>1, <2>2
<1>4. CASE RpcSet
  <2>1. Promised'
    BY <1>0, <1>1, <1>4 DEF RpcSet, Promised
  <2>2. ASSUME Sound, RedisAgrees PROVE RedisAgrees'
    <3>1. CASE redis' = redis /\ rpc_at' = "send"
      BY <1>1, <1>4, <2>2, <3>1 DEF RpcSet, RedisAgrees
    <3>2. CASE redis' = [redis EXCEPT ![rpc_key] = pic[rpc_for]] /\ rpc_at' = "insert"
      <4>1. /\ rpc_key \in Keys /\ pic[rpc_for] \in Pics /\ redis[rpc_key] = NoUrl
            /\ rpc_key' = rpc_key /\ rpc_for' = rpc_for /\ short_url_map' = short_url_map
        BY <1>0, <1>4, <2>2, <3>2 DEF RpcSet, RpcServes, RedisAgrees, TypeOK
      <4>2. /\ redis'[rpc_key] = pic[rpc_for] /\ pic[rpc_for] # NoUrl
            /\ \A k \in Keys \ {rpc_key} : redis'[k] = redis[k]
        BY <1>0, <3>2, <4>1, LinksAssumption DEF TypeOK
      <4>3. \A p \in Pics : <<rpc_key, p>> \notin short_url_map
        BY <2>2, <4>1, LinksAssumption DEF RedisAgrees
      <4>4. web_at = "send" => web_key \in Keys /\ redis[web_key] # NoUrl
        BY <1>0, <2>2 DEF RedisAgrees, WebServes, TypeOK
      <4> QED BY <1>1, <2>2, <3>2, <4>1, <4>2, <4>3, <4>4 DEF RedisAgrees
    <3> QED BY <1>4, <3>1, <3>2 DEF RpcSet
  <2> QED BY <2>1, <2>2
<1>5. CASE RpcInsert
  <2>1. rpc_key \in Keys /\ pic[rpc_for] \in Pics
    BY <1>0, <1>5 DEF RpcInsert, RpcServes, TypeOK
  <2>2. Promised'
    BY <1>0, <1>1, <1>5 DEF RpcInsert, Promised
  <2>3. ASSUME Sound, RedisAgrees PROVE RedisAgrees'
    BY <1>1, <1>5, <2>1, <2>3 DEF RpcInsert, RedisAgrees
  <2> QED BY <2>2, <2>3
<1>6. CASE RpcSend
  <2>1. Promised'
    BY <1>0, <1>1, <1>6 DEF RpcSend, Promised, TypeOK
  <2>2. ASSUME Sound, RedisAgrees PROVE RedisAgrees'
    BY <1>1, <1>6, <2>2 DEF RpcSend, RedisAgrees
  <2> QED BY <2>1, <2>2
<1> QED BY <1>2, <1>3, <1>4, <1>5, <1>6 DEF Rpc

LEMMA WebKeeps ==
    ASSUME LinksInv, WebMoves, UNCHANGED <<short_url_map, given, handlers, answer, server>>
    PROVE  Promised' /\ (Sound /\ RedisAgrees => RedisAgrees')
<1>0. TypeOK /\ WebServes /\ Promised
  BY DEF LinksInv, InvOK
<1>1. Promised'
  BY <1>0 DEF Promised, handlers, server
<1>2. ASSUME Sound, RedisAgrees PROVE RedisAgrees'
  <2>1. CASE WebAccept \/ WebRead
    BY <1>2, <2>1 DEF WebAccept, WebRead, RedisAgrees, handlers, server
  <2>2. CASE WebGet
    <3>1. redis[web_key] # NoUrl
      BY <1>0, <1>2, <2>2 DEF WebGet, WebServes, RedisAgrees, TypeOK
    <3> QED BY <1>2, <2>2, <3>1 DEF WebGet, RedisAgrees, Sound, CanFail, handlers, server
  <2>3. CASE WebFallback \/ WebSet
    BY <1>2, <2>3 DEF WebFallback, WebSet, RedisAgrees
  <2>4. CASE WebSend
    <3>1. \A v \in Visitors : asks'[v] \in Keys => asks'[v] = asks[v]
      BY <1>0, <2>4, LinksAssumption DEF WebSend, TypeOK
    <3> QED BY <1>2, <2>4, <3>1 DEF WebSend, RedisAgrees, handlers, server
  <2> QED BY <2>1, <2>2, <2>3, <2>4 DEF WebMoves
<1> QED BY <1>1, <1>2

LEMMA VisitKeeps ==
    ASSUME LinksInv, NEW v \in Visitors, Visit(v)
    PROVE  Promised' /\ (Sound /\ RedisAgrees => RedisAgrees')
<1>0. TypeOK /\ Promised
  BY DEF LinksInv, InvOK
<1>1. UNCHANGED <<redis, short_url_map, given, pic, answer, rpc_at, rpc_for, rpc_key, web_at, web_key, web_url>>
  BY DEF Visit, stored, handlers, server
<1>2. Promised'
  BY <1>0, <1>1 DEF Promised
<1>3. ASSUME Sound, RedisAgrees PROVE RedisAgrees'
  <2>1. \A k \in Keys : Given(k) => redis[k] # NoUrl
    BY <1>0, <1>3, LinksAssumption DEF Given, Promised, RedisAgrees
  <2>2. PICK x : asks' = [asks EXCEPT ![v] = x] /\ (x \in Keys => redis[x] # NoUrl)
    BY <1>3, <2>1, LinksAssumption DEF Visit, Sound
  <2>3. \A u \in Visitors : asks'[u] \in Keys => redis[asks'[u]] # NoUrl
    BY <1>0, <1>3, <2>2 DEF RedisAgrees, TypeOK
  <2> QED BY <1>1, <1>3, <2>3 DEF RedisAgrees
<1> QED BY <1>2, <1>3

LEMMA LinksNextOK == LinksInv /\ [Next /\ UNCHANGED env]_vars => LinksInv'
<1> SUFFICES ASSUME LinksInv, [Next /\ UNCHANGED env]_vars
             PROVE  LinksInv'
  OBVIOUS
<1>1. InvOK'
  BY NextOK DEF LinksInv
<1>2. Sound' = Sound
  BY DEF Sound, vars
<1>3. Promised' /\ (Sound /\ RedisAgrees => RedisAgrees')
  <2>1. ASSUME NEW w \in Workers, Begin(w) \/ Handle(w) PROVE Promised' /\ (Sound /\ RedisAgrees => RedisAgrees')
    BY <2>1, HandlersKeep
  <2>2. CASE Rpc
    BY <2>2, RpcKeeps
  <2>3. CASE Web
    BY <2>3, WebKeeps, DeathKeeps DEF Web, WebMoves, FallbackDies, EmptyRequestDies
  <2>4. CASE RedisLoses
    BY <2>4 DEF RedisLoses, LinksInv, Promised, Sound, CanFail, handlers, server
  <2>5. CASE Crash
    BY <2>5, DeathKeeps DEF Crash
  <2>6. CASE UNCHANGED vars
    BY <2>6 DEF LinksInv, Promised, RedisAgrees, vars, changing, stored, handlers, server, web
  <2>7. ASSUME NEW v \in Visitors, Visit(v) PROVE Promised' /\ (Sound /\ RedisAgrees => RedisAgrees')
    BY <2>7, VisitKeeps
  <2> QED BY <2>1, <2>2, <2>3, <2>4, <2>5, <2>6, <2>7 DEF Next
<1> QED BY <1>1, <1>2, <1>3 DEF LinksInv

(* Whatever dies or fails, a key that was returned is in short_url_map; and where
   redis keeps what it has, it leads to its own picture only. *)
THEOREM KeysWork == Spec => []ShortUrlsWork
<1>1. LinksInv => ShortUrlsWork
  <2> SUFFICES ASSUME LinksInv, NEW p \in Pics, given[p] # NoKey
               PROVE  /\ <<given[p], p>> \in short_url_map
                      /\ Sound => /\ redis[given[p]] = p
                                  /\ \A q \in Pics : <<given[p], q>> \in short_url_map => q = p
    BY DEF ShortUrlsWork
  <2>1. given[p] \in Keys /\ <<given[p], p>> \in short_url_map
    BY DEF LinksInv, InvOK, TypeOK, Promised
  <2> QED BY <2>1 DEF LinksInv, RedisAgrees
<1> QED BY <1>1, LinksInitOK, LinksNextOK, PTL DEF Spec

-----------------------------------------------------------------------------
(* Views *)

(* browses that were counted and are not answered yet *)
Due(p) == {w \in Workers : pc[w] = "br_reply" /\ pic[w] = p}

(* What was shown or is due is in the counter, and so is what a browse under way read:
   before it counted, and with one more, its own view, after that. *)
CountOK(p) ==
    /\ Len(told[p]) + Cardinality(Due(p)) <= pv[p]
    /\ \A i \in 1..Len(told[p]) : told[p][i] <= pv[p]
ReadOK(w) ==
    /\ pc[w] \in {"br_url", "br_count"} => seen[w] <= pv[pic[w]]
    /\ pc[w] = "br_reply" => seen[w] < pv[pic[w]]
ViewsInv == (\A p \in Pics : CountOK(p)) /\ \A w \in Workers : ReadOK(w)

OthersStay(w) ==
    \A v \in Workers \ {w} : pc'[v] = pc[v] /\ pic'[v] = pic[v] /\ seen'[v] = seen[v]

LEMMA DueFacts ==
    /\ \A p : IsFiniteSet(Due(p)) /\ Cardinality(Due(p)) \in Nat
    /\ \A p : IsFiniteSet(Due(p)') /\ Cardinality(Due(p)') \in Nat
<1>1. ASSUME NEW S \in SUBSET Workers PROVE IsFiniteSet(S) /\ Cardinality(S) \in Nat
  BY LinksAssumption, FS_Subset, FS_CardinalityType
<1>2. \A p : Due(p) \in SUBSET Workers /\ Due(p)' \in SUBSET Workers
  BY DEF Due
<1> QED BY <1>1, <1>2

(* a step that answers no browse and counts none *)
LEMMA ViewsApart ==
    ASSUME TypeOK, ViewsInv, UNCHANGED <<pv, told>>, NEW w \in Workers, OthersStay(w),
           pc[w] # "br_reply", pc'[w] # "br_reply",
           pc'[w] \in {"br_url", "br_count"} => seen'[w] <= pv[pic'[w]]
    PROVE  ViewsInv'
<1>1. \A p : Due(p)' = Due(p)
  BY DEF Due, OthersStay
<1>2. ASSUME NEW p \in Pics PROVE CountOK(p)'
  BY <1>1 DEF ViewsInv, CountOK
<1>3. ReadOK(w)'
  BY DEF ReadOK
<1>4. ASSUME NEW v \in Workers \ {w} PROVE ReadOK(v)'
  BY DEF ViewsInv, ReadOK, OthersStay
<1> QED BY <1>2, <1>3, <1>4 DEF ViewsInv

(* the increment: one statement, whatever others have read meanwhile *)
LEMMA CountCounts ==
    ASSUME TypeOK, ViewsInv, UNCHANGED told, NEW w \in Workers, OthersStay(w),
           pc[w] = "br_count", pc'[w] = "br_reply", pv' = Counted(w),
           pic'[w] = pic[w], seen'[w] = seen[w]
    PROVE  ViewsInv'
<1>1. PICK q \in Pics : q = pic[w]
  BY DEF TypeOK
<1>2. pv \in [Pics -> Nat] /\ \A p \in Pics : pv'[p] = IF p = q THEN pv[p] + 1 ELSE pv[p]
  BY <1>1 DEF TypeOK, Counted
<1>3. Due(q)' = Due(q) \cup {w} /\ \A p \in Pics \ {q} : Due(p)' = Due(p)
  BY <1>1 DEF Due, OthersStay
<1>4. Cardinality(Due(q)') = Cardinality(Due(q)) + 1
  <2>1. w \notin Due(q)
    BY DEF Due
  <2> QED BY <1>3, <2>1, DueFacts, FS_AddElement
<1>5. ASSUME NEW p \in Pics PROVE CountOK(p)'
  <2>1. told[p] \in Seq(Nat) /\ Len(told[p]) \in Nat /\ Cardinality(Due(p)) \in Nat
    BY DueFacts DEF TypeOK
  <2>2. \A i \in 1..Len(told[p]) : told[p][i] \in Nat
    BY <2>1
  <2>3. CountOK(p) /\ pv[p] \in Nat
    BY DEF ViewsInv, TypeOK
  <2>4. CASE p = q
    BY <1>2, <1>4, <2>1, <2>2, <2>3, <2>4 DEF CountOK
  <2>5. CASE p # q
    BY <1>2, <1>3, <2>3, <2>5 DEF CountOK
  <2> QED BY <2>4, <2>5
<1>6. ReadOK(w)'
  BY <1>1, <1>2 DEF ViewsInv, ReadOK, TypeOK
<1>7. ASSUME NEW v \in Workers \ {w} PROVE ReadOK(v)'
  <2>1. CASE pc[v] \in {"br_url", "br_count", "br_reply"}
    <3>1. pic[v] \in Pics /\ seen[v] \in Nat
      BY <2>1 DEF TypeOK
    <3>2. pv'[pic[v]] >= pv[pic[v]] /\ pv'[pic[v]] \in Nat /\ pv[pic[v]] \in Nat
      BY <1>2, <3>1
    <3> QED BY <2>1, <3>1, <3>2 DEF ViewsInv, ReadOK, OthersStay
  <2>2. CASE pc[v] \notin {"br_url", "br_count", "br_reply"}
    BY <2>2 DEF ReadOK, OthersStay
  <2> QED BY <2>1, <2>2
<1> QED BY <1>5, <1>6, <1>7 DEF ViewsInv

(* the answer shows what was read and one more *)
LEMMA AnswerCounts ==
    ASSUME TypeOK, ViewsInv, NEW w \in Workers, BrowseReply(w)
    PROVE  ViewsInv'
<1>0. OthersStay(w) /\ pc'[w] = "idle" /\ pc[w] = "br_reply" /\ UNCHANGED pv
  BY ReplyType DEF BrowseReply, OthersStay
<1>1. PICK q \in Pics : q = pic[w]
  BY <1>0 DEF TypeOK
<1>2. PICK n \in Nat : n = seen[w] + 1 /\ n <= pv[q]
  BY <1>0, <1>1 DEF TypeOK, ViewsInv, ReadOK
<1>3. /\ told[q] \in Seq(Nat) /\ told'[q] = Append(told[q], n)
      /\ \A p \in Pics \ {q} : told'[p] = told[p]
  BY <1>1, <1>2 DEF BrowseReply, TypeOK
<1>4. /\ Len(told[q]) \in Nat /\ Len(told'[q]) = Len(told[q]) + 1
      /\ told'[q][Len(told[q]) + 1] = n
      /\ \A i \in 1..Len(told[q]) : told'[q][i] = told[q][i]
  BY <1>3
<1>5. Due(q)' = Due(q) \ {w} /\ w \in Due(q) /\ \A p \in Pics \ {q} : Due(p)' = Due(p)
  BY <1>0, <1>1 DEF Due, OthersStay
<1>6. Cardinality(Due(q)') = Cardinality(Due(q)) - 1
  <2>1. IsFiniteSet(Due(q))
    BY DueFacts
  <2>2. Cardinality(Due(q) \ {w}) = Cardinality(Due(q)) - 1
    BY <1>5, <2>1, FS_RemoveElement
  <2> QED BY <1>5, <2>2
<1>7. CountOK(q)'
  <2>1. Len(told'[q]) + Cardinality(Due(q)') <= pv[q]
    BY <1>4, <1>6, DueFacts DEF ViewsInv, CountOK, TypeOK
  <2>2. \A i \in 1..Len(told'[q]) : i \in 1..Len(told[q]) \/ i = Len(told[q]) + 1
    BY <1>4
  <2>3. \A i \in 1..Len(told'[q]) : told'[q][i] <= pv[q]
    BY <1>2, <1>4, <2>2 DEF ViewsInv, CountOK
  <2> QED BY <1>0, <2>1, <2>3 DEF CountOK
<1>8. ASSUME NEW p \in Pics \ {q} PROVE CountOK(p)'
  BY <1>0, <1>3, <1>5 DEF ViewsInv, CountOK
<1>9. ASSUME NEW v \in Workers PROVE ReadOK(v)'
  BY <1>0 DEF ViewsInv, ReadOK, OthersStay
<1> QED BY <1>7, <1>8, <1>9 DEF ViewsInv

LEMMA HandlerViews ==
    ASSUME TypeOK, ViewsInv, NEW w \in Workers, Begin(w) \/ Handle(w)
    PROVE  ViewsInv'
<1>1. CASE BrowseReply(w)
  BY <1>1, AnswerCounts
<1>2. CASE BrowseCount(w) /\ Goto(w, "br_reply") /\ pv' = Counted(w) /\ UNCHANGED <<pic, seen, answer>>
  BY <1>2, CountCounts DEF BrowseCount, Goto, OthersStay, TypeOK
<1>3. CASE ~BrowseReply(w) /\ ~(BrowseCount(w) /\ ~Reply(w))
  <2>1. pc[w] # "br_reply" /\ UNCHANGED <<pv, told>>
    <3>1. CASE Begin(w)
      BY <3>1 DEF Begin, BeginShare, BeginOther, stored
    <3>2. CASE ShareInsert(w) \/ ShareCall(w) \/ ShareReply(w) \/ BrowseRow(w) \/ BrowseUrl(w) \/ Cancel(w)
      BY <3>2 DEF ShareInsert, ShareCall, ShareReply, BrowseRow, BrowseUrl, Cancel, stored
    <3>3. CASE BrowseCount(w) /\ Reply(w)
      <4>1. pc'[w] = "idle"
        BY <3>3, ReplyType
      <4> QED BY <3>3, <4>1 DEF BrowseCount, Goto, TypeOK
    <3> QED BY <1>3, <3>1, <3>2, <3>3 DEF Handle
  <2>2. /\ OthersStay(w) /\ pc'[w] # "br_reply"
        /\ pc'[w] \in {"br_url", "br_count"} => seen'[w] <= pv[pic'[w]]
    <3>1. CASE Reply(w)
      BY <3>1, ReplyType DEF OthersStay
    <3>2. CASE Begin(w)
      BY <3>2 DEF Begin, BeginShare, BeginOther, Goto, OthersStay, TypeOK
    <3>3. CASE (ShareInsert(w) \/ ShareCall(w)) /\ ~Reply(w)
      BY <3>3 DEF ShareInsert, ShareCall, Goto, OthersStay, TypeOK
    <3>4. CASE BrowseRow(w) /\ ~Reply(w)
      <4>1. /\ pic[w] \in Pics /\ seen' = [seen EXCEPT ![w] = pv[pic[w]]]
            /\ UNCHANGED pic /\ pc' = [pc EXCEPT ![w] = "br_url"]
        BY <3>4 DEF BrowseRow, Goto, TypeOK
      <4> QED BY <4>1 DEF OthersStay, TypeOK
    <3>5. CASE BrowseUrl(w) /\ ~Reply(w)
      BY <3>5 DEF BrowseUrl, Goto, OthersStay, TypeOK, ViewsInv, ReadOK
    <3> QED BY <1>3, <3>1, <3>2, <3>3, <3>4, <3>5 DEF Handle, ShareReply, BrowseCount, Cancel
  <2> QED BY <2>1, <2>2, ViewsApart
<1> QED BY <1>1, <1>2, <1>3 DEF BrowseCount

LEMMA ViewsDeath == ASSUME TypeOK, ViewsInv, ProcessDies PROVE ViewsInv'
<1>1. UNCHANGED <<pv, told>> /\ \A w \in Workers : pc'[w] = "idle"
  BY DEF ProcessDies, stored
<1>2. ASSUME NEW p \in Pics PROVE CountOK(p)'
  <2>1. Due(p)' = {}
    BY <1>1 DEF Due
  <2>2. told[p] \in Seq(Nat) /\ Len(told[p]) \in Nat /\ pv[p] \in Nat
    BY DEF TypeOK
  <2> QED BY <1>1, <2>1, <2>2, DueFacts, FS_EmptySet DEF ViewsInv, CountOK
<1>3. ASSUME NEW w \in Workers PROVE ReadOK(w)'
  BY <1>1 DEF ReadOK
<1> QED BY <1>2, <1>3 DEF ViewsInv

LEMMA ViewsInit == Init => ViewsInv
<1> SUFFICES ASSUME Init PROVE ViewsInv
  OBVIOUS
<1>1. ASSUME NEW p \in Pics PROVE CountOK(p)
  <2>1. Due(p) = {} /\ told[p] = <<>> /\ pv[p] = 0
    BY DEF Init, Due
  <2> QED BY <2>1, FS_EmptySet DEF CountOK
<1> QED BY <1>1 DEF Init, ViewsInv, ReadOK

LEMMA ViewsNext == TypeOK /\ ViewsInv /\ [Next /\ UNCHANGED env]_vars => ViewsInv'
<1> SUFFICES ASSUME TypeOK, ViewsInv, [Next /\ UNCHANGED env]_vars
             PROVE  ViewsInv'
  OBVIOUS
<1>1. ASSUME NEW w \in Workers, Begin(w) \/ Handle(w) PROVE ViewsInv'
  BY <1>1, HandlerViews
<1>2. CASE ProcessDies
  BY <1>2, ViewsDeath
<1>3. CASE UNCHANGED <<pv, told, handlers>>
  BY <1>3 DEF ViewsInv, CountOK, ReadOK, Due, handlers
<1>4. (\E v \in Visitors : Visit(v)) \/ Rpc \/ RedisLoses => UNCHANGED <<pv, told, handlers>>
  BY DEF Visit, Rpc, RedisLoses, stored
<1>5. Web \/ Crash => ProcessDies \/ UNCHANGED <<pv, told, handlers>>
  BY DEF Web, FallbackDies, EmptyRequestDies, Crash
<1> QED BY <1>1, <1>2, <1>3, <1>4, <1>5 DEF Next, vars, changing, stored

(* No view is lost, for any number of visitors of any number of pictures: the
   increment is one statement, the answer comes after it, and a browse whose row was
   cancelled meanwhile is neither counted nor answered with a count. *)
THEOREM AllViewsCount == Spec => []ViewsCounted
<1>1. TypeOK /\ ViewsInv => ViewsCounted
  <2> SUFFICES ASSUME TypeOK, ViewsInv, NEW p \in share_picture_list
               PROVE  /\ Len(told[p]) <= pv[p]
                      /\ \A i \in 1..Len(told[p]) : told[p][i] <= pv[p]
    BY DEF ViewsCounted
  <2>1. p \in Pics /\ pv[p] \in Nat /\ Len(told[p]) \in Nat /\ CountOK(p)
    BY DEF TypeOK, ViewsInv
  <2> QED BY <2>1, DueFacts DEF CountOK
<1> QED BY <1>1, ViewsInit, ViewsNext, TypeCorrect, PTL DEF Spec

-----------------------------------------------------------------------------
(* Refinement of LinkMap *)

Asked == [v \in Visitors |-> IF asks[v] \in Keys THEN asks[v] ELSE NoKey]

LEMMA MapInit == Init => TheMap!Init
<1> SUFFICES ASSUME Init PROVE TheMap!Init
  OBVIOUS
<1>1. Asked = [v \in Visitors |-> NoKey]
  BY DEF Asked, Init
<1> QED BY <1>1 DEF Asked, Init, TheMap!Init

LEMMA AskedEq == ASSUME asks' = asks PROVE Asked' = Asked
BY DEF Asked

LEMMA DeathMaps == ASSUME ProcessDies PROVE TheMap!HangUp
<1>1. Asked' = [v \in Visitors |-> NoKey]
  BY DEF Asked, ProcessDies
<1> QED BY <1>1 DEF Asked, ProcessDies, stored, TheMap!HangUp

LEMMA SetMaps == ASSUME LinksInv, RedisAgrees, Rpc PROVE [TheMap!Next]_(TheMap!vars)
<1>0. TypeOK /\ RpcServes /\ UNCHANGED <<asks, shown>> /\ Asked' = Asked
  BY AskedEq DEF LinksInv, InvOK, Rpc
<1>1. CASE redis' = redis
  BY <1>0, <1>1 DEF Asked, TheMap!vars
<1>2. CASE RpcSet /\ redis' = [redis EXCEPT ![rpc_key] = pic[rpc_for]]
  <2>1. rpc_key \in Keys /\ pic[rpc_for] \in Pics /\ redis[rpc_key] = NoUrl
    BY <1>0, <1>2 DEF RpcSet, RpcServes, RedisAgrees, TypeOK
  <2>2. TheMap!Give(rpc_key, pic[rpc_for])
    BY <1>0, <1>2, <2>1 DEF Asked, TheMap!Give
  <2> QED BY <2>1, <2>2 DEF TheMap!Next
<1> QED BY <1>1, <1>2 DEF Rpc, RpcAccept, RpcGet, RpcSet, RpcInsert, RpcSend

LEMMA WebMaps == ASSUME LinksInv, RedisAgrees, WebMoves, Sound PROVE [TheMap!Next]_(TheMap!vars)
<1>0. TypeOK /\ WebServes
  BY DEF LinksInv, InvOK
<1>1. CASE ~ WebSend
  <2>1. UNCHANGED <<redis, asks, shown>>
    BY <1>1 DEF WebMoves, WebAccept, WebRead, WebGet, WebFallback, WebSet, RedisAgrees
  <2> QED BY <2>1, AskedEq DEF Asked, TheMap!vars
<1>2. CASE WebSend
  <2>1. /\ web_for \in Visitors /\ asks[web_for] \in Keys /\ web_url = redis[asks[web_for]]
        /\ UNCHANGED redis /\ shown' = [shown EXCEPT ![web_for] = web_url]
        /\ asks' = [asks EXCEPT ![web_for] = NoKey]
    BY <1>0, <1>2 DEF WebSend, WebServes, RedisAgrees, TypeOK
  <2>2. Asked[web_for] = asks[web_for] /\ Asked[web_for] # NoKey
    BY <2>1, LinksAssumption DEF Asked
  <2>3. Asked' = [Asked EXCEPT ![web_for] = NoKey]
    BY <1>0, <2>1, LinksAssumption DEF Asked, TypeOK
  <2>4. TheMap!Show(web_for)
    BY <2>1, <2>2, <2>3 DEF Asked, TheMap!Show
  <2>5. TheMap!Next
    <3>1. PICK v \in Visitors : v = web_for
      BY <2>1
    <3>2. TheMap!Show(v)
      BY <2>4, <3>1 DEF TheMap!Show
    <3> QED BY <3>2 DEF TheMap!Next
  <2> QED BY <2>5
<1> QED BY <1>1, <1>2

LEMMA VisitMaps ==
    ASSUME LinksInv, RedisAgrees, Sound, NEW v \in Visitors, Visit(v)
    PROVE  [TheMap!Next]_(TheMap!vars)
<1>0. TypeOK /\ Promised /\ UNCHANGED <<redis, shown>> /\ asks[v] = NoKey
  BY DEF LinksInv, InvOK, Visit, stored
<1>1. CASE \E k \in Keys : Given(k) /\ asks' = [asks EXCEPT ![v] = k]
  <2>1. PICK k \in Keys : Given(k) /\ asks' = [asks EXCEPT ![v] = k]
    BY <1>1
  <2>2. redis[k] # NoUrl
    BY <1>0, <2>1, LinksAssumption DEF Given, Promised, RedisAgrees
  <2>3. Asked[v] = NoKey /\ Asked' = [Asked EXCEPT ![v] = k]
    <3>1. /\ asks \in [Visitors -> Keys \cup {NoKey, Mute, Gone}] /\ asks[v] = NoKey
          /\ k \notin {NoKey, Mute, Gone} /\ NoKey \notin {Mute, Gone}
      BY <1>0, LinksAssumption DEF TypeOK
    <3> QED BY <2>1, <3>1 DEF Asked
  <2>4. TheMap!Ask(v, k)
    BY <1>0, <2>2, <2>3 DEF Asked, TheMap!Ask
  <2> QED BY <2>1, <2>4 DEF TheMap!Next
<1>2. CASE asks' = [asks EXCEPT ![v] = Mute] \/ asks' = [asks EXCEPT ![v] = Gone]
  <2>1. Asked' = Asked
    BY <1>0, <1>2, LinksAssumption DEF Asked, TypeOK
  <2> QED BY <1>0, <2>1 DEF Asked, TheMap!vars
<1> QED BY <1>1, <1>2 DEF Visit, Sound

LEMMA StepMaps == LinksInv /\ [Next /\ UNCHANGED env]_vars => [Sound => TheMap!Next]_(TheMap!vars)
<1> SUFFICES ASSUME LinksInv, [Next /\ UNCHANGED env]_vars, Sound
             PROVE  [TheMap!Next]_(TheMap!vars)
  OBVIOUS
<1>0. RedisAgrees
  BY DEF LinksInv
<1>1. ASSUME NEW w \in Workers, Begin(w) \/ Handle(w) PROVE [TheMap!Next]_(TheMap!vars)
  <2>1. UNCHANGED <<redis, asks, shown>>
    BY <1>1 DEF Begin, BeginShare, BeginOther, Handle, ShareInsert, ShareCall, ShareReply,
                BrowseRow, BrowseUrl, BrowseCount, BrowseReply, Cancel, stored
  <2> QED BY <2>1, AskedEq DEF Asked, TheMap!vars
<1>2. ASSUME NEW v \in Visitors, Visit(v) PROVE [TheMap!Next]_(TheMap!vars)
  BY <1>0, <1>2, VisitMaps
<1>3. CASE Rpc
  BY <1>0, <1>3, SetMaps
<1>4. CASE ProcessDies
  BY <1>4, DeathMaps DEF TheMap!Next
<1>5. CASE WebMoves
  BY <1>0, <1>5, WebMaps
<1>6. CASE RedisLoses
  BY <1>6 DEF RedisLoses, Sound, CanFail
<1>7. CASE UNCHANGED vars
  BY <1>7, AskedEq DEF Asked, TheMap!vars, vars, changing, stored
<1> QED BY <1>1, <1>2, <1>3, <1>4, <1>5, <1>6, <1>7
        DEF Next, Web, WebMoves, FallbackDies, EmptyRequestDies, Crash

(* Handlers, RPC server and web service implement LinkMap, for any number of each
   and of keys, also when the process dies. *)
THEOREM Refinement == Spec => ImplementsLinkMap
<1> QED BY MapInit, StepMaps, LinksInitOK, LinksNextOK, PTL DEF Spec, ImplementsLinkMap

=============================================================================
