------------------------------- MODULE Links -------------------------------
(***************************************************************************)
(* Shared pictures and their short URLs.  The handlers of ApiSharepicture  *)
(* run in the workers of the HTTP server.  A share asks the RPC server, a  *)
(* thread of the same process, for a short URL and waits for its answer.   *)
(* The short URL web service is another thread; it serves one visitor at a *)
(* time.  The two threads keep short keys in redis and in MySQL.           *)
(* A step is one SQL statement, one redis command or one socket operation. *)
(* Of the answers to handlers' requests only keys and counts are kept; the *)
(* paged list of pictures is left out.                                     *)
(***************************************************************************)
EXTENDS Naturals, FiniteSets, Sequences

CONSTANTS
    Workers, Visitors, Pics, Keys,
    NoKey, NoUrl, NotFound, Junk,  \* no key; no or an empty URL; 404; any other string
    Mute, Gone,    \* a visitor who sends no request; one who closes without sending
    Unsent,        \* no answer yet
    Nobody, Scenarios,
    MaxViews       \* bound: a picture viewed that often is not viewed again

OpKinds == {"share", "browse", "cancel"}
FaultKinds == {"insert_pic", "select", "update", "delete", "connect", "get", "set",
               "insert_map", "lose", "crash"}
VisitKinds == {"given", "any", "mute", "gone"}

(* What is asked for, what goes wrong, and what visitors of the web service do (ask
   for keys that were given to somebody or for any key, send nothing, hang up), and
   which pictures are shared. *)
Scenario == [ops : SUBSET OpKinds, faults : SUBSET FaultKinds, visits : SUBSET VisitKinds,
             visitors : SUBSET Visitors, pics : SUBSET Pics]

ASSUME LinksAssumption ==
    /\ \A e \in Scenarios : e \in Scenario
    /\ MaxViews \in Nat /\ IsFiniteSet(Workers)
    /\ {NoKey, Mute, Gone, Unsent} \cap Keys = {} /\ NoKey \notin {Mute, Gone, Unsent}
    /\ {NoUrl, NotFound, Junk} \cap Pics = {} /\ NoUrl \notin {NotFound, Junk}
    /\ Nobody \notin Workers \cup Visitors

VARIABLES
    env,            \* the scenario
    named,          \* pictures whose urlmd5 was generated
    share_picture_list, pv,   \* the rows (their urlmd5) and their counters
    redis,          \* short key -> picture whose full URL is stored, Junk or NoUrl
    short_url_map,  \* rows <<short_key, full_url>>
    given,          \* picture -> the key that convertToShortUrl returned, or NoKey
    told,           \* picture -> the counts that its visitors were shown, in order
    pc, pic, seen,  \* per worker: next step, urlmd5, pv as read
    answer,         \* per worker: the key that the RPC server sent, NoKey for an error, or Unsent
    backlog, rpc_at, rpc_for, rpc_key,  \* RPC server: listen queue, place, client, shortKey
    asks, shown,    \* per visitor: key of his request, where he was sent last
    queue, web_at, web_for, web_key, web_url  \* web service: likewise, fullUrl

stored == <<named, share_picture_list, pv, redis, short_url_map, given, told>>
handlers == <<pc, pic, seen>>
server == <<backlog, rpc_at, rpc_for, rpc_key>>
web == <<queue, web_at, web_for, web_key, web_url>>
changing == <<stored, handlers, answer, server, asks, shown, web>>
vars == <<env, changing>>

Urls == Pics \cup {Junk, NoUrl}
ShareSteps == {"sh_insert", "sh_call", "sh_wait"}
Steps == ShareSteps \cup {"idle", "br_row", "br_url", "br_count", "br_reply", "cancel"}

TypeOK ==
    /\ named \subseteq Pics /\ share_picture_list \subseteq named
    /\ pv \in [Pics -> Nat]
    /\ redis \in [Keys -> Urls]
    /\ short_url_map \subseteq Keys \X Pics
    /\ given \in [Pics -> Keys \cup {NoKey}]
    /\ told \in [Pics -> Seq(Nat)]
    /\ pc \in [Workers -> Steps]
    /\ pic \in [Workers -> Pics \cup {NoUrl}]
    /\ \A w \in Workers : pc[w] # "idle" => pic[w] \in named
    /\ seen \in [Workers -> Nat]
    /\ answer \in [Workers -> Keys \cup {NoKey, Unsent}]
    /\ backlog \in Seq(Workers)
    /\ rpc_at \in {"accept", "get", "set", "insert", "send"}
    /\ rpc_for \in Workers \cup {Nobody}
    /\ rpc_at # "accept" => rpc_for \in Workers
    /\ rpc_key \in Keys \cup {NoKey}
    /\ rpc_at \in {"set", "insert"} => rpc_key \in Keys
    /\ asks \in [Visitors -> Keys \cup {NoKey, Mute, Gone}]
    /\ shown \in [Visitors -> Urls \cup {NoKey, NotFound}]
    /\ queue \in Seq(Visitors)
    /\ web_at \in {"accept", "read", "get", "fallback", "set", "send"}
    /\ web_for \in Visitors \cup {Nobody}
    /\ web_at # "accept" => web_for \in Visitors
    /\ web_key \in Keys \cup {NoKey}
    /\ web_at \in {"get", "fallback", "set", "send"} => web_key \in Keys
    /\ web_url \in Urls \cup {NotFound}
    /\ web_at = "set" => web_url \in Urls

CanFail(fault) == fault \in env.faults
Goto(w, step) == pc' = [pc EXCEPT ![w] = step]

(* the handler returns *)
Reply(w) ==
    /\ Goto(w, "idle")
    /\ pic' = [pic EXCEPT ![w] = NoUrl]
    /\ seen' = [seen EXCEPT ![w] = 0]
    /\ answer' = [answer EXCEPT ![w] = Unsent]

Init ==
    /\ env \in Scenarios
    /\ named = {} /\ share_picture_list = {} /\ pv = [p \in Pics |-> 0]
    /\ redis = [k \in Keys |-> NoUrl] /\ short_url_map = {}
    /\ given = [p \in Pics |-> NoKey] /\ told = [p \in Pics |-> <<>>]
    /\ shown = [v \in Visitors |-> NoKey]
    /\ pc = [w \in Workers |-> "idle"]
    /\ pic = [w \in Workers |-> NoUrl]
    /\ seen = [w \in Workers |-> 0]
    /\ answer = [w \in Workers |-> Unsent]
    /\ backlog = <<>> /\ rpc_at = "accept" /\ rpc_for = Nobody /\ rpc_key = NoKey
    /\ asks = [v \in Visitors |-> NoKey]
    /\ queue = <<>> /\ web_at = "accept" /\ web_for = Nobody
    /\ web_key = NoKey /\ web_url = NoUrl

(* the process dies and is started again: redis and MySQL keep what they have *)
ProcessDies ==
    /\ pc' = [w \in Workers |-> "idle"]
    /\ pic' = [w \in Workers |-> NoUrl]
    /\ seen' = [w \in Workers |-> 0]
    /\ answer' = [w \in Workers |-> Unsent]
    /\ backlog' = <<>> /\ rpc_at' = "accept" /\ rpc_for' = Nobody /\ rpc_key' = NoKey
    /\ asks' = [v \in Visitors |-> NoKey]
    /\ queue' = <<>> /\ web_at' = "accept" /\ web_for' = Nobody
    /\ web_key' = NoKey /\ web_url' = NoUrl
    /\ UNCHANGED <<stored, shown>>

-----------------------------------------------------------------------------
(* Handlers of ApiSharepicture *)

AnyKey == Keys
FreeKeys == {k \in Keys : redis[k] = NoUrl}

(* bound: a free key for everybody who may take one *)
Room == Cardinality({w \in Workers : pc[w] \in ShareSteps}) +
        Cardinality({v \in Visitors : asks[v] \in Keys}) < Cardinality(FreeKeys)

BeginShare(w) ==
    /\ pc[w] = "idle" /\ "share" \in env.ops /\ Room
    /\ \E p \in Pics \ named :
          /\ p \in env.pics
          /\ named' = named \cup {p} /\ pic' = [pic EXCEPT ![w] = p]
    /\ Goto(w, "sh_insert")
    /\ UNCHANGED <<share_picture_list, pv, redis, short_url_map, given, told, seen, answer>>

BeginOther(w) ==
    /\ pc[w] = "idle"
    /\ \E p \in named :
          /\ pic' = [pic EXCEPT ![w] = p]
          /\ \/ "browse" \in env.ops /\ pv[p] < MaxViews /\ Goto(w, "br_row")
             \/ "cancel" \in env.ops /\ Goto(w, "cancel")
    /\ UNCHANGED <<stored, seen, answer>>

(* insert into share_picture_list *)
ShareInsert(w) ==
    /\ pc[w] = "sh_insert"
    /\ \/ /\ share_picture_list' = share_picture_list \cup {pic[w]}
          /\ Goto(w, "sh_call")
          /\ UNCHANGED <<pic, seen, answer>>
       \/ CanFail("insert_pic") /\ Reply(w) /\ UNCHANGED share_picture_list
    /\ UNCHANGED <<named, pv, redis, short_url_map, given, told, backlog>>

(* sendRequest: connect and send; a failure answers the share with an error and
   leaves the row *)
ShareCall(w) ==
    /\ pc[w] = "sh_call"
    /\ \/ /\ backlog' = Append(backlog, w)
          /\ Goto(w, "sh_wait")
          /\ UNCHANGED <<pic, seen, answer>>
       \/ CanFail("connect") /\ Reply(w) /\ UNCHANGED backlog
    /\ UNCHANGED stored

(* read returns what the server sent; the key is written to the log *)
ShareReply(w) ==
    /\ pc[w] = "sh_wait" /\ answer[w] # Unsent
    /\ given' = [given EXCEPT ![pic[w]] = answer[w]]
    /\ Reply(w)
    /\ UNCHANGED <<named, share_picture_list, pv, redis, short_url_map, told, backlog>>

BrowseRow(w) ==
    /\ pc[w] = "br_row"
    /\ \/ /\ pic[w] \in share_picture_list
          /\ seen' = [seen EXCEPT ![w] = pv[pic[w]]]
          /\ Goto(w, "br_url")
          /\ UNCHANGED <<pic, answer>>
       \/ (pic[w] \notin share_picture_list \/ CanFail("select")) /\ Reply(w)
    /\ UNCHANGED <<stored, backlog>>

(* select url from file_info: the file may have been deleted *)
BrowseUrl(w) ==
    /\ pc[w] = "br_url"
    /\ \/ Goto(w, "br_count") /\ UNCHANGED <<pic, seen, answer>>
       \/ Reply(w)
    /\ UNCHANGED <<stored, backlog>>

WrittenBack(w) == [pv EXCEPT ![pic[w]] = seen[w] + 1]
Counted(w) == [pv EXCEPT ![pic[w]] = @ + 1]

(* update ... set pv = pv + 1: once the share is cancelled no row matches, and that
   is an error like a failure *)
BrowseCount(w) ==
    /\ pc[w] = "br_count"
    /\ \/ /\ pic[w] \in share_picture_list /\ pv' = Counted(w)
          /\ Goto(w, "br_reply")
          /\ UNCHANGED <<pic, seen, answer>>
       \/ (pic[w] \notin share_picture_list \/ CanFail("update")) /\ Reply(w) /\ UNCHANGED pv
    /\ UNCHANGED <<named, share_picture_list, redis, short_url_map, given, told, backlog>>

(* the answer: the count as it was read, and this view *)
BrowseReply(w) ==
    /\ pc[w] = "br_reply"
    /\ told' = [told EXCEPT ![pic[w]] = Append(@, seen[w] + 1)]
    /\ Reply(w)
    /\ UNCHANGED <<named, share_picture_list, pv, redis, short_url_map, given, backlog>>

(* delete from share_picture_list; the short URL stays *)
Cancel(w) ==
    /\ pc[w] = "cancel"
    /\ \/ share_picture_list' = share_picture_list \ {pic[w]}
       \/ CanFail("delete") /\ UNCHANGED share_picture_list
    /\ Reply(w)
    /\ UNCHANGED <<named, pv, redis, short_url_map, given, told, backlog>>

Handle(w) ==
    /\ \/ ShareInsert(w) \/ ShareCall(w) \/ ShareReply(w)
       \/ BrowseRow(w) \/ BrowseUrl(w) \/ BrowseCount(w) \/ BrowseReply(w) \/ Cancel(w)
    /\ UNCHANGED <<rpc_at, rpc_for, rpc_key, asks, shown, web>>

-----------------------------------------------------------------------------
(* RPC server: handleConvertToShortUrlRequest for one client after the other *)

RpcAccept ==
    /\ rpc_at = "accept" /\ backlog # <<>>
    /\ rpc_for' = Head(backlog) /\ backlog' = Tail(backlog)
    /\ rpc_at' = "get"
    /\ UNCHANGED <<redis, short_url_map, answer, rpc_key>>

(* keys until one is not in redis; a failed Get says that it is not *)
RpcGet ==
    /\ rpc_at = "get"
    /\ \E k \in Keys : (k \in FreeKeys \/ CanFail("get")) /\ rpc_key' = k
    /\ rpc_at' = "set"
    /\ UNCHANGED <<redis, short_url_map, answer, backlog, rpc_for>>

ClosedUnanswered ==
    /\ rpc_at = "set"
    /\ \/ /\ redis' = [redis EXCEPT ![rpc_key] = pic[rpc_for]]
          /\ rpc_at' = "insert"
          /\ UNCHANGED <<rpc_for, rpc_key>>
       \/ /\ CanFail("set") /\ UNCHANGED redis
          /\ rpc_at' = "accept" /\ rpc_for' = Nobody /\ rpc_key' = NoKey
    /\ UNCHANGED <<short_url_map, answer, backlog>>
RpcSet ==
    /\ rpc_at = "set"
    /\ \/ /\ redis' = [redis EXCEPT ![rpc_key] = pic[rpc_for]]
          /\ rpc_at' = "insert"
          /\ UNCHANGED rpc_key
       \/ CanFail("set") /\ rpc_at' = "send" /\ rpc_key' = NoKey /\ UNCHANGED redis
    /\ UNCHANGED <<short_url_map, answer, backlog, rpc_for>>

InsertUnchecked ==
    /\ rpc_at = "insert"
    /\ \/ short_url_map' = short_url_map \cup {<<rpc_key, pic[rpc_for]>>}
       \/ CanFail("insert_map") /\ UNCHANGED short_url_map
    /\ rpc_at' = "send"
    /\ UNCHANGED <<redis, answer, backlog, rpc_for, rpc_key>>
(* insert into short_url_map; after a failure the key stays in redis *)
RpcInsert ==
    /\ rpc_at = "insert"
    /\ \/ short_url_map' = short_url_map \cup {<<rpc_key, pic[rpc_for]>>} /\ UNCHANGED rpc_key
       \/ CanFail("insert_map") /\ rpc_key' = NoKey /\ UNCHANGED short_url_map
    /\ rpc_at' = "send"
    /\ UNCHANGED <<redis, answer, backlog, rpc_for>>

(* send and close *)
RpcSend ==
    /\ rpc_at = "send"
    /\ answer' = [answer EXCEPT ![rpc_for] = rpc_key]
    /\ rpc_at' = "accept" /\ rpc_for' = Nobody /\ rpc_key' = NoKey
    /\ UNCHANGED <<redis, short_url_map, backlog>>

Rpc ==
    /\ RpcAccept \/ RpcGet \/ RpcSet \/ RpcInsert \/ RpcSend
    /\ UNCHANGED <<named, share_picture_list, pv, given, told, handlers, asks, shown, web>>

-----------------------------------------------------------------------------
(* Web service: RunShortUrlWebService and handleResolveShortUrlRequest *)

Given(k) == \E p \in Pics : given[p] = k

(* a visitor connects; his request arrives with it, or never *)
Visit(v) ==
    /\ v \in env.visitors /\ asks[v] = NoKey
    /\ \/ \E k \in Keys :
             /\ ("given" \in env.visits /\ Given(k)) \/ ("any" \in env.visits /\ Room)
             /\ asks' = [asks EXCEPT ![v] = k]
       \/ "mute" \in env.visits /\ asks' = [asks EXCEPT ![v] = Mute]
       \/ "gone" \in env.visits /\ asks' = [asks EXCEPT ![v] = Gone]
    /\ queue' = Append(queue, v)
    /\ UNCHANGED <<stored, handlers, answer, server, shown, web_at, web_for, web_key, web_url>>

WebAccept ==
    /\ web_at = "accept" /\ queue # <<>>
    /\ web_for' = Head(queue) /\ queue' = Tail(queue)
    /\ web_at' = "read"
    /\ UNCHANGED <<redis, asks, shown, web_key, web_url>>

WebRead ==
    /\ web_at = "read" /\ asks[web_for] \in Keys
    /\ web_key' = asks[web_for]
    /\ web_at' = "get"
    /\ UNCHANGED <<redis, asks, shown, queue, web_for, web_url>>

WebGet ==
    /\ web_at = "get"
    /\ \/ /\ redis[web_key] # NoUrl
          /\ web_url' = redis[web_key] /\ web_at' = "send"
       \/ /\ redis[web_key] = NoUrl \/ CanFail("get")
          /\ web_at' = "fallback" /\ UNCHANGED web_url
    /\ UNCHANGED <<redis, asks, shown, queue, web_for, web_key>>

(* The row of short_url_map is selected and never fetched: row_ was never set, so
   GetString returns any string.  (FallbackDies is its other outcome.) *)
WebFallback ==
    /\ web_at = "fallback"
    /\ \/ web_url' \in Urls /\ web_at' = "set"
       \/ CanFail("select") /\ web_url' = NotFound /\ web_at' = "send"
    /\ UNCHANGED <<redis, asks, shown, queue, web_for, web_key>>

WebSet ==
    /\ web_at = "set"
    /\ \/ redis' = [redis EXCEPT ![web_key] = web_url]
       \/ CanFail("set") /\ UNCHANGED redis
    /\ web_at' = "send"
    /\ UNCHANGED <<asks, shown, queue, web_for, web_key, web_url>>

WebSend ==
    /\ web_at = "send"
    /\ shown' = [shown EXCEPT ![web_for] = web_url]
    /\ asks' = [asks EXCEPT ![web_for] = NoKey]
    /\ web_at' = "accept" /\ web_for' = Nobody /\ web_key' = NoKey /\ web_url' = NoUrl
    /\ UNCHANGED <<redis, queue>>

(* row_ does not point to a row *)
FallbackDies == web_at = "fallback" /\ ProcessDies

(* substr on the empty request throws, and nothing catches it *)
EmptyRequestDies == web_at = "read" /\ asks[web_for] = Gone /\ ProcessDies

Web ==
    \/ /\ WebAccept \/ WebRead \/ WebGet \/ WebFallback \/ WebSet \/ WebSend
       /\ UNCHANGED <<named, share_picture_list, pv, short_url_map, given, told, handlers,
                      answer, server>>
    \/ FallbackDies
    \/ EmptyRequestDies

-----------------------------------------------------------------------------
(* redis evicts a key, or is started again without it *)
RedisLoses ==
    /\ CanFail("lose")
    /\ \E k \in Keys : redis' = [redis EXCEPT ![k] = NoUrl]
    /\ UNCHANGED <<named, share_picture_list, pv, short_url_map, given, told, handlers,
                   answer, server, asks, shown, web>>

Crash == CanFail("crash") /\ ProcessDies

Begin(w) == (BeginShare(w) \/ BeginOther(w)) /\ UNCHANGED <<server, asks, shown, web>>

Next ==
    \/ \E w \in Workers : Begin(w) \/ Handle(w)
    \/ \E v \in Visitors : Visit(v)
    \/ Rpc \/ Web \/ RedisLoses \/ Crash

Spec == Init /\ [][Next /\ UNCHANGED env]_vars

(* Threads run, statements, commands and socket operations return. *)
FairSpec ==
    /\ Spec
    /\ \A w \in Workers : WF_changing(Handle(w))
    /\ WF_changing(Rpc) /\ WF_changing(Web)

-----------------------------------------------------------------------------
(* What breaks the promise of LinkMap: a key that redis forgot, or that a failed
   Get does not see, is given a second time, and the fallback shows any string
   and stores it. *)
Sound == env.faults \cap {"get", "lose"} = {} /\ "any" \notin env.visits

(* A key that convertToShortUrl returned is in short_url_map with its picture, for
   ever; and where redis keeps what it has, the key leads to that picture and to no
   other. *)
ShortUrlsWork ==
    \A p \in Pics : given[p] # NoKey =>
        /\ <<given[p], p>> \in short_url_map
        /\ Sound => /\ redis[given[p]] = p
                    /\ \A q \in Pics : <<given[p], q>> \in short_url_map => q = p

(* Handlers, RPC server and web service together are a map of links that only
   grows, also when the process dies in between. *)
TheMap == INSTANCE LinkMap WITH Free <- NoUrl, Nothing <- NoKey,
    links <- redis, asks <- [v \in Visitors |-> IF asks[v] \in Keys THEN asks[v] ELSE NoKey]
ImplementsLinkMap == TheMap!Init /\ [][Sound => TheMap!Next]_(TheMap!vars)

(* No view is lost, however browses of a picture overlap and whatever is cancelled,
   fails or dies between their steps: the row counts at least the views that were
   answered, and no visitor was shown a count that the row has not reached.  So who
   asks after another was answered is shown a higher count. *)
ViewsCounted ==
    \A p \in share_picture_list :
        /\ Len(told[p]) <= pv[p]
        /\ \A i \in 1..Len(told[p]) : told[p][i] <= pv[p]

(* Every request is answered, also while the handler waits for the one RPC server;
   and so is every visitor, unless one sends nothing and all others wait for him. *)
EverybodyAnswered ==
    /\ \A w \in Workers : pc[w] # "idle" ~> pc[w] = "idle"
    /\ \A v \in Visitors :
           asks[v] # NoKey /\ "mute" \notin env.visits ~> asks[v] = NoKey

(* Nobody waits for a thread that does not know of him: a share that waits has its
   answer, is being served or is in the listen queue of the RPC server; so is a
   visitor in that of the web service, whatever fails and whenever the process dies. *)
Queues(s, e) == \E i \in 1..Len(s) : s[i] = e
WaitersServed ==
    /\ \A w \in Workers : pc[w] = "sh_wait" =>
           answer[w] # Unsent \/ (rpc_at # "accept" /\ rpc_for = w) \/ Queues(backlog, w)
    /\ \A v \in Visitors : asks[v] # NoKey =>
           (web_at # "accept" /\ web_for = v) \/ Queues(queue, v)
=============================================================================
