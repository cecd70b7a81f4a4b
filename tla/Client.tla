------------------------------- MODULE Client -------------------------------
(***************************************************************************)
(* The web front end: the tabs of one browser, the cookie they share, and  *)
(* the requests they have under way.  Translated from the application      *)
(* chunk main.41773419.chunk.js, with the loader of runtime-main and the   *)
(* upload component of the vendor chunk as far as the application uses     *)
(* them; the server's answers from its handlers (files are those of module *)
(* FileStore, one owner's rows standing for them).  Answers come in any    *)
(* order.  One page of the table stands for all; the registration form and *)
(* the login form are one page; sharing and the other lists are left out.  *)
(*                                                                         *)
(* A scenario is a record chosen at the start: which operations users      *)
(* perform, in which tabs, under which names; the accounts there are;      *)
(* whether users are patient (they act only when nothing is under way) and *)
(* whether requests, statements and scripts may fail.                      *)
(***************************************************************************)
EXTENDS Accounts

CONSTANTS Tabs, Files,
          BigFiles,     \* files of 10 MB and more
          Scenarios,    \* the scenarios to explore
          MaxNet        \* bound: requests under way at which users wait

OpNames == {"register", "log out", "pick", "refresh", "sort", "delete", "delete all",
            "leave", "expire"}
Scenario == [ops : SUBSET OpNames, tabs : SUBSET Tabs, names : SUBSET Users,
             rows : SUBSET [user : Users, pwd : Passwords], owned : SUBSET (Users \X Files),
             patient : BOOLEAN, faulty : BOOLEAN]
ASSUME ClientAssumption ==
    /\ BigFiles \subseteq Files /\ Nobody \notin Files /\ MaxNet \in Nat
    /\ IsFiniteSet(Files) /\ IsFiniteSet(Tabs)
    /\ \A e \in Scenarios : e \in Scenario

VARIABLES
    env,              \* the scenario
    user_file_list,   \* pairs of a user and a file
    cookie,           \* what the tabs share: [user, token]
    page, chunks,     \* per tab: what it shows, and the scripts that have run
    loading,          \* per tab: the button of the form waits for an answer
    who,              \* per tab: the user and token it works with
    table, sort,      \* per tab: files its table shows, order for refreshing
    pick,             \* per tab and file: how far the upload of a file is
    told,             \* names and passwords whose registration was confirmed
    net               \* requests under way

server == <<user_info, issued, alive, user_file_list>>
form == <<page, chunks, loading, who, cookie>>
files == <<table, sort, pick>>
vars == <<env, server, form, files, told, net>>

NoToken == 0
Empty == [user |-> Nobody, token |-> NoToken]
Identity == [user : Users \cup {Nobody}, token : Tokens \cup {NoToken}]
Moving == {"boot", "route", "enter", "log in", "log out"}
NoCode == 9      \* httpPost after a failure: no data
Requests ==
    [tab : Tabs, id : Nat, live : BOOLEAN,
     op : {"register", "login", "mount", "refresh", "md5", "upload", "delete", "delete all"},
     as : Identity, pwd : Passwords \cup {Nobody}, file : Files \cup {Nobody},
     sort : {"normal", "pv"}, stage : {"sent", "looked", "answered"},
     code : {0, 1, 2, 5, NoCode}, token : Tokens \cup {NoToken}, list : SUBSET Files]

TypeOK ==
    /\ AccountsTypeOK
    /\ env \in Scenarios
    /\ user_file_list \subseteq Users \X Files
    /\ cookie \in Identity
    /\ page \in [Tabs -> {"closed", "login", "files"} \cup Moving]
    /\ chunks \in [Tabs -> SUBSET {"vendor", "main"}]
    /\ loading \in [Tabs -> BOOLEAN]
    /\ who \in [Tabs -> Identity]
    /\ table \in [Tabs -> SUBSET Files] /\ sort \in [Tabs -> {"normal", "pv"}]
    /\ pick \in [Tabs -> [Files -> {"none", "checking", "refused", "uploading", "done", "failed"}]]
    /\ told \subseteq [user : Users, pwd : Passwords]
    /\ net \subseteq Requests

NoPicks == [f \in Files |-> "none"]
Init ==
    /\ env \in Scenarios
    /\ AccountsInit(env.rows)
    /\ user_file_list = env.owned /\ cookie = Empty
    /\ page = [t \in Tabs |-> "closed"] /\ chunks = [t \in Tabs |-> {}]
    /\ loading = [t \in Tabs |-> FALSE] /\ who = [t \in Tabs |-> Empty]
    /\ table = [t \in Tabs |-> {}] /\ sort = [t \in Tabs |-> "normal"]
    /\ pick = [t \in Tabs |-> NoPicks]
    /\ told = {} /\ net = {}

-----------------------------------------------------------------------------
(* Requests.  Their ids tell apart requests that are otherwise alike; a batch of
   deletions has one id. *)
FreshId == CHOOSE i \in 1..Cardinality(net) + 1 : \A m \in net : m.id # i
MixedRequest(t, op) ==
    [tab |-> t, id |-> FreshId, live |-> TRUE, op |-> op,
     as |-> [user |-> cookie.user, token |-> who[t].token],
     pwd |-> Nobody, file |-> Nobody, sort |-> sort[t], stage |-> "sent",
     code |-> 0, token |-> NoToken, list |-> {}]
Request(t, op) ==
    [tab |-> t, id |-> FreshId, live |-> TRUE, op |-> op, as |-> who[t],
     pwd |-> Nobody, file |-> Nobody, sort |-> sort[t], stage |-> "sent",
     code |-> 0, token |-> NoToken, list |-> {}]
About(t, op, f) == [Request(t, op) EXCEPT !.file = f]
Answered(m) == m.stage = "answered"

Quiet == net = {} /\ \A t \in Tabs : page[t] \notin Moving

(* A user touches tab t; requests already under way bound what he may add. *)
Touch(t) ==
    /\ t \in env.tabs
    /\ env.patient => Quiet
    /\ Cardinality(net) < MaxNet
    /\ UNCHANGED <<env, server, told>>
Show(t, p) == page' = [page EXCEPT ![t] = p]

(* What belonged to the page a tab leaves gets no more attention. *)
Unmount(t) ==
    /\ net' = {[m EXCEPT !.live = @ /\ m.tab # t] : m \in net}
    /\ table' = [table EXCEPT ![t] = {}]
    /\ sort' = [sort EXCEPT ![t] = "normal"]
    /\ pick' = [pick EXCEPT ![t] = NoPicks]
    /\ who' = [who EXCEPT ![t] = Empty]

-----------------------------------------------------------------------------
(* Loading: the runtime marks the chunk of a script as installed and starts the
   entry module when all chunks it was deferred for are there.  (The scripts of
   the page come in order; the runtime does not rely on it.) *)
OpenTab(t) ==
    /\ page[t] = "closed" /\ Touch(t) /\ Show(t, "boot")
    /\ UNCHANGED <<chunks, loading, who, cookie, files, net>>

Deferred == {"vendor", "main"}
EntryReady(t, c) == Deferred \subseteq chunks[t] \cup {c}
ScriptRuns(t) ==
    /\ page[t] = "boot"
    /\ \E c \in Deferred \ chunks[t] :
        /\ chunks' = [chunks EXCEPT ![t] = @ \cup {c}]
        /\ IF EntryReady(t, c) THEN Show(t, "route") ELSE UNCHANGED page
    /\ UNCHANGED <<env, server, loading, who, cookie, files, told, net>>

(* PrivateRoute: the table needs a user and a token in the cookie.  MyFiles reads
   them once, when it is mounted, and asks for its list. *)
Route(t) ==
    /\ page[t] = "route"
    /\ IF cookie.user # Nobody /\ cookie.token # NoToken
       THEN /\ Show(t, "files")
            /\ who' = [who EXCEPT ![t] = cookie]
            /\ net' = net \cup {[Request(t, "mount") EXCEPT !.as = cookie]}
       ELSE Show(t, "enter") /\ UNCHANGED <<who, net>>
    /\ UNCHANGED <<env, server, chunks, loading, cookie, files, told>>

(* Login and Reg: who has a token already goes where he came from *)
Enter(t) ==
    /\ page[t] = "enter"
    /\ Show(t, IF cookie.token # NoToken THEN "route" ELSE "login")
    /\ loading' = [loading EXCEPT ![t] = FALSE]
    /\ UNCHANGED <<env, server, chunks, who, cookie, files, told, net>>

Submit(t, op) ==
    /\ page[t] = "login" /\ ~loading[t] /\ Touch(t)
    /\ Cardinality(FreshTokens) > Cardinality({m \in net : m.op = "login" /\ m.stage = "sent"})
    /\ loading' = [loading EXCEPT ![t] = TRUE]
    /\ \E u \in env.names, p \in Passwords :
        net' = net \cup {[Request(t, op) EXCEPT !.as.user = u, !.pwd = p]}
    /\ UNCHANGED <<page, chunks, who, cookie, files>>
SubmitLogin(t) == Submit(t, "login")
SubmitRegister(t) == "register" \in env.ops /\ Submit(t, "register")

(* setCookie writes the name and the token one after the other, and a tab that
   runs in another process can read the cookie in between. *)
WriteToken(t) ==
    /\ page[t] \in {"log in", "log out"}
    /\ cookie' = [cookie EXCEPT !.token = who[t].token]
    /\ Show(t, IF page[t] = "log in" THEN "route" ELSE "enter")
    /\ who' = [who EXCEPT ![t] = Empty]
    /\ UNCHANGED <<env, server, chunks, loading, files, told, net>>

KeepsToken(t) ==
    /\ cookie' = [cookie EXCEPT !.user = Nobody] /\ Show(t, "enter")
ClearsName(t) ==
    /\ cookie' = [cookie EXCEPT !.user = Nobody] /\ Show(t, "log out")
LogOut(t) ==
    /\ page[t] = "files" /\ "log out" \in env.ops /\ Touch(t)
    /\ Unmount(t) /\ ClearsName(t)
    /\ UNCHANGED <<chunks, loading>>

(* to another page and back *)
Leave(t) ==
    /\ page[t] = "files" /\ "leave" \in env.ops /\ Touch(t)
    /\ Unmount(t) /\ Show(t, "route")
    /\ UNCHANGED <<chunks, loading, cookie>>

-----------------------------------------------------------------------------
(* The file table *)
OnFiles(t, op) ==
    /\ page[t] = "files" /\ op \in env.ops /\ Touch(t)
    /\ UNCHANGED <<page, chunks, loading, who, cookie, table>>

Refresh(t) ==
    /\ OnFiles(t, "refresh")
    /\ net' = net \cup {Request(t, "refresh")} /\ UNCHANGED <<sort, pick>>
ChooseSort(t) ==
    /\ OnFiles(t, "sort")
    /\ \E s \in {"normal", "pv"} : sort' = [sort EXCEPT ![t] = s]
    /\ UNCHANGED <<pick, net>>
Delete(t) ==
    /\ OnFiles(t, "delete")
    /\ \E f \in table[t] : net' = net \cup {About(t, "delete", f)}
    /\ UNCHANGED <<sort, pick>>
DeleteAll(t) ==
    /\ OnFiles(t, "delete all")
    /\ table[t] # {} /\ net' = net \cup {About(t, "delete all", f) : f \in table[t]}
    /\ UNCHANGED <<sort, pick>>

(* beforeUpload: a big file is refused at once, but its md5 is still computed and
   sent.  A file that cannot be read leaves the promise open.  OnePick is a bound of
   the model: in a tab one pick of a file is under way at a time, because pick keeps
   one state per file.  The page itself lets the same file be picked again. *)
OnePick(t, f) == ~ \E m \in net : m.tab = t /\ m.file = f /\ m.op \in {"md5", "upload"} /\ m.live
PickFile(t) ==
    /\ OnFiles(t, "pick") /\ UNCHANGED sort
    /\ \E f \in Files :
        /\ OnePick(t, f)
        /\ pick' = [pick EXCEPT ![t][f] = IF f \in BigFiles THEN "refused" ELSE "checking"]
        /\ \/ net' = net \cup {About(t, "md5", f)}
           \/ env.faulty /\ UNCHANGED net

-----------------------------------------------------------------------------
(* The server.  Its other handlers verify the token, upload and delete do not. *)
Become(m, n) == net' = (net \ {m}) \cup {n}
Reply(m, c) == [m EXCEPT !.stage = "answered", !.code = c]
Denied(m) == ~VerifyToken(m.as.user, m.as.token)
FilesOf(u) == {f \in Files : <<u, f>> \in user_file_list}

ServeRegister(m) ==
    /\ m.op = "register" /\ UNCHANGED user_file_list
    /\ \/ /\ m.stage = "sent" /\ UNCHANGED accounts
          /\ \/ (NameIsFree(m.as.user) \/ env.faulty) /\ Become(m, [m EXCEPT !.stage = "looked"])
             \/ ~NameIsFree(m.as.user) /\ Become(m, Reply(m, 2))
       \/ m.stage = "looked" /\ InsertUser(m.as.user, m.pwd) /\ Become(m, Reply(m, 0))
       \/ /\ m.stage = "looked" /\ env.faulty /\ UNCHANGED accounts
          /\ \E c \in {0, 1} : Become(m, Reply(m, c))

ServeLogin(m) ==
    /\ m.op = "login" /\ m.stage = "sent" /\ UNCHANGED user_file_list
    /\ \/ /\ FirstRowHas(m.as.user, m.pwd)
          /\ \E k \in Tokens : \E stored \in {TRUE, ~env.faulty} :
                IssueToken(m.as.user, k, stored) /\ Become(m, [Reply(m, 0) EXCEPT !.token = k])
       \/ /\ FirstRowHasNot(m.as.user, m.pwd) \/ env.faulty
          /\ Become(m, Reply(m, 1)) /\ UNCHANGED accounts

(* Sorted by downloads, a list is a command the handler does not know. *)
ServeList(m) ==
    /\ m.op \in {"mount", "refresh"} /\ m.stage = "sent" /\ UNCHANGED server
    /\ \/ /\ ~Denied(m) /\ m.sort = "normal"
          /\ Become(m, [Reply(m, 0) EXCEPT !.list = FilesOf(m.as.user)])
       \/ /\ Denied(m) \/ m.sort # "normal" \/ env.faulty
          /\ Become(m, Reply(m, 1))

(* Instant upload never succeeds; a token refused is answered like any failure. *)
ServeMd5(m) ==
    /\ m.op = "md5" /\ m.stage = "sent" /\ UNCHANGED server
    /\ \/ ~Denied(m) /\ m.file \in FilesOf(m.as.user) /\ Become(m, Reply(m, 5))
       \/ /\ Denied(m) \/ m.file \notin FilesOf(m.as.user) \/ env.faulty
          /\ Become(m, Reply(m, 1))

ServeUpload(m) ==
    /\ m.op = "upload" /\ m.stage = "sent" /\ UNCHANGED accounts
    /\ \/ /\ user_file_list' = user_file_list \cup {<<m.as.user, m.file>>}
          /\ Become(m, Reply(m, 0))
       \/ env.faulty /\ Become(m, Reply(m, 1)) /\ UNCHANGED user_file_list

ServeDelete(m) ==
    /\ m.op \in {"delete", "delete all"} /\ m.stage = "sent" /\ UNCHANGED accounts
    /\ \/ /\ m.file \in FilesOf(m.as.user)
          /\ user_file_list' = user_file_list \ {<<m.as.user, m.file>>}
          /\ \E c \in {0, IF env.faulty THEN 1 ELSE 0} : Become(m, Reply(m, c))
       \/ /\ m.file \notin FilesOf(m.as.user) \/ env.faulty
          /\ Become(m, Reply(m, 1)) /\ UNCHANGED user_file_list

Serve(m) ==
    /\ ServeRegister(m) \/ ServeLogin(m) \/ ServeList(m) \/ ServeMd5(m)
       \/ ServeUpload(m) \/ ServeDelete(m)
    /\ UNCHANGED <<env, form, files, told>>

(* A request or its answer is lost: the call fails and httpPost returns nothing. *)
Lost(m) ==
    /\ env.faulty /\ m.stage # "looked" /\ m.code # NoCode
    /\ Become(m, Reply(m, NoCode))
    /\ UNCHANGED <<env, server, form, files, told>>

Expire ==
    /\ "expire" \in env.ops /\ \E k \in Tokens : ExpireToken(k)
    /\ UNCHANGED <<env, user_file_list, form, files, told, net>>

-----------------------------------------------------------------------------
(* Answers *)
Forget(m) == net' = net \ {m}
Taken(m, op) == m.op = op /\ Answered(m) /\ UNCHANGED <<env, server, chunks>>

Released(m) == [loading EXCEPT ![m.tab] = FALSE]

(* Any answer but "failed" counts as a login. *)
LoggedIn(m) ==
    /\ Taken(m, "login") /\ Forget(m)
    /\ loading' = Released(m)
    /\ IF m.code \in {1, NoCode} THEN UNCHANGED <<page, who, cookie>>
       ELSE /\ who' = [who EXCEPT ![m.tab] = [user |-> m.as.user, token |-> m.token]]
            /\ cookie' = [cookie EXCEPT !.user = m.as.user]
            /\ Show(m.tab, "log in")
    /\ UNCHANGED <<files, told>>

UnlessFailed(m) == m.code # 1
Confirmed(m) == m.code = 0
Registered(m) ==
    /\ Taken(m, "register") /\ Forget(m)
    /\ loading' = Released(m)
    /\ told' = IF Confirmed(m) THEN told \cup {[user |-> m.as.user, pwd |-> m.pwd]} ELSE told
    /\ UNCHANGED <<page, who, cookie, files>>

(* The first list is shown whatever its code; a refresh keeps the table on code 1. *)
Listed(m) ==
    /\ Taken(m, "mount") \/ Taken(m, "refresh")
    /\ Forget(m)
    /\ IF m.live /\ m.code # NoCode /\ (m.op = "mount" \/ m.code # 1)
       THEN table' = [table EXCEPT ![m.tab] = m.list] ELSE UNCHANGED table
    /\ UNCHANGED <<page, who, cookie, loading, sort, pick, told>>

(* A request that goes out on behalf of m, with the user and token m had. *)
Follow(m, op) == [m EXCEPT !.id = FreshId, !.op = op, !.stage = "sent", !.code = 0,
                           !.list = {}]
ThenRefresh(m) == Become(m, [Follow(m, "refresh") EXCEPT !.file = Nobody])

(* The post of a picked file: the upload component reads customRequest from its props
   when it posts, so the refresh after the upload has the order chosen by then. *)
Post(m) == [Follow(m, "upload") EXCEPT !.sort = sort[m.tab]]

(* resolve() makes the upload component post the file, if it is still mounted and
   the promise has not been rejected before. *)
NeverSettled(m) == FALSE
Settled(m) == pick[m.tab][m.file] # "checking"
Posts(m) == m.live /\ ~Settled(m) /\ m.code = 1
OverlooksOwned(m) == m.live /\ ~Settled(m) /\ m.code \notin {5, NoCode}
Refuses(m) == m.live /\ ~Settled(m) /\ m.code # NoCode
Checked(m) ==
    /\ Taken(m, "md5")
    /\ IF Posts(m)
       THEN /\ pick' = [pick EXCEPT ![m.tab][m.file] = "uploading"]
            /\ Become(m, Post(m))
       ELSE /\ pick' = IF Refuses(m) THEN [pick EXCEPT ![m.tab][m.file] = "refused"] ELSE pick
            /\ Forget(m)
    /\ UNCHANGED <<page, who, cookie, loading, table, sort, told>>

Uploaded(m) ==
    /\ Taken(m, "upload")
    /\ pick' = IF ~m.live THEN pick
               ELSE [pick EXCEPT ![m.tab][m.file] = IF m.code = 0 THEN "done" ELSE "failed"]
    /\ IF m.code = 0 THEN ThenRefresh(m) ELSE Forget(m)
    /\ UNCHANGED <<page, who, cookie, loading, table, sort, told>>

Deleted(m) ==
    /\ Taken(m, "delete")
    /\ IF m.code # NoCode THEN ThenRefresh(m) ELSE Forget(m)
    /\ UNCHANGED <<page, who, cookie, loading, files, told>>

(* Promise.all: the table is refreshed after the last answer, whatever they were. *)
FirstOfBatch(m) == \E n \in net \ {m} : n.id = m.id
LastOfBatch(m) == ~ \E n \in net \ {m} : n.id = m.id
DeletedAll(m) ==
    /\ Taken(m, "delete all")
    /\ IF LastOfBatch(m) THEN ThenRefresh(m) ELSE Forget(m)
    /\ UNCHANGED <<page, who, cookie, loading, files, told>>

Deliver(m) == LoggedIn(m) \/ Registered(m) \/ Listed(m) \/ Checked(m)
              \/ Uploaded(m) \/ Deleted(m) \/ DeletedAll(m)

-----------------------------------------------------------------------------
User(t) == OpenTab(t) \/ SubmitLogin(t) \/ SubmitRegister(t) \/ LogOut(t) \/ Leave(t)
           \/ Refresh(t) \/ ChooseSort(t) \/ Delete(t) \/ DeleteAll(t) \/ PickFile(t)
Tab(t) == ScriptRuns(t) \/ Route(t) \/ Enter(t) \/ WriteToken(t)
Next == (\E t \in Tabs : User(t) \/ Tab(t)) \/ (\E m \in net : Serve(m) \/ Lost(m) \/ Deliver(m))
        \/ Expire

(* Scripts arrive unless the network fails; a request is answered or fails; a tab
   does what it has to do.  Nothing is assumed of users. *)
Ids == 1..(MaxNet + Cardinality(Files) + Cardinality(Tabs))
Spec == Init /\ [][Next]_vars
FairSpec ==
    /\ Spec
    /\ \A t \in Tabs : WF_vars(~env.faulty /\ ScriptRuns(t))
                      /\ WF_vars(Route(t) \/ Enter(t) \/ WriteToken(t))
    /\ \A i \in Ids : WF_vars(\E m \in net : m.id = i /\ (Serve(m) \/ Deliver(m)))

-----------------------------------------------------------------------------
(* Whatever goes to the server in the name of a user carries a token issued to
   that user, though pages read the cookie that other tabs write: users who wait
   for each tab never mix two accounts. *)
OneIdentity ==
    env.patient => \A m \in net : m.op \notin {"login", "register"} =>
        m.as.token # NoToken /\ issued[m.as.token] = m.as.user

(* Who was told that he is registered can log in with his password, and nobody
   else with another one. *)
RegisteredCanLogIn ==
    env.patient /\ ~env.faulty =>
        \A a \in told : FirstRowHas(a.user, a.pwd) /\ ~FirstRowHasNot(a.user, a.pwd)

(* When nothing is under way, the table shows what the server has: each upload
   and deletion ends with a list computed after it. *)
TableFresh ==
    env.patient /\ ~env.faulty /\ Cardinality(env.tabs) = 1 /\ "sort" \notin env.ops /\ Quiet =>
        \A t \in env.tabs : page[t] = "files" /\ VerifyToken(who[t].user, who[t].token)
                            => table[t] = FilesOf(who[t].user)

Posted(m) == m.op = "upload" /\ ~ \E n \in net : n.id = m.id /\ n.op = "upload"

(* A file is sent only for a page that is still there, after the server answered
   that it has to be, and never a big one. *)
UploadsAreAsked ==
    [][\A m \in net' : Posted(m) =>
          /\ m.file \notin BigFiles /\ page[m.tab] = "files"
          /\ \E n \in net \ net' : n.op = "md5" /\ n.tab = m.tab /\ n.file = m.file /\ n.live /\ n.code = 1]_vars

(* A tab that loads, logs in or logs out comes to rest: redirects between the
   login page and the private pages end. *)
TabSettles ==
    env.patient /\ ~env.faulty => \A t \in Tabs : page[t] \in Moving ~> page[t] \notin Moving

(* Each file a user picked is uploaded, refused or failed in the end. *)
PicksEnd ==
    ~env.faulty => \A t \in Tabs, f \in Files :
        pick[t][f] \in {"checking", "uploading"} ~> pick[t][f] \notin {"checking", "uploading"}

(* Each answer a page waits for is on its way, however the answers are ordered: a
   form that waits has its request under way and, unless requests may fail, so has
   each picked file that is not uploaded, refused or failed yet. *)
FormSent(t) == \E m \in net : m.tab = t /\ m.op \in {"register", "login"}
UnderWay(t, f, op) == \E m \in net : m.live /\ m.tab = t /\ m.file = f /\ m.op = op
PageIsAnswered ==
    /\ \A t \in Tabs : loading[t] => FormSent(t)
    /\ ~env.faulty =>
          \A t \in Tabs, f \in Files :
              /\ pick[t][f] = "checking" => UnderWay(t, f, "md5")
              /\ pick[t][f] = "uploading" => UnderWay(t, f, "upload")
=============================================================================
