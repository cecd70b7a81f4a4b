----------------------------- MODULE ClientProofs -----------------------------
(***************************************************************************)
(* The web front end and the accounts, for any number of tabs, users,      *)
(* files, tokens and requests under way, and every scenario.               *)
(***************************************************************************)
EXTENDS Client, FiniteSetTheorems, TLAPS

FormReqs == {"register", "login"}
FileReqs == {"md5", "upload", "delete", "delete all"}

-----------------------------------------------------------------------------
(* Requests as records *)

(* There is always a fresh id. *)
LEMMA FreshIdIsFresh ==
    ASSUME IsFiniteSet(net)
    PROVE  FreshId \in Nat /\ \A m \in net : m.id # FreshId
<1> DEFINE T == {m.id : m \in net}
           g == [m \in net |-> m.id]
           n == Cardinality(net)
<1>1. g \in Surjection(net, T)
  BY DEF Surjection
<1>2. IsFiniteSet(T) /\ Cardinality(T) <= n /\ n \in Nat
  BY <1>1, FS_Surjection, FS_CardinalityType
<1>3. \E i \in 1..n + 1 : i \notin T
  <2> SUFFICES ASSUME 1..n + 1 \subseteq T PROVE FALSE
    OBVIOUS
  <2>1. Cardinality(1..n + 1) = n + 1
    BY <1>2, FS_Interval
  <2>2. Cardinality(1..n + 1) <= Cardinality(T) /\ Cardinality(T) \in Nat
    BY <1>2, FS_Subset, FS_CardinalityType
  <2> QED BY <1>2, <2>1, <2>2
<1>4. PICK i \in 1..n + 1 : \A m \in net : m.id # i
  BY <1>3
<1> QED BY <1>2, <1>4 DEF FreshId

(* n is the answer of the server to m; n follows m, with its user and token; n is
   what tab t sends. *)
SameSender(m, n) ==
    n.tab = m.tab /\ n.as = m.as /\ n.live = m.live /\ n.sort \in {m.sort, sort[m.tab]}
Replied(m, n, c) ==
    /\ n \in Requests /\ SameSender(m, n)
    /\ n.op = m.op /\ n.id = m.id /\ n.file = m.file /\ n.pwd = m.pwd /\ n.token = m.token
    /\ n.list = m.list /\ n.stage = "answered" /\ n.code = c
Followed(m, n, op) ==
    /\ n \in Requests /\ SameSender(m, n)
    /\ n.op = op /\ n.file = m.file /\ n.stage = "sent" /\ n.code = 0
    /\ \A x \in net : x.id # n.id
Sent(n, t, op) ==
    /\ n \in Requests /\ n.tab = t /\ n.op = op /\ n.as = who[t] /\ n.sort = sort[t]
    /\ n.live = TRUE /\ n.stage = "sent" /\ n.code = 0
    /\ n.id = FreshId

LEMMA ReplyFacts ==
    ASSUME NEW m \in Requests, NEW c \in {0, 1, 2, 5, NoCode}, NEW n, n = Reply(m, c)
    PROVE  Replied(m, n, c)
BY DEF Requests, Reply, SameSender, Replied

(* ... with a token, or with a list *)
SameRequest(m, n) ==
    n \in Requests /\ SameSender(m, n) /\ n.op = m.op /\ n.id = m.id /\ n.file = m.file /\ n.pwd = m.pwd

WithToken(r, k) == [r EXCEPT !.token = k]
WithList(r, l) == [r EXCEPT !.list = l]

LEMMA ReplyWithToken ==
    ASSUME NEW m, NEW r, Replied(m, r, 0), NEW k \in Tokens, NEW n, n = WithToken(r, k)
    PROVE  SameRequest(m, n) /\ n.token = k
<1>1. /\ r \in Requests /\ SameSender(m, r) /\ r.op = m.op /\ r.id = m.id
      /\ r.file = m.file /\ r.pwd = m.pwd
  BY DEF Replied
<1> QED BY <1>1 DEF Requests, SameSender, SameRequest, WithToken

LEMMA ReplyWithList ==
    ASSUME NEW m, NEW r, Replied(m, r, 0), NEW l \in SUBSET Files, NEW n, n = WithList(r, l)
    PROVE  SameRequest(m, n)
<1>1. /\ r \in Requests /\ SameSender(m, r) /\ r.op = m.op /\ r.id = m.id
      /\ r.file = m.file /\ r.pwd = m.pwd
  BY DEF Replied
<1> QED BY <1>1 DEF Requests, SameSender, SameRequest, WithList

LEMMA FollowFacts ==
    ASSUME NEW m \in Requests, NEW op \in {"refresh", "upload"}, IsFiniteSet(net),
           NEW n, n = Follow(m, op)
    PROVE  Followed(m, n, op)
BY FreshIdIsFresh DEF Requests, Follow, SameSender, Followed

LEMMA PostFacts ==
    ASSUME TypeOK, NEW m \in Requests, IsFiniteSet(net), NEW n, n = Post(m)
    PROVE  Followed(m, n, "upload")
<1>1. PICK r : r = Follow(m, "upload")
  OBVIOUS
<1>2. Followed(m, r, "upload")
  BY <1>1, FollowFacts
<1>3. PICK s : s = sort[m.tab]
  OBVIOUS
<1>4. s \in {"normal", "pv"}
  BY <1>3 DEF TypeOK, Requests
<1>5. n = [r EXCEPT !.sort = s]
  BY <1>1, <1>3 DEF Post
<1>6. r \in Requests
  BY <1>2 DEF Followed
<1>7. n \in Requests
  BY <1>4, <1>5, <1>6 DEF Requests
<1>8. n.tab = r.tab /\ n.as = r.as /\ n.live = r.live /\ n.sort = s
  BY <1>5, <1>6 DEF Requests
<1>9. n.op = r.op /\ n.file = r.file /\ n.stage = r.stage /\ n.code = r.code /\ n.id = r.id
  BY <1>5, <1>6 DEF Requests
<1> QED BY <1>2, <1>3, <1>7, <1>8, <1>9 DEF Followed, SameSender

LEMMA RequestFacts ==
    ASSUME TypeOK, IsFiniteSet(net), NEW t \in Tabs,
           NEW op \in {"register", "login", "mount", "refresh", "md5", "upload", "delete", "delete all"},
           NEW n, n = Request(t, op)
    PROVE  Sent(n, t, op)
BY FreshIdIsFresh DEF Requests, Request, TypeOK, Identity, Sent

LEMMA AboutFacts ==
    ASSUME TypeOK, IsFiniteSet(net), NEW t \in Tabs, NEW f \in Files, NEW op \in FileReqs,
           NEW n, n = About(t, op, f)
    PROVE  Sent(n, t, op) /\ n.file = f
<1>1. PICK r : r = Request(t, op)
  OBVIOUS
<1>2. Sent(r, t, op)
  BY <1>1, RequestFacts DEF FileReqs
<1>3. n = [r EXCEPT !.file = f]
  BY <1>1 DEF About
<1>4. r \in Requests
  BY <1>2 DEF Sent
<1>5. n \in Requests /\ n.file = f
  BY <1>3, <1>4 DEF Requests
<1>6. /\ n.tab = r.tab /\ n.op = r.op /\ n.as = r.as /\ n.sort = r.sort
      /\ n.live = r.live /\ n.stage = r.stage /\ n.code = r.code /\ n.id = r.id
  BY <1>3, <1>4 DEF Requests
<1> QED BY <1>2, <1>5, <1>6 DEF Sent

-----------------------------------------------------------------------------
(* What holds however many tabs and users act at once.  A form waits for one
   answer; a request of the table belongs to a user and, while its page is there,
   to the one that page works with; a token sent to a user was made for him. *)
Sound(m) ==
    /\ m.tab \in env.tabs
    /\ m.op \in FormReqs =>
          page[m.tab] = "login" /\ loading[m.tab] /\ m.as.user \in Users /\ m.pwd \in Passwords
    /\ m.op \notin FormReqs => m.as.user \in Users /\ m.as.token \in Tokens
    /\ m.op \in FileReqs => m.file \in Files
    /\ m.op \notin FormReqs /\ m.live => page[m.tab] = "files" /\ m.as = who[m.tab]
    /\ m.op = "login" /\ Answered(m) /\ m.code \notin {1, NoCode} =>
          m.token \in Tokens /\ issued[m.token] = m.as.user
OneForm == \A m, n \in net : m.op \in FormReqs /\ n.op \in FormReqs /\ m.tab = n.tab => m = n
SoundTab(t) ==
    /\ page[t] # "closed" => t \in env.tabs
    /\ page[t] = "files" => who[t].user \in Users /\ who[t].token \in Tokens
    /\ page[t] = "log in" =>
          who[t].user \in Users /\ who[t].token \in Tokens /\ issued[who[t].token] = who[t].user
    /\ page[t] = "log out" => who[t] = Empty
    /\ \A f \in BigFiles : pick[t][f] # "checking"

NetSound == IsFiniteSet(net) /\ OneForm /\ \A m \in net : Sound(m)
ClientInv == TypeOK /\ NetSound /\ \A t \in Tabs : SoundTab(t)

LEMMA ClientInit == Init => ClientInv
<1> SUFFICES ASSUME Init PROVE ClientInv
  OBVIOUS
<1>1. env \in Scenario /\ env.owned \subseteq Users \X Files /\ env.rows \subseteq [user : Users, pwd : Passwords]
  BY ClientAssumption DEF Init, Scenario
<1>2. TypeOK
  BY <1>1 DEF Init, TypeOK, AccountsInit, AccountsTypeOK, Empty, Identity, NoPicks, NoToken
<1>3. NetSound
  BY FS_EmptySet DEF Init, NetSound, OneForm
<1>4. \A t \in Tabs : SoundTab(t)
  BY ClientAssumption DEF Init, SoundTab, NoPicks
<1> QED BY <1>2, <1>3, <1>4 DEF ClientInv

-----------------------------------------------------------------------------
(* How the set of requests changes *)

(* Tokens keep the user they were made for. *)
TokensStay == \A k \in Tokens : issued[k] # Nobody => issued'[k] = issued[k]
TabStays(t) == page'[t] = page[t] /\ loading'[t] = loading[t] /\ who'[t] = who[t]

LEMMA StaysSound ==
    ASSUME NEW m, Sound(m), TabStays(m.tab), TokensStay, UNCHANGED env
    PROVE  Sound(m)'
BY AccountsAssumption DEF Sound, TabStays, TokensStay, Answered

LEMMA NetStays ==
    ASSUME NetSound, UNCHANGED <<net, env>>, TokensStay,
           \A m \in net : TabStays(m.tab)
    PROVE  NetSound'
BY StaysSound DEF NetSound, OneForm

LEMMA NetForgets ==
    ASSUME NetSound, NEW m, Forget(m), \A x \in net \ {m} : Sound(x)'
    PROVE  NetSound'
<1>1. IsFiniteSet(net \ {m})
  BY FS_RemoveElement DEF NetSound
<1> QED BY <1>1 DEF NetSound, OneForm, Forget

LEMMA NetReplaces ==
    ASSUME NetSound, NEW m \in net, NEW n, Become(m, n), Sound(n)',
           \A x \in net \ {m} : Sound(x)',
           n.op \in FormReqs => m.op \in FormReqs /\ n.tab = m.tab
    PROVE  NetSound'
<1>1. IsFiniteSet((net \ {m}) \cup {n})
  BY FS_RemoveElement, FS_AddElement DEF NetSound
<1>2. OneForm'
  BY DEF NetSound, OneForm, Become
<1> QED BY <1>1, <1>2 DEF NetSound, Become

LEMMA NetGrows ==
    ASSUME NetSound, NEW n, net' = net \cup {n}, Sound(n)', \A x \in net : Sound(x)',
           n.op \in FormReqs => ~ \E x \in net : x.op \in FormReqs /\ x.tab = n.tab
    PROVE  NetSound'
<1>1. IsFiniteSet(net \cup {n})
  BY FS_AddElement DEF NetSound
<1>2. OneForm'
  BY DEF NetSound, OneForm
<1> QED BY <1>1, <1>2 DEF NetSound

(* Messages without a reader: what was sent stays sent. *)
Muted(m, t) == [m EXCEPT !.live = @ /\ m.tab # t]
LEMMA MutedFacts ==
    ASSUME NEW m \in Requests, NEW t
    PROVE  /\ Muted(m, t) \in Requests
           /\ Muted(m, t).live = (m.live /\ m.tab # t)
           /\ Muted(m, t).tab = m.tab /\ Muted(m, t).op = m.op /\ Muted(m, t).as = m.as
           /\ Muted(m, t).id = m.id /\ Muted(m, t).pwd = m.pwd /\ Muted(m, t).file = m.file
           /\ Muted(m, t).stage = m.stage /\ Muted(m, t).code = m.code /\ Muted(m, t).token = m.token
BY DEF Requests, Muted

(* A request that changed at most in whether its page still listens. *)
LEMMA SoundMoves ==
    ASSUME NEW m, NEW n, Sound(m), TokensStay, UNCHANGED env,
           n.tab = m.tab, n.op = m.op, n.as = m.as, n.pwd = m.pwd, n.file = m.file,
           n.stage = m.stage, n.code = m.code, n.token = m.token,
           m.op \in FormReqs => page'[m.tab] = page[m.tab] /\ loading'[m.tab] = loading[m.tab],
           n.live => m.live /\ page'[m.tab] = page[m.tab] /\ who'[m.tab] = who[m.tab]
    PROVE  Sound(n)'
<1>1. ASSUME n.op = "login", Answered(n), n.code \notin {1, NoCode}
      PROVE  n.token \in Tokens /\ issued'[n.token] = n.as.user
  <2>1. m.token \in Tokens /\ issued[m.token] = m.as.user /\ m.as.user \in Users
    BY <1>1 DEF Sound, Answered, FormReqs
  <2> QED BY <2>1, AccountsAssumption DEF TokensStay
<1>2. ASSUME n.op \in FormReqs
      PROVE  page'[n.tab] = "login" /\ loading'[n.tab] /\ n.as.user \in Users /\ n.pwd \in Passwords
  BY <1>2 DEF Sound
<1>3. ASSUME n.op \notin FormReqs
      PROVE  /\ n.as.user \in Users /\ n.as.token \in Tokens
             /\ n.live => page'[n.tab] = "files" /\ n.as = who'[n.tab]
  BY <1>3 DEF Sound
<1>4. n.tab \in env'.tabs /\ (n.op \in FileReqs => n.file \in Files)
  BY DEF Sound
<1>5. Answered(n)' = Answered(n)
  BY DEF Answered
<1> QED BY <1>1, <1>2, <1>3, <1>4, <1>5 DEF Sound

LEMMA NetUnmounts ==
    ASSUME ClientInv, NEW t \in Tabs, page[t] = "files", Unmount(t), UNCHANGED <<env, issued, loading>>,
           \A u \in Tabs \ {t} : page'[u] = page[u]
    PROVE  NetSound' /\ net' \subseteq Requests
<1>1. net' = {Muted(m, t) : m \in net}
  BY DEF Unmount, Muted
<1>2. IsFiniteSet(net')
  <2> DEFINE g == [m \in net |-> Muted(m, t)]
  <2>1. g \in Surjection(net, net')
    BY <1>1 DEF Surjection
  <2> QED BY <2>1, FS_Surjection DEF ClientInv, NetSound
<1>3. \A m \in net : m \in Requests /\ m.tab \in Tabs /\ Sound(m)
  BY DEF ClientInv, TypeOK, NetSound, Requests
<1>4. OneForm'
  <2> SUFFICES ASSUME NEW m \in net', NEW n \in net', m.op \in FormReqs, n.op \in FormReqs, m.tab = n.tab
               PROVE  m = n
    BY DEF OneForm
  <2>1. PICK x \in net, y \in net : m = Muted(x, t) /\ n = Muted(y, t)
    BY <1>1
  <2>2. x = y
    BY <1>3, <2>1, MutedFacts DEF ClientInv, NetSound, OneForm
  <2> QED BY <2>1, <2>2
<1>5. ASSUME NEW n \in net' PROVE Sound(n)' /\ n \in Requests
  <2>1. PICK m \in net : n = Muted(m, t)
    BY <1>1
  <2>2. n \in Requests /\ n.tab = m.tab /\ n.op = m.op /\ n.as = m.as /\ n.pwd = m.pwd /\ n.file = m.file
        /\ n.stage = m.stage /\ n.code = m.code /\ n.token = m.token /\ n.live = (m.live /\ m.tab # t)
    BY <1>3, <2>1, MutedFacts
  <2>3. m.tab # t => page'[m.tab] = page[m.tab] /\ who'[m.tab] = who[m.tab]
    BY <1>3, <2>2 DEF Unmount, ClientInv, TypeOK
  <2>4. m.op \in FormReqs => m.tab # t
    BY <1>3 DEF Sound
  <2>5. TokensStay
    BY DEF TokensStay
  <2>6. Sound(n)'
    BY <1>3, <2>2, <2>3, <2>4, <2>5, SoundMoves
  <2> QED BY <2>2, <2>6
<1> QED BY <1>2, <1>4, <1>5 DEF NetSound

LEMMA Parts == ClientInv => TypeOK /\ NetSound /\ IsFiniteSet(net)
BY DEF ClientInv, NetSound

LEMMA NetTypes ==
    ASSUME ClientInv
    PROVE  \A m \in net : m \in Requests /\ m.tab \in Tabs /\ Sound(m)
BY DEF ClientInv, TypeOK, NetSound, Requests

(* A tab that shows neither form nor table has no request that matters to it. *)
LEMMA RestlessTab ==
    ASSUME ClientInv, NEW t \in Tabs, page[t] \notin {"login", "files"}, TokensStay, UNCHANGED env,
           \A u \in Tabs \ {t} : TabStays(u)
    PROVE  \A m \in net : Sound(m)'
<1> SUFFICES ASSUME NEW m \in net PROVE Sound(m)'
  OBVIOUS
<1>1. CASE m.tab # t
  BY <1>1, NetTypes, StaysSound
<1>2. CASE m.tab = t
  <2>1. Sound(m) /\ m.op \notin FormReqs /\ ~m.live
    BY <1>2, NetTypes DEF Sound
  <2>2. m.op # "login"
    BY <2>1 DEF FormReqs
  <2> QED BY <2>1, <2>2 DEF Sound
<1> QED BY <1>1, <1>2

(* The other tabs do not notice. *)
LEMMA OtherTabs ==
    ASSUME ClientInv, NEW t \in Tabs, TokensStay, UNCHANGED env,
           \A u \in Tabs \ {t} : TabStays(u) /\ (pick'[u] = pick[u]),
           SoundTab(t)'
    PROVE  \A u \in Tabs : SoundTab(u)'
<1> SUFFICES ASSUME NEW u \in Tabs \ {t} PROVE SoundTab(u)'
  OBVIOUS
<1>1. SoundTab(u) /\ TabStays(u) /\ pick'[u] = pick[u]
  BY DEF ClientInv
<1>2. page'[u] = page[u] /\ who'[u] = who[u] /\ env' = env
  BY <1>1 DEF TabStays
<1>3. page[u] = "log in" => issued'[who[u].token] = issued[who[u].token]
  <2>1. page[u] = "log in" => who[u].token \in Tokens /\ issued[who[u].token] # Nobody
    BY <1>1, AccountsAssumption DEF SoundTab
  <2> QED BY <2>1 DEF TokensStay
<1>4. \A f \in BigFiles : pick'[u][f] # "checking"
  BY <1>1 DEF SoundTab
<1> QED BY <1>1, <1>2, <1>3, <1>4 DEF SoundTab, Empty, NoToken

-----------------------------------------------------------------------------
(* What users do *)

LEMMA OpenTabStep == ASSUME ClientInv, NEW t \in Tabs, OpenTab(t) PROVE ClientInv'
<1> USE DEF OpenTab, Touch, Show, server, files
<1>1. TypeOK'
  BY DEF ClientInv, TypeOK, AccountsTypeOK, Moving
<1>2. TokensStay /\ \A u \in Tabs \ {t} : TabStays(u) /\ pick'[u] = pick[u]
  BY DEF ClientInv, TypeOK, TokensStay, TabStays
<1>3. NetSound'
  BY <1>2, RestlessTab DEF NetSound, OneForm, ClientInv
<1>4. SoundTab(t)'
  BY DEF ClientInv, SoundTab, TypeOK
<1> QED BY <1>1, <1>2, <1>3, <1>4, OtherTabs DEF ClientInv

LEMMA SubmitStep ==
    ASSUME ClientInv, NEW t \in Tabs, NEW op \in {"register", "login"}, Submit(t, op)
    PROVE  ClientInv'
<1> USE DEF Submit, Touch, server, files
<1>1. PICK u \in env.names, p \in Passwords :
          net' = net \cup {[Request(t, op) EXCEPT !.as.user = u, !.pwd = p]}
  OBVIOUS
<1>2. PICK n : n = [Request(t, op) EXCEPT !.as.user = u, !.pwd = p]
  OBVIOUS
<1>3. u \in Users
  BY ClientAssumption DEF ClientInv, TypeOK, Scenario
<1>4. n \in Requests /\ n.tab = t /\ n.op = op /\ n.as.user = u /\ n.pwd = p /\ n.stage = "sent"
  <2> DEFINE r == Request(t, op)
  <2>1. Sent(r, t, op)
    BY RequestFacts, Parts
  <2>2. n = [r EXCEPT !.as.user = u, !.pwd = p] /\ r \in Requests
    BY <1>2, <2>1 DEF Sent
  <2> HIDE DEF r
  <2>3. r.as \in Identity /\ r.tab = t /\ r.op = op /\ r.stage = "sent"
    BY <2>1, <2>2 DEF Requests, Sent
  <2>4. [r.as EXCEPT !.user = u] \in Identity /\ [r.as EXCEPT !.user = u].user = u
    BY <1>3, <2>3 DEF Identity
  <2>5. n = [r EXCEPT !.as = [r.as EXCEPT !.user = u], !.pwd = p]
    BY <2>2 DEF Requests
  <2> QED BY <2>2, <2>3, <2>4, <2>5, ZenonT(40) DEF Requests
<1>5. TypeOK'
  BY <1>1, <1>2, <1>4 DEF ClientInv, TypeOK, AccountsTypeOK
<1>6. TokensStay /\ \A v \in Tabs \ {t} : TabStays(v) /\ pick'[v] = pick[v]
  BY DEF ClientInv, TypeOK, TokensStay, TabStays
<1>7. loading'[t] /\ page'[t] = "login"
  BY DEF ClientInv, TypeOK
<1>8. \A m \in net : Sound(m)' /\ ~(m.op \in FormReqs /\ m.tab = t)
  <2> SUFFICES ASSUME NEW m \in net PROVE Sound(m)' /\ ~(m.op \in FormReqs /\ m.tab = t)
    OBVIOUS
  <2>1. CASE m.tab # t
    BY <1>6, <2>1, NetTypes, StaysSound
  <2>2. CASE m.tab = t
    BY <1>7, <2>2, NetTypes DEF Sound, Answered
  <2> QED BY <2>1, <2>2
<1>9. Sound(n)'
  BY <1>3, <1>4, <1>7 DEF Sound, Answered, FormReqs, FileReqs
<1>10. NetSound'
  BY <1>1, <1>2, <1>4, <1>8, <1>9, NetGrows DEF ClientInv
<1>11. SoundTab(t)'
  BY <1>7 DEF ClientInv, SoundTab
<1> QED BY <1>5, <1>6, <1>10, <1>11, OtherTabs DEF ClientInv

LEMMA UnmountStep ==
    ASSUME ClientInv, NEW t \in Tabs, page[t] = "files", Unmount(t), UNCHANGED <<env, server, told, chunks, loading>>,
           NEW p \in {"log out", "route"}, page' = [page EXCEPT ![t] = p], cookie' \in Identity
    PROVE  ClientInv'
<1> USE DEF server
<1>1. NetSound' /\ net' \subseteq Requests
  BY NetUnmounts DEF ClientInv, TypeOK
<1>2. TypeOK'
  BY <1>1 DEF ClientInv, TypeOK, AccountsTypeOK, Moving, Unmount, NoPicks, Empty, Identity
<1>3. TokensStay /\ \A u \in Tabs \ {t} : TabStays(u) /\ pick'[u] = pick[u]
  BY DEF ClientInv, TypeOK, TokensStay, TabStays, Unmount
<1>4. SoundTab(t)'
  BY ClientAssumption DEF ClientInv, TypeOK, SoundTab, Unmount, NoPicks
<1> QED BY <1>1, <1>2, <1>3, <1>4, OtherTabs DEF ClientInv

LEMMA LogOutStep == ASSUME ClientInv, NEW t \in Tabs, LogOut(t) PROVE ClientInv'
<1>1. cookie' \in Identity
  BY DEF LogOut, ClearsName, ClientInv, TypeOK, Identity
<1> QED BY <1>1, UnmountStep DEF LogOut, Touch, ClearsName, Show

LEMMA LeaveStep == ASSUME ClientInv, NEW t \in Tabs, Leave(t) PROVE ClientInv'
BY UnmountStep DEF Leave, Touch, Show, ClientInv, TypeOK

(* What the user asks for in the table: requests of the user the page works with. *)
PickMoves(t) ==
    \/ UNCHANGED pick
    \/ \E f \in Files, p \in {"refused", "checking"} :
          (f \in BigFiles => p = "refused") /\ pick' = [pick EXCEPT ![t][f] = p]
LEMMA TableRequests ==
    ASSUME ClientInv, NEW t \in Tabs, page[t] = "files",
           UNCHANGED <<env, server, told, page, chunks, loading, who, cookie, table>>,
           sort' \in [Tabs -> {"normal", "pv"}], PickMoves(t),
           NEW N \in SUBSET Requests, IsFiniteSet(N), net' = net \cup N,
           \A n \in N : /\ n.tab = t /\ n.as = who[t] /\ n.op \notin FormReqs
                        /\ n.op \in FileReqs => n.file \in Files
    PROVE  ClientInv'
<1> USE DEF server
<1>1. /\ pick' \in [Tabs -> [Files -> {"none", "checking", "refused", "uploading", "done", "failed"}]]
      /\ \A u \in Tabs, f \in BigFiles : pick'[u][f] # "checking"
  <2>1. /\ pick \in [Tabs -> [Files -> {"none", "checking", "refused", "uploading", "done", "failed"}]]
        /\ \A u \in Tabs, f \in BigFiles : pick[u][f] # "checking"
    BY DEF ClientInv, TypeOK, SoundTab
  <2> QED BY <2>1, ClientAssumption DEF PickMoves
<1>2. TypeOK'
  BY <1>1 DEF ClientInv, TypeOK, AccountsTypeOK
<1>3. TokensStay /\ \A u \in Tabs : TabStays(u)
  BY DEF TokensStay, TabStays
<1>4. \A m \in net : Sound(m)'
  BY <1>3, NetTypes, StaysSound
<1>5. \A n \in N : Sound(n)'
  BY DEF Sound, ClientInv, SoundTab, FormReqs
<1>6. NetSound'
  <2>1. IsFiniteSet(net')
    BY FS_Union DEF ClientInv, NetSound
  <2>2. OneForm'
    BY DEF ClientInv, NetSound, OneForm
  <2> QED BY <1>4, <1>5, <2>1, <2>2 DEF NetSound
<1>7. \A u \in Tabs : SoundTab(u)'
  BY <1>1 DEF ClientInv, SoundTab, Empty, NoToken
<1> QED BY <1>2, <1>6, <1>7 DEF ClientInv

LEMMA RefreshStep == ASSUME ClientInv, NEW t \in Tabs, Refresh(t) PROVE ClientInv'
<1>1. PICK n : n = Request(t, "refresh")
  OBVIOUS
<1>2. Sent(n, t, "refresh")
  BY <1>1, RequestFacts, Parts
<1>3. IsFiniteSet({n}) /\ net' = net \cup {n}
  BY <1>1, FS_Singleton DEF Refresh
<1>4. PickMoves(t) /\ page[t] = "files" /\ sort' \in [Tabs -> {"normal", "pv"}]
  BY DEF Refresh, OnFiles, PickMoves, ClientInv, TypeOK
<1>5. n.op \notin FormReqs /\ n.op \notin FileReqs /\ {n} \in SUBSET Requests /\ n.tab = t /\ n.as = who[t]
  BY <1>2 DEF FormReqs, FileReqs, Sent
<1> QED BY <1>3, <1>4, <1>5, TableRequests DEF Refresh, OnFiles, Touch

LEMMA ChooseSortStep == ASSUME ClientInv, NEW t \in Tabs, ChooseSort(t) PROVE ClientInv'
<1>1. IsFiniteSet({}) /\ net' = net \cup {} /\ sort' \in [Tabs -> {"normal", "pv"}]
  BY FS_EmptySet DEF ChooseSort, ClientInv, TypeOK
<1>2. PickMoves(t)
  BY DEF ChooseSort, PickMoves
<1> QED BY <1>1, <1>2, TableRequests DEF ChooseSort, OnFiles, Touch

LEMMA DeleteStep == ASSUME ClientInv, NEW t \in Tabs, Delete(t) PROVE ClientInv'
<1>1. PICK f \in table[t] : net' = net \cup {About(t, "delete", f)}
  BY DEF Delete
<1>2. PICK n : n = About(t, "delete", f)
  OBVIOUS
<1>3. f \in Files
  BY DEF ClientInv, TypeOK
<1>4. Sent(n, t, "delete") /\ n.file \in Files
  <2>1. TypeOK /\ IsFiniteSet(net) /\ "delete" \in FileReqs
    BY Parts DEF FileReqs
  <2>2. Sent(n, t, "delete") /\ n.file = f
    BY <1>2, <1>3, <2>1, AboutFacts
  <2> QED BY <1>3, <2>2
<1>5. IsFiniteSet({n}) /\ net' = net \cup {n}
  BY <1>1, <1>2, FS_Singleton
<1>6. PickMoves(t) /\ page[t] = "files" /\ sort' \in [Tabs -> {"normal", "pv"}]
  BY DEF Delete, OnFiles, PickMoves, ClientInv, TypeOK
<1> QED BY <1>4, <1>5, <1>6, TableRequests DEF Delete, OnFiles, Touch, FormReqs, Sent

LEMMA DeleteAllStep == ASSUME ClientInv, NEW t \in Tabs, DeleteAll(t) PROVE ClientInv'
<1>1. PICK N : N = {About(t, "delete all", f) : f \in table[t]}
  OBVIOUS
<1>2. table[t] \subseteq Files /\ IsFiniteSet(table[t])
  <2>1. table[t] \subseteq Files
    BY DEF ClientInv, TypeOK
  <2> QED BY <2>1, ClientAssumption, FS_Subset
<1>3. \A n \in N : Sent(n, t, "delete all") /\ n.file \in Files
  <2> SUFFICES ASSUME NEW n \in N PROVE Sent(n, t, "delete all") /\ n.file \in Files
    OBVIOUS
  <2>1. PICK f \in Files : n = About(t, "delete all", f)
    BY <1>1, <1>2
  <2> QED BY <2>1, AboutFacts, Parts DEF FileReqs
<1>4. IsFiniteSet(N)
  <2> DEFINE g == [f \in table[t] |-> About(t, "delete all", f)]
  <2>1. g \in Surjection(table[t], N)
    BY <1>1 DEF Surjection
  <2> QED BY <1>2, <2>1, FS_Surjection
<1>5. net' = net \cup N /\ N \in SUBSET Requests
  BY <1>1, <1>3 DEF DeleteAll, Sent
<1>6. PickMoves(t) /\ page[t] = "files" /\ sort' \in [Tabs -> {"normal", "pv"}]
  BY DEF DeleteAll, OnFiles, PickMoves, ClientInv, TypeOK
<1>7. \A n \in N : n.tab = t /\ n.as = who[t] /\ n.op \notin FormReqs /\ n.file \in Files
  BY <1>3 DEF FormReqs, Sent
<1> QED BY <1>4, <1>5, <1>6, <1>7, TableRequests DEF DeleteAll, OnFiles, Touch

LEMMA PickFileStep == ASSUME ClientInv, NEW t \in Tabs, PickFile(t) PROVE ClientInv'
<1>1. PICK f \in Files :
          /\ pick' = [pick EXCEPT ![t][f] = IF f \in BigFiles THEN "refused" ELSE "checking"]
          /\ net' = net \cup {About(t, "md5", f)} \/ UNCHANGED net
  BY DEF PickFile
<1>2. PickMoves(t) /\ page[t] = "files" /\ sort' \in [Tabs -> {"normal", "pv"}]
  BY <1>1 DEF PickFile, OnFiles, PickMoves, ClientInv, TypeOK
<1>3. PICK n : n = About(t, "md5", f)
  OBVIOUS
<1>4. Sent(n, t, "md5") /\ n.file \in Files
  BY <1>3, AboutFacts, Parts DEF FileReqs
<1>5. PICK N \in {{}, {n}} : net' = net \cup N
  BY <1>1, <1>3
<1>6. IsFiniteSet(N) /\ N \in SUBSET Requests /\ \A x \in N : x = n
  BY <1>4, <1>5, FS_EmptySet, FS_Singleton DEF Sent
<1> QED BY <1>2, <1>4, <1>5, <1>6, TableRequests DEF PickFile, OnFiles, Touch, FormReqs, Sent

-----------------------------------------------------------------------------
(* What tabs do by themselves *)

LEMMA ScriptRunsStep == ASSUME ClientInv, NEW t \in Tabs, ScriptRuns(t) PROVE ClientInv'
<1> USE DEF ScriptRuns, Show, server, files
<1>1. TypeOK'
  <2>1. PICK c \in {"vendor", "main"} : chunks' = [chunks EXCEPT ![t] = @ \cup {c}]
    BY DEF Deferred
  <2>2. page' = [page EXCEPT ![t] = "route"] \/ page' = page
    OBVIOUS
  <2> QED BY <2>1, <2>2 DEF ClientInv, TypeOK, AccountsTypeOK, Moving
<1>2. TokensStay /\ \A u \in Tabs \ {t} : TabStays(u) /\ pick'[u] = pick[u]
  BY DEF ClientInv, TypeOK, TokensStay, TabStays
<1>3. NetSound'
  BY <1>2, RestlessTab DEF NetSound, OneForm, ClientInv
<1>4. page'[t] \in {"boot", "route"} /\ pick'[t] = pick[t] /\ t \in env.tabs
  BY DEF ClientInv, TypeOK, SoundTab
<1>5. SoundTab(t)'
  BY <1>4 DEF ClientInv, SoundTab
<1> QED BY <1>1, <1>2, <1>3, <1>5, OtherTabs DEF ClientInv

LEMMA RouteStep == ASSUME ClientInv, NEW t \in Tabs, Route(t) PROVE ClientInv'
<1> USE DEF Route, Show, server, files
<1>1. TokensStay /\ \A u \in Tabs \ {t} : TabStays(u) /\ pick'[u] = pick[u]
  BY DEF ClientInv, TypeOK, TokensStay, TabStays
<1>2. \A m \in net : Sound(m)'
  BY <1>1, RestlessTab
<1>3. t \in env.tabs /\ pick'[t] = pick[t]
  BY DEF ClientInv, SoundTab
<1>4. CASE cookie.user # Nobody /\ cookie.token # NoToken
  <2>1. cookie.user \in Users /\ cookie.token \in Tokens /\ cookie \in Identity
    BY <1>4 DEF ClientInv, TypeOK, Identity
  <2>2. PICK n : n = [Request(t, "mount") EXCEPT !.as = cookie]
    OBVIOUS
  <2>3. /\ n \in Requests /\ n.tab = t /\ n.op = "mount" /\ n.as = cookie /\ n.live = TRUE
        /\ n.stage = "sent" /\ n.id = FreshId
    BY <2>1, <2>2, FreshIdIsFresh, Parts DEF Request, Requests, TypeOK
  <2>4. net' = net \cup {n} /\ page' = [page EXCEPT ![t] = "files"] /\ who' = [who EXCEPT ![t] = cookie]
    BY <1>4, <2>2
  <2>5. TypeOK'
    BY <2>1, <2>3, <2>4 DEF ClientInv, TypeOK, AccountsTypeOK
  <2>6. page'[t] = "files" /\ who'[t] = cookie
    BY <2>4 DEF ClientInv, TypeOK
  <2>7. Sound(n)'
    BY <1>3, <2>1, <2>3, <2>6 DEF Sound, FormReqs, FileReqs
  <2>8. NetSound'
    BY <1>2, <2>3, <2>4, <2>7, NetGrows DEF ClientInv, FormReqs
  <2>9. SoundTab(t)'
    BY <1>3, <2>1, <2>6 DEF ClientInv, SoundTab
  <2> QED BY <1>1, <2>5, <2>8, <2>9, OtherTabs DEF ClientInv
<1>5. CASE ~(cookie.user # Nobody /\ cookie.token # NoToken)
  <2>1. page' = [page EXCEPT ![t] = "enter"] /\ UNCHANGED <<who, net>>
    BY <1>5
  <2>2. TypeOK'
    BY <2>1 DEF ClientInv, TypeOK, AccountsTypeOK, Moving
  <2>3. NetSound'
    BY <1>2, <2>1 DEF NetSound, OneForm, ClientInv
  <2>4. page'[t] = "enter"
    BY <2>1 DEF ClientInv, TypeOK
  <2>5. SoundTab(t)'
    BY <1>3, <2>4 DEF ClientInv, SoundTab
  <2> QED BY <1>1, <2>2, <2>3, <2>5, OtherTabs DEF ClientInv
<1> QED BY <1>4, <1>5

LEMMA EnterStep == ASSUME ClientInv, NEW t \in Tabs, Enter(t) PROVE ClientInv'
<1> USE DEF Enter, Show, server, files
<1>1. TypeOK'
  BY DEF ClientInv, TypeOK, AccountsTypeOK, Moving
<1>2. TokensStay /\ \A u \in Tabs \ {t} : TabStays(u) /\ pick'[u] = pick[u]
  BY DEF ClientInv, TypeOK, TokensStay, TabStays
<1>3. NetSound'
  BY <1>2, RestlessTab DEF NetSound, OneForm, ClientInv
<1>4. page'[t] \in {"login", "route"} /\ pick'[t] = pick[t] /\ t \in env.tabs
  BY DEF ClientInv, TypeOK, SoundTab
<1>5. SoundTab(t)'
  BY <1>4 DEF ClientInv, SoundTab
<1> QED BY <1>1, <1>2, <1>3, <1>5, OtherTabs DEF ClientInv

LEMMA WriteTokenStep == ASSUME ClientInv, NEW t \in Tabs, WriteToken(t) PROVE ClientInv'
<1> USE DEF WriteToken, Show, server, files
<1>1. TypeOK'
  BY DEF ClientInv, TypeOK, AccountsTypeOK, Moving, Identity, Empty
<1>2. TokensStay /\ \A u \in Tabs \ {t} : TabStays(u) /\ pick'[u] = pick[u]
  BY DEF ClientInv, TypeOK, TokensStay, TabStays
<1>3. NetSound'
  BY <1>2, RestlessTab DEF NetSound, OneForm, ClientInv
<1>4. page'[t] \in {"enter", "route"} /\ pick'[t] = pick[t] /\ t \in env.tabs
  BY DEF ClientInv, TypeOK, SoundTab
<1>5. SoundTab(t)'
  BY <1>4 DEF ClientInv, SoundTab
<1> QED BY <1>1, <1>2, <1>3, <1>5, OtherTabs DEF ClientInv

-----------------------------------------------------------------------------
(* What the server does *)

LEMMA ServerAnswers ==
    ASSUME ClientInv, NEW m \in net, NEW n \in Requests, Become(m, n), SameSender(m, n),
           n.op = m.op, n.file = m.file, n.pwd = m.pwd,
           n.op = "login" /\ Answered(n) /\ n.code \notin {1, NoCode} =>
               n.token \in Tokens /\ issued'[n.token] = n.as.user,
           UNCHANGED <<env, form, files, told>>, TokensStay,
           AccountsTypeOK', user_file_list' \subseteq Users \X Files
    PROVE  ClientInv'
<1> USE DEF form, files
<1>1. TypeOK'
  BY DEF ClientInv, TypeOK, Become
<1>2. \A u \in Tabs : TabStays(u)
  BY DEF TabStays
<1>3. \A x \in net : Sound(x)'
  BY <1>2, NetTypes, StaysSound
<1>4. Sound(n)'
  <2>1. Sound(m) /\ m.tab \in Tabs /\ n.tab = m.tab /\ n.as = m.as /\ n.live = m.live
    BY NetTypes DEF SameSender
  <2> QED BY <2>1 DEF Sound
<1>5. NetSound'
  BY <1>3, <1>4, NetReplaces DEF ClientInv, SameSender
<1>6. \A u \in Tabs : SoundTab(u)'
  <2> SUFFICES ASSUME NEW u \in Tabs PROVE SoundTab(u)'
    OBVIOUS
  <2>1. SoundTab(u)
    BY DEF ClientInv
  <2>2. page[u] = "log in" => issued'[who[u].token] = issued[who[u].token]
    <3>1. page[u] = "log in" => who[u].token \in Tokens /\ issued[who[u].token] # Nobody
      BY <2>1, AccountsAssumption DEF SoundTab
    <3> QED BY <3>1 DEF TokensStay
  <2> QED BY <2>1, <2>2 DEF SoundTab, Empty, NoToken
<1> QED BY <1>1, <1>5, <1>6 DEF ClientInv

LEMMA AccountsStay ==
    ASSUME ClientInv, UNCHANGED accounts
    PROVE  TokensStay /\ AccountsTypeOK'
BY DEF accounts, TokensStay, AccountsTypeOK, ClientInv, TypeOK

LEMMA ServeReplies ==
    ASSUME ClientInv, NEW m \in net, m.op # "login", NEW c \in {0, 1, 2, 5, NoCode}, Become(m, Reply(m, c)),
           UNCHANGED <<env, form, files, told>>, TokensStay,
           AccountsTypeOK', user_file_list' \subseteq Users \X Files
    PROVE  ClientInv'
<1>1. PICK n : n = Reply(m, c)
  OBVIOUS
<1>2. Replied(m, n, c)
  BY <1>1, NetTypes, ReplyFacts
<1>3. Become(m, n)
  BY <1>1
<1> QED BY <1>2, <1>3, ServerAnswers DEF Replied

LEMMA ServeRegisterStep ==
    ASSUME ClientInv, NEW m \in net, ServeRegister(m), UNCHANGED <<env, form, files, told>>
    PROVE  ClientInv'
<1>1. user_file_list' \subseteq Users \X Files /\ m.op = "register" /\ m \in Requests /\ Sound(m)
  BY NetTypes DEF ServeRegister, ClientInv, TypeOK
<1>2. CASE UNCHANGED accounts /\ Become(m, [m EXCEPT !.stage = "looked"])
  <2>1. PICK n : n = [m EXCEPT !.stage = "looked"]
    OBVIOUS
  <2>2. /\ n \in Requests /\ SameSender(m, n) /\ n.op = m.op /\ n.file = m.file /\ n.pwd = m.pwd
    BY <1>1, <2>1 DEF Requests, SameSender
  <2>3. Become(m, n)
    BY <1>2, <2>1
  <2> QED BY <1>1, <1>2, <2>2, <2>3, AccountsStay, ServerAnswers
<1>3. ASSUME NEW c \in {0, 1, 2}, UNCHANGED accounts, Become(m, Reply(m, c)) PROVE ClientInv'
  BY <1>1, <1>3, AccountsStay, ServeReplies
<1>4. CASE InsertUser(m.as.user, m.pwd) /\ Become(m, Reply(m, 0))
  <2>1. m.as.user \in Users /\ m.pwd \in Passwords
    BY <1>1 DEF Sound, FormReqs
  <2>2. TokensStay /\ AccountsTypeOK'
    BY <1>4, <2>1 DEF InsertUser, TokensStay, AccountsTypeOK, ClientInv, TypeOK
  <2> QED BY <1>1, <1>4, <2>2, ServeReplies
<1> QED BY <1>2, <1>3, <1>4 DEF ServeRegister

LEMMA ServeLoginStep ==
    ASSUME ClientInv, NEW m \in net, ServeLogin(m), UNCHANGED <<env, form, files, told>>
    PROVE  ClientInv'
<1>1. user_file_list' \subseteq Users \X Files /\ m.op = "login" /\ m \in Requests /\ Sound(m)
  BY NetTypes DEF ServeLogin, ClientInv, TypeOK
<1>2. ASSUME NEW k \in Tokens, NEW stored, IssueToken(m.as.user, k, stored), Become(m, [Reply(m, 0) EXCEPT !.token = k])
      PROVE  ClientInv'
  <2>1. PICK r : r = Reply(m, 0)
    OBVIOUS
  <2>2. PICK n : n = [r EXCEPT !.token = k]
    OBVIOUS
  <2>3. Replied(m, r, 0)
    BY <1>1, <2>1, ReplyFacts
  <2>4. /\ n \in Requests /\ SameSender(m, n) /\ n.op = m.op /\ n.file = m.file /\ n.pwd = m.pwd
        /\ n.token = k
    <3>1. n = WithToken(r, k)
      BY <2>2 DEF WithToken
    <3> QED BY <2>3, <3>1, ReplyWithToken DEF SameRequest
  <2>5. Become(m, n)
    BY <1>2, <2>1, <2>2
  <2>6. m.as.user \in Users /\ n.as.user = m.as.user
    BY <1>1, <2>4 DEF Sound, FormReqs, SameSender
  <2>7. TokensStay /\ AccountsTypeOK' /\ issued'[k] = m.as.user
    BY <1>2, <2>6 DEF IssueToken, FreshTokens, TokensStay, AccountsTypeOK, ClientInv, TypeOK
  <2> QED BY <1>1, <2>4, <2>5, <2>6, <2>7, ServerAnswers
<1>3. CASE Become(m, Reply(m, 1)) /\ UNCHANGED accounts
  <2>1. PICK n : n = Reply(m, 1)
    OBVIOUS
  <2>2. Replied(m, n, 1)
    BY <1>1, <2>1, ReplyFacts
  <2>3. Become(m, n)
    BY <1>3, <2>1
  <2> QED BY <1>1, <1>3, <2>2, <2>3, AccountsStay, ServerAnswers DEF Replied
<1> QED BY <1>2, <1>3 DEF ServeLogin

LEMMA ServeListStep ==
    ASSUME ClientInv, NEW m \in net, ServeList(m), UNCHANGED <<env, form, files, told>>
    PROVE  ClientInv'
<1>1. /\ user_file_list' \subseteq Users \X Files /\ m.op # "login" /\ m \in Requests
      /\ TokensStay /\ AccountsTypeOK'
  BY NetTypes, AccountsStay DEF ServeList, ClientInv, TypeOK, server, accounts
<1>2. CASE Become(m, [Reply(m, 0) EXCEPT !.list = FilesOf(m.as.user)])
  <2>1. PICK r : r = Reply(m, 0)
    OBVIOUS
  <2>2. PICK n : n = [r EXCEPT !.list = FilesOf(m.as.user)]
    OBVIOUS
  <2>3. Replied(m, r, 0)
    BY <1>1, <2>1, ReplyFacts
  <2>4. /\ n \in Requests /\ SameSender(m, n) /\ n.op = m.op /\ n.file = m.file /\ n.pwd = m.pwd
    <3>1. FilesOf(m.as.user) \in SUBSET Files
      BY DEF FilesOf
    <3>2. n = WithList(r, FilesOf(m.as.user))
      BY <2>2 DEF WithList
    <3> QED BY <2>3, <3>1, <3>2, ReplyWithList DEF SameRequest
  <2>5. Become(m, n)
    BY <1>2, <2>1, <2>2
  <2> QED BY <1>1, <2>4, <2>5, ServerAnswers
<1>3. CASE Become(m, Reply(m, 1))
  BY <1>1, <1>3, ServeReplies
<1> QED BY <1>2, <1>3 DEF ServeList

LEMMA ServeFileSteps ==
    ASSUME ClientInv, NEW m \in net, ServeMd5(m) \/ ServeUpload(m) \/ ServeDelete(m),
           UNCHANGED <<env, form, files, told>>
    PROVE  ClientInv'
<1>1. m.op \in FileReqs /\ m.op # "login" /\ m \in Requests
  BY NetTypes DEF ServeMd5, ServeUpload, ServeDelete, FileReqs
<1>2. UNCHANGED accounts
  BY DEF ServeMd5, ServeUpload, ServeDelete, server, accounts
<1>3. TokensStay /\ AccountsTypeOK'
  BY <1>2, AccountsStay
<1>4. m.as.user \in Users /\ m.file \in Files
  BY <1>1, NetTypes DEF Sound, FormReqs, FileReqs
<1>5. user_file_list' \subseteq Users \X Files
  <2>1. \/ UNCHANGED user_file_list
        \/ user_file_list' = user_file_list \cup {<<m.as.user, m.file>>}
        \/ user_file_list' = user_file_list \ {<<m.as.user, m.file>>}
    BY DEF ServeMd5, ServeUpload, ServeDelete, server
  <2>2. user_file_list \subseteq Users \X Files
    BY DEF ClientInv, TypeOK
  <2> QED BY <1>4, <2>1, <2>2
<1>6. \E c \in {0, 1, 2, 5, NoCode} : Become(m, Reply(m, c))
  BY DEF ServeMd5, ServeUpload, ServeDelete
<1> QED BY <1>1, <1>3, <1>5, <1>6, ServeReplies

LEMMA LostStep ==
    ASSUME ClientInv, NEW m \in net, Lost(m) PROVE ClientInv'
<1>1. PICK n : n = Reply(m, NoCode)
  OBVIOUS
<1>2. Replied(m, n, NoCode)
  BY <1>1, NetTypes, ReplyFacts
<1>3. Become(m, n) /\ UNCHANGED <<accounts, user_file_list>>
  BY <1>1 DEF Lost, server, accounts
<1>4. user_file_list' \subseteq Users \X Files
  BY <1>3 DEF ClientInv, TypeOK
<1> QED BY <1>2, <1>3, <1>4, AccountsStay, ServerAnswers DEF Replied, Lost

LEMMA ExpireStep == ASSUME ClientInv, Expire PROVE ClientInv'
<1> USE DEF form, files
<1>1. UNCHANGED <<issued, user_info>> /\ alive' \subseteq alive
  BY DEF Expire, ExpireToken
<1>2. TypeOK'
  BY <1>1 DEF Expire, ClientInv, TypeOK, AccountsTypeOK
<1>3. TokensStay /\ \A u \in Tabs : TabStays(u)
  BY <1>1 DEF TokensStay, TabStays, Expire
<1>4. NetSound'
  BY <1>3, NetTypes, NetStays DEF Expire, ClientInv
<1>5. \A u \in Tabs : SoundTab(u)'
  BY <1>1 DEF Expire, ClientInv, SoundTab, Empty, NoToken
<1> QED BY <1>2, <1>4, <1>5 DEF ClientInv

-----------------------------------------------------------------------------
(* Answers arrive *)

LEMMA LoggedInStep == ASSUME ClientInv, NEW m \in net, LoggedIn(m) PROVE ClientInv'
<1> USE DEF LoggedIn, Taken, Show, Released, Forget, server, files
<1>1. m \in Requests /\ m.tab \in Tabs /\ Sound(m) /\ m.op = "login" /\ page[m.tab] = "login"
  BY NetTypes DEF Sound, FormReqs
<1>2. \A x \in net \ {m} : x.tab = m.tab => x.op \notin FormReqs /\ ~x.live
  BY <1>1, NetTypes DEF ClientInv, NetSound, OneForm, Sound, FormReqs
<1>3. TokensStay /\ \A u \in Tabs \ {m.tab} : TabStays(u) /\ pick'[u] = pick[u]
  <2>1. TokensStay
    BY DEF TokensStay
  <2>2. \A u \in Tabs \ {m.tab} : TabStays(u) /\ pick'[u] = pick[u]
    <3>1. DOMAIN page = Tabs /\ DOMAIN who = Tabs /\ DOMAIN loading = Tabs
      BY DEF ClientInv, TypeOK
    <3> QED BY <1>1, <3>1 DEF TabStays
  <2> QED BY <2>1, <2>2
<1>4. \A x \in net \ {m} : Sound(x)'
  <2> SUFFICES ASSUME NEW x \in net \ {m} PROVE Sound(x)'
    OBVIOUS
  <2>1. CASE x.tab # m.tab
    BY <1>3, <2>1, NetTypes, StaysSound
  <2>2. CASE x.tab = m.tab
    BY <1>2, <2>2, NetTypes DEF Sound, FormReqs
  <2> QED BY <2>1, <2>2
<1>5. NetSound'
  BY <1>4, NetForgets DEF ClientInv
<1>6. CASE m.code \in {1, NoCode}
  <2>1. UNCHANGED <<page, who, cookie>>
    BY <1>6
  <2>2. TypeOK'
    BY <2>1 DEF ClientInv, TypeOK, AccountsTypeOK
  <2>3. SoundTab(m.tab)'
    BY <1>1, <2>1 DEF ClientInv, SoundTab
  <2> QED BY <1>1, <1>3, <1>5, <2>2, <2>3, OtherTabs DEF ClientInv
<1>7. CASE m.code \notin {1, NoCode}
  <2>1. m.as.user \in Users /\ m.token \in Tokens /\ issued[m.token] = m.as.user
    BY <1>1, <1>7 DEF Sound, FormReqs
  <2>2. PICK w : w = [user |-> m.as.user, token |-> m.token]
    OBVIOUS
  <2>3. /\ who' = [who EXCEPT ![m.tab] = w] /\ cookie' = [cookie EXCEPT !.user = m.as.user]
        /\ page' = [page EXCEPT ![m.tab] = "log in"]
    BY <1>7, <2>2
  <2>4. w \in Identity /\ cookie' \in Identity
    BY <2>1, <2>2, <2>3 DEF Identity, ClientInv, TypeOK
  <2>5. TypeOK'
    BY <2>3, <2>4 DEF ClientInv, TypeOK, AccountsTypeOK, Moving
  <2>6. page'[m.tab] = "log in" /\ who'[m.tab] = w /\ pick'[m.tab] = pick[m.tab]
    BY <1>1, <2>3 DEF ClientInv, TypeOK
  <2>7. SoundTab(m.tab)'
    <3>1. \A f \in BigFiles : pick'[m.tab][f] # "checking"
      BY <1>1, <2>6 DEF ClientInv, SoundTab
    <3>2. m.tab \in env'.tabs
      BY <1>1 DEF Sound
    <3>3. w.user \in Users /\ w.token \in Tokens /\ issued'[w.token] = w.user
      BY <2>1, <2>2
    <3> QED BY <2>6, <3>1, <3>2, <3>3 DEF SoundTab
  <2> QED BY <1>1, <1>3, <1>5, <2>5, <2>7, OtherTabs DEF ClientInv
<1> QED BY <1>6, <1>7

LEMMA RegisteredStep == ASSUME ClientInv, NEW m \in net, Registered(m) PROVE ClientInv'
<1> USE DEF Registered, Taken, Released, Forget, server, files
<1>1. m \in Requests /\ m.tab \in Tabs /\ Sound(m) /\ m.op = "register"
      /\ m.as.user \in Users /\ m.pwd \in Passwords
  BY NetTypes DEF Sound, FormReqs
<1>2. \A x \in net \ {m} : x.tab = m.tab => x.op \notin FormReqs
  BY <1>1 DEF ClientInv, NetSound, OneForm, FormReqs
<1>3. TokensStay /\ \A u \in Tabs \ {m.tab} : TabStays(u) /\ pick'[u] = pick[u]
  BY <1>1 DEF ClientInv, TypeOK, TokensStay, TabStays
<1>4. \A x \in net \ {m} : Sound(x)'
  <2> SUFFICES ASSUME NEW x \in net \ {m} PROVE Sound(x)'
    OBVIOUS
  <2>1. CASE x.tab # m.tab
    BY <1>3, <2>1, NetTypes, StaysSound
  <2>2. CASE x.tab = m.tab
    BY <1>2, <2>2, NetTypes DEF Sound, FormReqs
  <2> QED BY <2>1, <2>2
<1>5. NetSound'
  BY <1>4, NetForgets DEF ClientInv
<1>6. told' \subseteq [user : Users, pwd : Passwords]
  BY <1>1 DEF ClientInv, TypeOK
<1>7. TypeOK'
  BY <1>6 DEF ClientInv, TypeOK, AccountsTypeOK
<1>8. SoundTab(m.tab)'
  BY <1>1 DEF ClientInv, SoundTab
<1> QED BY <1>1, <1>3, <1>5, <1>7, <1>8, OtherTabs DEF ClientInv

(* An answer that concerns the table of its tab. *)
LEMMA TableAnswers ==
    ASSUME ClientInv, NEW m \in net, UNCHANGED <<env, server, page, chunks, loading, who, cookie, sort, told>>,
           table' \in [Tabs -> SUBSET Files],
           NEW p \in {"refused", "uploading", "done", "failed"}, NEW f,
           UNCHANGED pick \/ (pick' = [pick EXCEPT ![m.tab][f] = p] /\ f \in Files),
           \/ Forget(m)
           \/ /\ m.op \notin FormReqs
              /\ \E n : /\ Become(m, n) /\ n \in Requests /\ SameSender(m, n) /\ n.op \notin FormReqs
                        /\ n.op \in FileReqs => n.file \in Files
    PROVE  ClientInv'
<1> USE DEF server
<1>1. TokensStay /\ \A u \in Tabs : TabStays(u)
  BY DEF TokensStay, TabStays
<1>2. \A x \in net : Sound(x)'
  BY <1>1, NetTypes, StaysSound
<1>3. NetSound' /\ net' \subseteq Requests
  <2>1. CASE Forget(m)
    BY <1>2, <2>1, NetForgets DEF ClientInv, TypeOK, Forget
  <2>2. CASE ~Forget(m)
    <3>1. PICK n : /\ Become(m, n) /\ n \in Requests /\ SameSender(m, n) /\ n.op \notin FormReqs
                   /\ n.op \in FileReqs => n.file \in Files
      BY <2>2
    <3>2. Sound(m) /\ m.tab \in Tabs /\ m.op \notin FormReqs
      BY <2>2, NetTypes
    <3>3. Sound(n)'
      BY <1>1, <3>1, <3>2 DEF Sound, SameSender, FormReqs, TabStays
    <3> QED BY <1>2, <3>1, <3>3, NetReplaces DEF ClientInv, TypeOK, Become
  <2> QED BY <2>1, <2>2
<1>4. /\ pick' \in [Tabs -> [Files -> {"none", "checking", "refused", "uploading", "done", "failed"}]]
      /\ \A u \in Tabs, g \in BigFiles : pick'[u][g] # "checking"
  <2>1. /\ pick \in [Tabs -> [Files -> {"none", "checking", "refused", "uploading", "done", "failed"}]]
        /\ \A u \in Tabs, g \in BigFiles : pick[u][g] # "checking"
    BY DEF ClientInv, TypeOK, SoundTab
  <2>2. CASE UNCHANGED pick
    BY <2>1, <2>2
  <2>3. CASE pick' = [pick EXCEPT ![m.tab][f] = p] /\ f \in Files
    <3>1. m.tab \in Tabs
      BY NetTypes
    <3>2. pick' \in [Tabs -> [Files -> {"none", "checking", "refused", "uploading", "done", "failed"}]]
      BY <2>1, <2>3, <3>1
    <3>3. ASSUME NEW u \in Tabs, NEW g \in BigFiles PROVE pick'[u][g] # "checking"
      <4>1. g \in Files /\ pick[u] \in [Files -> {"none", "checking", "refused", "uploading", "done", "failed"}]
        BY <2>1, <3>3, ClientAssumption
      <4>2. pick'[u] = IF u = m.tab THEN [pick[u] EXCEPT ![f] = p] ELSE pick[u]
        BY <2>1, <2>3, <3>1
      <4>3. pick'[u][g] \in {pick[u][g], p}
        BY <4>1, <4>2
      <4> QED BY <2>1, <4>3
    <3> QED BY <3>2, <3>3
  <2> QED BY <2>2, <2>3
<1>5. TypeOK'
  BY <1>3, <1>4 DEF ClientInv, TypeOK, AccountsTypeOK
<1>6. \A u \in Tabs : SoundTab(u)'
  BY <1>4 DEF ClientInv, SoundTab, Empty, NoToken
<1> QED BY <1>3, <1>5, <1>6 DEF ClientInv

LEMMA ListedStep == ASSUME ClientInv, NEW m \in net, Listed(m) PROVE ClientInv'
<1>1. m \in Requests /\ m.list \subseteq Files
  BY NetTypes DEF Requests
<1>2. table' \in [Tabs -> SUBSET Files]
  BY <1>1 DEF Listed, ClientInv, TypeOK
<1> QED BY <1>2, TableAnswers DEF Listed, Taken

(* what a refresh after m looks like *)
LEMMA RefreshAfter ==
    ASSUME ClientInv, NEW m \in net, ThenRefresh(m)
    PROVE  \E n : /\ Become(m, n) /\ n \in Requests /\ SameSender(m, n)
                  /\ n.op = "refresh" /\ n.stage = "sent" /\ n.code = 0
<1>1. PICK r : r = Follow(m, "refresh")
  OBVIOUS
<1>2. Followed(m, r, "refresh")
  BY <1>1, NetTypes, FollowFacts, Parts
<1>3. PICK n : n = [r EXCEPT !.file = Nobody]
  OBVIOUS
<1>6. r \in Requests
  BY <1>2 DEF Followed
<1>7. n \in Requests
  BY <1>3, <1>6 DEF Requests
<1>8. /\ n.tab = r.tab /\ n.as = r.as /\ n.live = r.live /\ n.sort = r.sort
      /\ n.op = r.op /\ n.stage = r.stage /\ n.code = r.code
  BY <1>3, <1>6 DEF Requests
<1>4. SameSender(m, n) /\ n.op = "refresh" /\ n.stage = "sent" /\ n.code = 0
  BY <1>2, <1>8 DEF Followed, SameSender
<1>5. Become(m, n)
  BY <1>1, <1>3 DEF ThenRefresh
<1> QED BY <1>4, <1>5, <1>7

LEMMA CheckedStep == ASSUME ClientInv, NEW m \in net, Checked(m) PROVE ClientInv'
<1>1. m \in Requests /\ m.op = "md5" /\ m.op \notin FormReqs /\ m.file \in Files
  BY NetTypes DEF Checked, Taken, Sound, FormReqs, FileReqs
<1>2. CASE Posts(m)
  <2>1. PICK n : n = Post(m)
    OBVIOUS
  <2>2. Followed(m, n, "upload")
    BY <1>1, <2>1, PostFacts, Parts
  <2>3. Become(m, n) /\ pick' = [pick EXCEPT ![m.tab][m.file] = "uploading"]
    BY <1>2, <2>1 DEF Checked
  <2>4. /\ Become(m, n) /\ n \in Requests /\ SameSender(m, n) /\ n.op \notin FormReqs
        /\ n.op \in FileReqs => n.file \in Files
    BY <1>1, <2>2, <2>3 DEF Followed, FormReqs
  <2>5. table' \in [Tabs -> SUBSET Files] /\ UNCHANGED <<env, server, page, chunks, loading, who, cookie, sort, told>>
    BY DEF Checked, Taken, ClientInv, TypeOK
  <2> QED BY <1>1, <2>3, <2>4, <2>5, TableAnswers
<1>3. CASE ~Posts(m)
  <2>1. Forget(m) /\ (UNCHANGED pick \/ pick' = [pick EXCEPT ![m.tab][m.file] = "refused"])
    BY <1>3 DEF Checked
  <2>2. table' \in [Tabs -> SUBSET Files] /\ UNCHANGED <<env, server, page, chunks, loading, who, cookie, sort, told>>
    BY DEF Checked, Taken, ClientInv, TypeOK
  <2> QED BY <1>1, <2>1, <2>2, TableAnswers
<1> QED BY <1>2, <1>3

LEMMA UploadedStep == ASSUME ClientInv, NEW m \in net, Uploaded(m) PROVE ClientInv'
<1>1. m \in Requests /\ m.op = "upload" /\ m.op \notin FormReqs /\ m.file \in Files
  BY NetTypes DEF Uploaded, Taken, Sound, FormReqs, FileReqs
<1>2. \E p \in {"refused", "uploading", "done", "failed"} :
          UNCHANGED pick \/ (pick' = [pick EXCEPT ![m.tab][m.file] = p])
  BY DEF Uploaded
<1>3. \/ Forget(m)
      \/ \E n : /\ Become(m, n) /\ n \in Requests /\ SameSender(m, n) /\ n.op = "refresh"
  BY RefreshAfter DEF Uploaded
<1>4. table' \in [Tabs -> SUBSET Files] /\ UNCHANGED <<env, server, page, chunks, loading, who, cookie, sort, told>>
  BY DEF Uploaded, Taken, ClientInv, TypeOK
<1>5. "refresh" \notin FormReqs /\ "refresh" \notin FileReqs
  BY DEF FormReqs, FileReqs
<1> QED BY <1>1, <1>2, <1>3, <1>4, <1>5, TableAnswers

LEMMA DeletedSteps == ASSUME ClientInv, NEW m \in net, Deleted(m) \/ DeletedAll(m) PROVE ClientInv'
<1>1. m \in Requests /\ m.op \notin FormReqs
  BY NetTypes DEF Deleted, DeletedAll, Taken, FormReqs
<1>2. \/ Forget(m)
      \/ \E n : /\ Become(m, n) /\ n \in Requests /\ SameSender(m, n) /\ n.op = "refresh"
  BY RefreshAfter DEF Deleted, DeletedAll
<1>3. /\ table' \in [Tabs -> SUBSET Files]
      /\ UNCHANGED <<env, server, page, chunks, loading, who, cookie, sort, told, pick>>
  BY DEF Deleted, DeletedAll, Taken, ClientInv, TypeOK, files
<1>4. "refresh" \notin FormReqs /\ "refresh" \notin FileReqs
  BY DEF FormReqs, FileReqs
<1> QED BY <1>1, <1>2, <1>3, <1>4, TableAnswers

LEMMA ClientNext == ClientInv /\ [Next]_vars => ClientInv'
<1> SUFFICES ASSUME ClientInv, [Next]_vars PROVE ClientInv'
  OBVIOUS
<1>1. CASE UNCHANGED vars
  <2> USE DEF vars, server, form, files
  <2>1. TypeOK'
    BY <1>1 DEF ClientInv, TypeOK, AccountsTypeOK
  <2>2. TokensStay /\ \A u \in Tabs : TabStays(u)
    BY <1>1 DEF TokensStay, TabStays
  <2>3. NetSound'
    BY <1>1, <2>2, NetTypes, NetStays DEF ClientInv
  <2>4. \A u \in Tabs : SoundTab(u)'
    BY <1>1 DEF ClientInv, SoundTab, Empty, NoToken
  <2> QED BY <2>1, <2>3, <2>4 DEF ClientInv
<1>2. ASSUME NEW t \in Tabs, User(t) PROVE ClientInv'
  BY <1>2, OpenTabStep, SubmitStep, LogOutStep, LeaveStep, RefreshStep, ChooseSortStep, DeleteStep,
     DeleteAllStep, PickFileStep DEF User, SubmitLogin, SubmitRegister
<1>3. ASSUME NEW t \in Tabs, Tab(t) PROVE ClientInv'
  BY <1>3, ScriptRunsStep, RouteStep, EnterStep, WriteTokenStep DEF Tab
<1>4. ASSUME NEW m \in net, Serve(m) PROVE ClientInv'
  BY <1>4, ServeRegisterStep, ServeLoginStep, ServeListStep, ServeFileSteps DEF Serve
<1>5. ASSUME NEW m \in net, Deliver(m) PROVE ClientInv'
  BY <1>5, LoggedInStep, RegisteredStep, ListedStep, CheckedStep, UploadedStep, DeletedSteps DEF Deliver
<1> QED BY <1>1, <1>2, <1>3, <1>4, <1>5, LostStep, ExpireStep DEF Next

LEMMA ClientInvariant == Spec => []ClientInv
BY ClientInit, ClientNext, PTL DEF Spec

(* Types: names, tokens, pages and requests are what the handlers expect, however
   tabs and answers interleave. *)
THEOREM TypeCorrect == Spec => []TypeOK
<1>1. ClientInv => TypeOK
  BY DEF ClientInv
<1> QED BY <1>1, ClientInvariant, PTL

-----------------------------------------------------------------------------
(* Users who wait for each tab.  Then one tab is under way, or one request, or the
   deletions of one batch; and the cookie holds a user and a token made for him
   but for the moments in which a tab writes it. *)
CookieSound ==
    \/ cookie = Empty
    \/ cookie.user \in Users /\ cookie.token \in Tokens /\ issued[cookie.token] = cookie.user
Alike(m, n) == m = n \/ (m.op = "delete all" /\ n.op = "delete all" /\ m.id = n.id)
OneAtATime ==
    /\ \A t, u \in Tabs : page[t] \in Moving /\ page[u] \in Moving => t = u
    /\ (\E t \in Tabs : page[t] \in Moving) => net = {}
    /\ \A m, n \in net : Alike(m, n)
    /\ \A m \in net : m.live = TRUE
Writing(t) == page[t] \in {"log in", "log out"}
IssuedTo ==
    /\ \A t \in Tabs : page[t] = "files" => issued[who[t].token] = who[t].user
    /\ \A m \in net : m.op \notin FormReqs => issued[m.as.token] = m.as.user
IdentityInv ==
    /\ OneAtATime /\ IssuedTo
    /\ (\A t \in Tabs : ~Writing(t)) => CookieSound
    /\ \A t \in Tabs : Writing(t) => cookie.user = who[t].user
PatientInv == env.patient => IdentityInv

LEMMA IdentityInit == Init => IdentityInv
<1> SUFFICES ASSUME Init PROVE IdentityInv
  OBVIOUS
<1>1. net = {} /\ \A t \in Tabs : page[t] = "closed"
  BY DEF Init
<1>2. CookieSound
  BY DEF Init, CookieSound
<1> QED BY <1>1, <1>2 DEF IdentityInv, OneAtATime, IssuedTo, Writing, Moving

LEMMA NothingInEmpty == \A x : x = Empty => x.user = Nobody /\ x.token = NoToken
BY DEF Empty

LEMMA OnlyRequest ==
    ASSUME OneAtATime, NEW m \in net, m.op # "delete all" \/ LastOfBatch(m)
    PROVE  net = {m}
BY DEF OneAtATime, LastOfBatch, Alike

(* What a user does in tab t when nothing is under way. *)
UserDoes(t) ==
    /\ UNCHANGED <<env, issued>>
    /\ \A u \in Tabs \ {t} : page'[u] = page[u] /\ who'[u] = who[u]
    /\ page'[t] \in Moving => net' = {}
    /\ \A m, n \in net' : Alike(m, n)
    /\ \A m \in net' : m.live = TRUE /\ m.stage = "sent" /\ m.sort = sort[t]
    /\ \A m \in net' : m.op \notin FormReqs => page[t] = "files" /\ m.as = who[t]
    /\ page'[t] = "files" => page[t] = "files" /\ who'[t] = who[t]
    /\ page'[t] # "log in"
    /\ page'[t] = "log out" => cookie'.user = who'[t].user
    /\ page'[t] # "log out" => UNCHANGED cookie

LEMMA QuietUser ==
    ASSUME ClientInv, NEW t \in Tabs, User(t), env.patient
    PROVE  Quiet /\ UserDoes(t) /\ net = {}
<1> USE DEF Touch, Show, server, files, Quiet
<1>1. TypeOK /\ IsFiniteSet(net)
  BY Parts
<1>2. Quiet /\ net = {} /\ UNCHANGED <<env, issued>>
  BY DEF User, OpenTab, SubmitLogin, SubmitRegister, Submit, LogOut, Leave, Refresh, ChooseSort,
         Delete, DeleteAll, PickFile, OnFiles
<1>3. CASE OpenTab(t)
  BY <1>1, <1>2, <1>3 DEF OpenTab, UserDoes, TypeOK, Moving
<1>4. ASSUME NEW op \in {"register", "login"}, Submit(t, op) PROVE UserDoes(t)
  <2>1. PICK u \in env.names, p \in Passwords :
            net' = net \cup {[Request(t, op) EXCEPT !.as.user = u, !.pwd = p]}
    BY <1>4 DEF Submit
  <2>2. PICK n : n = [Request(t, op) EXCEPT !.as.user = u, !.pwd = p]
    OBVIOUS
  <2>3. n.op = op /\ n.live = TRUE /\ n.stage = "sent" /\ n.sort = sort[t]
    BY <2>2 DEF Request
  <2>4. net' = {n}
    BY <1>2, <2>1, <2>2
  <2> QED BY <1>1, <1>2, <1>4, <2>3, <2>4 DEF Submit, UserDoes, Alike, TypeOK, FormReqs, Moving
<1>5. CASE LogOut(t) \/ Leave(t)
  <2>1. net' = {}
    BY <1>2, <1>5 DEF LogOut, Leave, Unmount
  <2>2. who' = [who EXCEPT ![t] = Empty] /\ page' = [page EXCEPT ![t] = IF LogOut(t) THEN "log out" ELSE "route"]
    BY <1>5 DEF LogOut, Leave, Unmount, ClearsName
  <2>3. LogOut(t) => cookie' = [cookie EXCEPT !.user = Nobody] /\ cookie \in Identity
    BY <1>1 DEF LogOut, ClearsName, TypeOK
  <2>4. page'[t] = (IF LogOut(t) THEN "log out" ELSE "route") /\ who'[t] = Empty
    BY <1>1, <2>2 DEF TypeOK
  <2>5. LogOut(t) => cookie'.user = who'[t].user
    <3>1. LogOut(t) => cookie'.user = Nobody
      BY <2>3 DEF Identity
    <3>2. who'[t] = Empty
      BY <2>4
    <3>3. who'[t].user = Nobody
      BY <3>2, NothingInEmpty
    <3> QED BY <3>1, <3>3
  <2>6. \A u \in Tabs \ {t} : page'[u] = page[u] /\ who'[u] = who[u]
    BY <1>1, <2>2 DEF TypeOK
  <2>7. ~LogOut(t) => UNCHANGED cookie
    BY <1>5 DEF Leave
  <2> QED BY <1>2, <2>1, <2>4, <2>5, <2>6, <2>7 DEF UserDoes
<1>6. ASSUME UNCHANGED <<page, who, cookie>>, page[t] = "files", \A m, n \in net' : Alike(m, n),
             \A m \in net' : m.live = TRUE /\ m.stage = "sent" /\ m.sort = sort[t] /\ m.as = who[t]
      PROVE  UserDoes(t)
  BY <1>2, <1>6 DEF UserDoes, Moving
<1>7. CASE Refresh(t)
  <2>1. PICK n : n = Request(t, "refresh")
    OBVIOUS
  <2>2. Sent(n, t, "refresh")
    BY <1>1, <2>1, RequestFacts
  <2>3. net' = {n}
    BY <1>2, <1>7, <2>1 DEF Refresh
  <2> QED BY <1>6, <1>7, <2>2, <2>3 DEF Refresh, OnFiles, Sent, Alike
<1>8. CASE ChooseSort(t)
  BY <1>2, <1>6, <1>8 DEF ChooseSort, OnFiles
<1>9. CASE Delete(t)
  <2>1. PICK f \in table[t] : net' = net \cup {About(t, "delete", f)}
    BY <1>9 DEF Delete
  <2>2. PICK n : n = About(t, "delete", f)
    OBVIOUS
  <2>3. f \in Files
    BY <1>1 DEF TypeOK
  <2>4. Sent(n, t, "delete")
    BY <1>1, <2>2, <2>3, AboutFacts DEF FileReqs
  <2>5. net' = {n}
    BY <1>2, <2>1, <2>2
  <2> QED BY <1>6, <1>9, <2>4, <2>5 DEF Delete, OnFiles, Sent, Alike
<1>10. CASE DeleteAll(t)
  <2>1. net' = {About(t, "delete all", f) : f \in table[t]}
    BY <1>2, <1>10 DEF DeleteAll
  <2>2. ASSUME NEW n \in net' PROVE Sent(n, t, "delete all")
    <3>1. PICK f \in table[t] : n = About(t, "delete all", f)
      BY <2>1
    <3>2. f \in Files
      BY <1>1 DEF TypeOK
    <3> QED BY <1>1, <3>1, <3>2, AboutFacts DEF FileReqs
  <2>3. /\ UNCHANGED <<page, who, cookie>> /\ page[t] = "files"
        /\ \A m \in net' : m.live = TRUE /\ m.stage = "sent" /\ m.sort = sort[t] /\ m.as = who[t]
        /\ \A m \in net' : m.op = "delete all" /\ m.id = FreshId
    BY <1>10, <2>2 DEF DeleteAll, OnFiles, Sent
  <2>4. \A m, n \in net' : Alike(m, n)
    BY <2>3 DEF Alike
  <2>5. \A m \in net' : m.live = TRUE /\ m.stage = "sent" /\ m.sort = sort[t] /\ m.as = who[t]
    BY <2>3
  <2> QED BY <1>2, <1>6, <2>3, <2>4, <2>5
<1>11. CASE PickFile(t)
  <2>1. PICK f \in Files : net' = net \cup {About(t, "md5", f)} \/ UNCHANGED net
    BY <1>11 DEF PickFile
  <2>2. PICK n : n = About(t, "md5", f)
    OBVIOUS
  <2>3. Sent(n, t, "md5")
    BY <1>1, <2>2, AboutFacts DEF FileReqs
  <2>4. net' \subseteq {n}
    BY <1>2, <2>1, <2>2
  <2> QED BY <1>6, <1>11, <2>3, <2>4 DEF PickFile, OnFiles, Sent, Alike
<1> QED BY <1>2, <1>3, <1>4, <1>5, <1>7, <1>8, <1>9, <1>10, <1>11 DEF User, SubmitLogin, SubmitRegister

LEMMA UserKeepsIdentity ==
    ASSUME ClientInv, IdentityInv, NEW t \in Tabs, User(t), env.patient
    PROVE  IdentityInv'
<1>1. Quiet /\ UserDoes(t) /\ net = {}
  BY QuietUser
<1>2. OneAtATime'
  BY <1>1 DEF UserDoes, Quiet, OneAtATime
<1>3. IssuedTo'
  <2>1. \A u \in Tabs : page[u] = "files" => issued[who[u].token] = who[u].user
    BY DEF IdentityInv, IssuedTo
  <2>2. \A u \in Tabs : page'[u] = "files" => page[u] = "files" /\ who'[u] = who[u]
    BY <1>1 DEF UserDoes
  <2>i. issued' = issued
    BY <1>1 DEF UserDoes
  <2>3. \A u \in Tabs : page'[u] = "files" => issued'[who'[u].token] = who'[u].user
    BY <2>1, <2>2, <2>i
  <2>4. ASSUME NEW m \in net', m.op \notin FormReqs PROVE issued'[m.as.token] = m.as.user
    <3>1. page[t] = "files" /\ m.as = who[t] /\ issued' = issued
      BY <1>1, <2>4 DEF UserDoes
    <3> QED BY <2>1, <3>1
  <2> QED BY <2>3, <2>4 DEF IssuedTo
<1>4. \A u \in Tabs : ~Writing(u)
  BY <1>1 DEF Quiet, Moving, Writing
<1>5. ((\A u \in Tabs : ~Writing(u)) => CookieSound)'
  BY <1>1, <1>4 DEF UserDoes, IdentityInv, CookieSound, Writing, Empty, NoToken
<1>6. \A u \in Tabs : (Writing(u) => cookie.user = who[u].user)'
  BY <1>1, <1>4 DEF UserDoes, Writing
<1> QED BY <1>2, <1>3, <1>5, <1>6 DEF IdentityInv

LEMMA TabKeepsIdentity ==
    ASSUME ClientInv, IdentityInv, NEW t \in Tabs, Tab(t)
    PROVE  IdentityInv'
<1> USE DEF Show, server, files
<1>1. /\ UNCHANGED <<env, issued>> /\ page[t] \in Moving
      /\ \A u \in Tabs \ {t} : page'[u] = page[u] /\ who'[u] = who[u]
  BY Parts DEF Tab, ScriptRuns, Route, Enter, WriteToken, TypeOK, Moving
<1>2. net = {} /\ \A u \in Tabs \ {t} : page[u] \notin Moving
  BY <1>1 DEF IdentityInv, OneAtATime
<1>3. CASE ScriptRuns(t) \/ Enter(t)
  <2>1. page[t] \in {"boot", "enter"} /\ page'[t] \in {"boot", "route", "login"} /\ UNCHANGED <<net, cookie, who>>
    BY <1>3, Parts DEF ScriptRuns, Enter, TypeOK
  <2>2. OneAtATime'
    BY <1>1, <1>2, <2>1 DEF OneAtATime
  <2>3. IssuedTo'
    BY <1>1, <1>2, <2>1 DEF IssuedTo, IdentityInv
  <2>4. (\A u \in Tabs : ~Writing(u)) /\ \A u \in Tabs : ~Writing(u)'
    BY <1>1, <1>2, <2>1 DEF Writing, Moving
  <2>5. CookieSound'
    BY <1>1, <2>1, <2>4 DEF IdentityInv, CookieSound, Empty, NoToken
  <2> QED BY <2>2, <2>3, <2>4, <2>5 DEF IdentityInv
<1>4. CASE Route(t)
  <2>1. \A u \in Tabs : ~Writing(u)
    BY <1>2, <1>4 DEF Route, Writing, Moving
  <2>2. CookieSound /\ UNCHANGED cookie
    BY <1>4, <2>1 DEF IdentityInv, Route
  <2>3. CASE cookie.user # Nobody /\ cookie.token # NoToken
    <3>1. PICK n : n = [Request(t, "mount") EXCEPT !.as = cookie]
      OBVIOUS
    <3>2. n.live = TRUE /\ n.as = cookie
      BY <3>1 DEF Request
    <3>3. net' = {n} /\ page'[t] = "files" /\ who'[t] = cookie
      BY <1>2, <1>4, <2>3, <3>1, Parts DEF Route, TypeOK
    <3>4. issued'[cookie.token] = cookie.user
      BY <1>1, <2>2, <2>3 DEF CookieSound, Empty
    <3>5. OneAtATime'
      BY <1>1, <1>2, <3>2, <3>3 DEF OneAtATime, Alike, Moving
    <3>6. IssuedTo'
      <4>1. \A u \in Tabs \ {t} : page[u] = "files" => issued[who[u].token] = who[u].user
        BY DEF IdentityInv, IssuedTo
      <4>2. \A u \in Tabs : page'[u] = "files" => issued'[who'[u].token] = who'[u].user
        BY <1>1, <3>3, <3>4, <4>1
      <4> QED BY <3>2, <3>3, <3>4, <4>2 DEF IssuedTo
    <3>7. \A u \in Tabs : ~Writing(u)'
      BY <1>1, <2>1, <3>3 DEF Writing
    <3>8. CookieSound'
      BY <1>1, <2>2 DEF CookieSound, Empty, NoToken
    <3> QED BY <3>5, <3>6, <3>7, <3>8 DEF IdentityInv
  <2>4. CASE ~(cookie.user # Nobody /\ cookie.token # NoToken)
    <3>1. UNCHANGED <<who, net>> /\ page'[t] = "enter" /\ page[t] = "route"
      BY <1>4, <2>4, Parts DEF Route, TypeOK
    <3>2. OneAtATime'
      BY <1>1, <1>2, <3>1 DEF OneAtATime
    <3>3. IssuedTo'
      BY <1>1, <1>2, <3>1 DEF IssuedTo, IdentityInv
    <3>4. \A u \in Tabs : ~Writing(u)'
      BY <1>1, <2>1, <3>1 DEF Writing
    <3>5. CookieSound'
      BY <1>1, <2>2 DEF CookieSound, Empty, NoToken
    <3> QED BY <3>2, <3>3, <3>4, <3>5 DEF IdentityInv
  <2> QED BY <2>3, <2>4
<1>5. CASE WriteToken(t)
  <2>1. /\ Writing(t) /\ UNCHANGED net /\ page'[t] \in {"route", "enter"}
        /\ cookie' = [cookie EXCEPT !.token = who[t].token]
    BY <1>5, Parts DEF WriteToken, TypeOK, Writing
  <2>2. cookie.user = who[t].user /\ cookie \in Identity
    BY <2>1, Parts DEF IdentityInv, TypeOK
  <2>3. cookie'.user = who[t].user /\ cookie'.token = who[t].token /\ cookie' = [user |-> who[t].user, token |-> who[t].token]
    BY <2>1, <2>2 DEF Identity
  <2>4. SoundTab(t)
    BY DEF ClientInv
  <2>5. CookieSound'
    <3>1. CASE page[t] = "log in"
      BY <1>1, <2>3, <2>4, <3>1 DEF SoundTab, CookieSound
    <3>2. CASE page[t] = "log out"
      <4>1. who[t].user = Nobody /\ who[t].token = NoToken
        <5>1. who[t] = Empty
          BY <2>4, <3>2 DEF SoundTab
        <5> QED BY <5>1, NothingInEmpty
      <4>2. cookie' = Empty
        BY <2>3, <4>1 DEF Empty
      <4> QED BY <4>2 DEF CookieSound, Empty, NoToken
    <3> QED BY <2>1, <3>1, <3>2 DEF Writing
  <2>6. OneAtATime'
    BY <1>1, <1>2, <2>1 DEF OneAtATime
  <2>7. IssuedTo'
    <3>1. \A u \in Tabs \ {t} : page[u] = "files" => issued[who[u].token] = who[u].user
      BY DEF IdentityInv, IssuedTo
    <3>2. \A u \in Tabs : page'[u] = "files" => issued'[who'[u].token] = who'[u].user
      BY <1>1, <2>1, <3>1
    <3> QED BY <1>2, <2>1, <3>2 DEF IssuedTo
  <2>8. \A u \in Tabs : ~Writing(u)'
    BY <1>1, <1>2, <2>1 DEF Writing, Moving
  <2> QED BY <2>5, <2>6, <2>7, <2>8 DEF IdentityInv
<1> QED BY <1>3, <1>4, <1>5 DEF Tab

(* A step of the server or the network: one request takes its next form. *)
LEMMA AnswersKeepIdentity ==
    ASSUME ClientInv, IdentityInv, TokensStay, UNCHANGED <<page, who, cookie>>,
           NEW m \in net, NEW n,
           \/ Forget(m)
           \/ Become(m, n) /\ n.op = m.op /\ n.id = m.id /\ SameSender(m, n)
           \/ Become(m, n) /\ net = {m} /\ m.op \notin FormReqs /\ SameSender(m, n)
    PROVE  IdentityInv'
<1>1. OneAtATime'
  <2>1. \A x, y \in net : Alike(x, y)
    BY DEF IdentityInv, OneAtATime
  <2>2. \A x, y \in net' : Alike(x, y)
    BY <2>1 DEF Forget, Become, Alike
  <2>3. \A x \in net' : x.live = TRUE
    BY DEF IdentityInv, OneAtATime, Forget, Become, SameSender
  <2> QED BY <2>2, <2>3 DEF IdentityInv, OneAtATime
<1>2. ASSUME NEW u \in Tabs, page[u] = "files" PROVE issued'[who[u].token] = who[u].user
  <2>1. issued[who[u].token] = who[u].user /\ who[u].user \in Users /\ who[u].token \in Tokens
    BY <1>2 DEF IdentityInv, IssuedTo, ClientInv, SoundTab
  <2> QED BY <2>1, AccountsAssumption DEF TokensStay
<1>3. ASSUME NEW x \in net', x.op \notin FormReqs PROVE issued'[x.as.token] = x.as.user
  <2>1. PICK y \in net : y.op \notin FormReqs /\ y.as = x.as
    BY <1>3 DEF Forget, Become, SameSender
  <2>2. issued[y.as.token] = y.as.user /\ y.as.user \in Users /\ y.as.token \in Tokens
    BY <2>1, NetTypes DEF IdentityInv, IssuedTo, Sound
  <2> QED BY <2>1, <2>2, AccountsAssumption DEF TokensStay
<1>4. CookieSound => CookieSound'
  BY AccountsAssumption DEF CookieSound, TokensStay, Empty, NoToken
<1> QED BY <1>1, <1>2, <1>3, <1>4 DEF IdentityInv, IssuedTo, Writing

(* Only a login makes a token, and it takes one that nobody has. *)
LEMMA TokensLast ==
    ASSUME ClientInv, [Next]_vars
    PROVE  TokensStay
<1>1. issued \in [Tokens -> Users \cup {Nobody}]
  BY Parts DEF TypeOK, AccountsTypeOK
<1>2. UNCHANGED issued \/ \E u, k, stored : IssueToken(u, k, stored)
  <2> USE DEF server, accounts
  <2>1. ASSUME NEW t \in Tabs, User(t) \/ Tab(t) PROVE UNCHANGED issued
    BY <2>1 DEF User, Tab, OpenTab, SubmitLogin, SubmitRegister, Submit, LogOut, Leave, Refresh,
         ChooseSort, Delete, DeleteAll, PickFile, OnFiles, Touch, ScriptRuns, Route, Enter, WriteToken
  <2>2. ASSUME NEW m \in net, Serve(m)
        PROVE  UNCHANGED issued \/ \E u, k, stored : IssueToken(u, k, stored)
    BY <2>2 DEF Serve, ServeRegister, ServeLogin, ServeList, ServeMd5, ServeUpload, ServeDelete, InsertUser
  <2>3. ASSUME NEW m \in net, Deliver(m) \/ Lost(m) PROVE UNCHANGED issued
    BY <2>3 DEF Deliver, LoggedIn, Registered, Listed, Checked, Uploaded, Deleted, DeletedAll, Taken, Lost
  <2>4. CASE Expire
    BY <2>4 DEF Expire, ExpireToken
  <2> QED BY <2>1, <2>2, <2>3, <2>4 DEF Next, vars
<1> QED BY <1>1, <1>2 DEF IssueToken, FreshTokens, TokensStay

(* What the server and the network do to a request m: it becomes n, of the same
   sender and operation. *)
ServedAs(m, n) ==
    /\ Become(m, n) /\ n \in Requests /\ SameSender(m, n)
    /\ n.op = m.op /\ n.id = m.id /\ n.file = m.file
    /\ n.code = NoCode => m.code = NoCode \/ env.faulty
LEMMA ServeFacts ==
    ASSUME ClientInv, NEW m \in net, Serve(m) \/ Lost(m)
    PROVE  (\E n : ServedAs(m, n)) /\ UNCHANGED <<env, form, files, told>>
<1>1. m \in Requests
  BY NetTypes
<1>2. ASSUME NEW c \in {0, 1, 2, 5, NoCode}, Become(m, Reply(m, c)), c = NoCode => env.faulty
      PROVE  \E n : ServedAs(m, n)
  <2>1. PICK n : n = Reply(m, c)
    OBVIOUS
  <2>2. Become(m, n) /\ Replied(m, n, c)
    BY <1>1, <1>2, <2>1, ReplyFacts
  <2> QED BY <1>2, <2>2 DEF Replied, ServedAs
<1>3. ASSUME Become(m, [m EXCEPT !.stage = "looked"]) PROVE \E n : ServedAs(m, n)
  <2>1. PICK n : n = [m EXCEPT !.stage = "looked"]
    OBVIOUS
  <2>2. /\ n \in Requests /\ n.op = m.op /\ n.id = m.id /\ n.file = m.file /\ n.code = m.code
        /\ SameSender(m, n)
    BY <1>1, <2>1 DEF Requests, SameSender
  <2> QED BY <1>3, <2>1, <2>2 DEF ServedAs
<1>4. ASSUME NEW k \in Tokens, Become(m, [Reply(m, 0) EXCEPT !.token = k]) PROVE \E n : ServedAs(m, n)
  <2>1. PICK r : r = Reply(m, 0)
    OBVIOUS
  <2>2. PICK n : n = [r EXCEPT !.token = k]
    OBVIOUS
  <2>3. Replied(m, r, 0)
    BY <1>1, <2>1, ReplyFacts
  <2>4. SameRequest(m, n)
    <3>1. n = WithToken(r, k)
      BY <2>2 DEF WithToken
    <3> QED BY <2>3, <3>1, ReplyWithToken
  <2>5. n.code = 0
    BY <2>2, <2>3 DEF Replied, Requests
  <2>6. Become(m, n) /\ n.code # NoCode
    BY <1>4, <2>1, <2>2, <2>5 DEF NoCode
  <2> QED BY <2>4, <2>6 DEF ServedAs, SameRequest
<1>5. ASSUME Become(m, [Reply(m, 0) EXCEPT !.list = FilesOf(m.as.user)]) PROVE \E n : ServedAs(m, n)
  <2>1. PICK r : r = Reply(m, 0)
    OBVIOUS
  <2>2. PICK n : n = [r EXCEPT !.list = FilesOf(m.as.user)]
    OBVIOUS
  <2>3. Replied(m, r, 0)
    BY <1>1, <2>1, ReplyFacts
  <2>4. SameRequest(m, n)
    <3>1. FilesOf(m.as.user) \in SUBSET Files
      BY DEF FilesOf
    <3>2. n = WithList(r, FilesOf(m.as.user))
      BY <2>2 DEF WithList
    <3> QED BY <2>3, <3>1, <3>2, ReplyWithList
  <2>5. n.code = 0
    BY <2>2, <2>3 DEF Replied, Requests
  <2>6. Become(m, n) /\ n.code # NoCode
    BY <1>5, <2>1, <2>2, <2>5 DEF NoCode
  <2> QED BY <2>4, <2>6 DEF ServedAs, SameRequest
<1>6. \/ \E c \in {0, 1, 2, 5, NoCode} : Become(m, Reply(m, c)) /\ (c = NoCode => env.faulty)
      \/ Become(m, [m EXCEPT !.stage = "looked"])
      \/ \E k \in Tokens : Become(m, [Reply(m, 0) EXCEPT !.token = k])
      \/ Become(m, [Reply(m, 0) EXCEPT !.list = FilesOf(m.as.user)])
  <2>1. ASSUME NEW c \in {0, 1, 2, 5}, Become(m, Reply(m, c))
        PROVE  \E d \in {0, 1, 2, 5, NoCode} : Become(m, Reply(m, d)) /\ (d = NoCode => env.faulty)
    <3>1. c # NoCode
      BY DEF NoCode
    <3> QED BY <2>1, <3>1
  <2>2. CASE Lost(m)
    BY <2>2 DEF Lost
  <2>3. CASE Serve(m)
    <3>1. \/ \E c \in {0, 1, 2, 5} : Become(m, Reply(m, c))
          \/ Become(m, [m EXCEPT !.stage = "looked"])
          \/ \E k \in Tokens : Become(m, [Reply(m, 0) EXCEPT !.token = k])
          \/ Become(m, [Reply(m, 0) EXCEPT !.list = FilesOf(m.as.user)])
      BY <2>3 DEF Serve, ServeRegister, ServeLogin, ServeList, ServeMd5, ServeUpload, ServeDelete
    <3> QED BY <2>1, <3>1
  <2> QED BY <2>2, <2>3
<1>7. UNCHANGED <<env, form, files, told>>
  BY DEF Serve, Lost
<1> QED BY <1>2, <1>3, <1>4, <1>5, <1>6, <1>7

LEMMA DeliverKeepsIdentity ==
    ASSUME ClientInv, IdentityInv, TokensStay, NEW m \in net, Deliver(m)
    PROVE  IdentityInv'
<1>1. m \in Requests /\ m.tab \in Tabs /\ Sound(m) /\ \A x, y \in net : Alike(x, y)
  BY NetTypes DEF IdentityInv, OneAtATime
<1>2. CASE LoggedIn(m) /\ m.code \notin {1, NoCode}
  <2>1. net = {m} /\ net' = {} /\ m.op = "login" /\ page[m.tab] = "login"
    BY <1>1, <1>2, OnlyRequest DEF LoggedIn, Taken, Forget, IdentityInv, Sound, FormReqs
  <2>2. PICK w : w = [user |-> m.as.user, token |-> m.token]
    OBVIOUS
  <2>3. /\ who' = [who EXCEPT ![m.tab] = w] /\ cookie' = [cookie EXCEPT !.user = m.as.user]
        /\ page' = [page EXCEPT ![m.tab] = "log in"] /\ UNCHANGED <<issued, env>>
    BY <1>2, <2>2 DEF LoggedIn, Show, Taken, server
  <2>4. /\ who'[m.tab] = w /\ page'[m.tab] = "log in" /\ w.user = m.as.user
        /\ \A u \in Tabs \ {m.tab} : who'[u] = who[u] /\ page'[u] = page[u]
    BY <1>1, <2>2, <2>3, Parts DEF TypeOK
  <2>5. cookie'.user = m.as.user
    BY <2>3, Parts DEF TypeOK, Identity
  <2>6. \A u \in Tabs : page[u] \notin Moving
    BY <2>1 DEF IdentityInv, OneAtATime
  <2>7. OneAtATime'
    BY <2>1, <2>4, <2>6 DEF OneAtATime
  <2>8. IssuedTo'
    BY <2>1, <2>3, <2>4 DEF IssuedTo, IdentityInv
  <2>9. Writing(m.tab)' /\ \A u \in Tabs : (Writing(u) => cookie.user = who[u].user)'
    BY <2>4, <2>5, <2>6 DEF Writing, Moving
  <2> QED BY <1>1, <2>7, <2>8, <2>9 DEF IdentityInv
<1>3. CASE LoggedIn(m) /\ m.code \in {1, NoCode}
  BY <1>3, AnswersKeepIdentity DEF LoggedIn
<1>4. CASE Registered(m) \/ Listed(m)
  BY <1>4, AnswersKeepIdentity DEF Registered, Listed
<1>5. ASSUME ThenRefresh(m), net = {m}, m.op \notin FormReqs, UNCHANGED <<page, who, cookie>> PROVE IdentityInv'
  BY <1>5, RefreshAfter, AnswersKeepIdentity
<1>6. CASE Checked(m)
  <2>1. net = {m} /\ m.op \notin FormReqs
    BY <1>6, OnlyRequest DEF Checked, Taken, IdentityInv, FormReqs
  <2>2. PICK n : n = Post(m)
    OBVIOUS
  <2>3. SameSender(m, n)
    BY <1>1, <2>2, PostFacts, Parts DEF Followed
  <2>4. Forget(m) \/ Become(m, n)
    BY <1>6, <2>2 DEF Checked
  <2> QED BY <1>6, <2>1, <2>3, <2>4, AnswersKeepIdentity DEF Checked
<1>7. CASE Uploaded(m) \/ Deleted(m)
  <2>1. net = {m} /\ m.op \notin FormReqs
    BY <1>7, OnlyRequest DEF Uploaded, Deleted, Taken, IdentityInv, FormReqs
  <2> QED BY <1>5, <1>7, <2>1, AnswersKeepIdentity DEF Uploaded, Deleted
<1>8. CASE DeletedAll(m)
  <2>1. CASE LastOfBatch(m)
    <3>1. net = {m} /\ m.op \notin FormReqs
      BY <1>8, <2>1, OnlyRequest DEF DeletedAll, Taken, IdentityInv, FormReqs
    <3> QED BY <1>5, <1>8, <2>1, <3>1 DEF DeletedAll
  <2>2. CASE ~LastOfBatch(m)
    BY <1>8, <2>2, AnswersKeepIdentity DEF DeletedAll
  <2> QED BY <2>1, <2>2
<1> QED BY <1>2, <1>3, <1>4, <1>6, <1>7, <1>8 DEF Deliver

LEMMA EnvStays == ASSUME ClientInv, [Next]_vars PROVE UNCHANGED env
<1>1. ASSUME NEW t \in Tabs, User(t) PROVE UNCHANGED env
  BY <1>1 DEF User, OpenTab, SubmitLogin, SubmitRegister, Submit, LogOut, Leave, Refresh,
       ChooseSort, Delete, DeleteAll, PickFile, OnFiles, Touch
<1>2. ASSUME NEW t \in Tabs, Tab(t) PROVE UNCHANGED env
  BY <1>2 DEF Tab, ScriptRuns, Route, Enter, WriteToken
<1>3. ASSUME NEW m \in net, Deliver(m) PROVE UNCHANGED env
  BY <1>3 DEF Deliver, LoggedIn, Registered, Listed, Checked, Uploaded, Deleted, DeletedAll, Taken
<1> QED BY <1>1, <1>2, <1>3, ServeFacts DEF Next, vars, Expire

LEMMA IdentityNext == ClientInv /\ PatientInv /\ [Next]_vars => PatientInv'
<1> SUFFICES ASSUME ClientInv, IdentityInv, [Next]_vars, env.patient PROVE IdentityInv'
  <2>1. ClientInv /\ [Next]_vars => UNCHANGED env
    BY EnvStays
  <2> QED BY <2>1 DEF PatientInv
<1>1. TokensStay
  BY TokensLast
<1>2. ASSUME UNCHANGED <<page, who, cookie, net>> PROVE IdentityInv'
  <2>1. OneAtATime'
    BY <1>2 DEF OneAtATime, IdentityInv
  <2>2. ASSUME NEW u \in Tabs, page[u] = "files" PROVE issued'[who[u].token] = who[u].user
    <3>1. issued[who[u].token] = who[u].user /\ who[u].user \in Users /\ who[u].token \in Tokens
      BY <2>2 DEF IdentityInv, IssuedTo, ClientInv, SoundTab
    <3> QED BY <1>1, <3>1, AccountsAssumption DEF TokensStay
  <2>3. ASSUME NEW y \in net, y.op \notin FormReqs PROVE issued'[y.as.token] = y.as.user
    <3>1. issued[y.as.token] = y.as.user /\ y.as.user \in Users /\ y.as.token \in Tokens
      BY <2>3, NetTypes DEF IdentityInv, IssuedTo, Sound
    <3> QED BY <1>1, <3>1, AccountsAssumption DEF TokensStay
  <2>4. CookieSound => CookieSound'
    BY <1>1, <1>2, AccountsAssumption DEF CookieSound, TokensStay, Empty, NoToken
  <2> QED BY <1>2, <2>1, <2>2, <2>3, <2>4 DEF IdentityInv, IssuedTo, Writing
<1>3. CASE UNCHANGED vars \/ Expire
  BY <1>2, <1>3 DEF vars, Expire, form
<1>4. ASSUME NEW t \in Tabs, User(t) \/ Tab(t) PROVE IdentityInv'
  BY <1>4, UserKeepsIdentity, TabKeepsIdentity
<1>5. ASSUME NEW m \in net, Serve(m) \/ Lost(m) PROVE IdentityInv'
  BY <1>1, <1>5, ServeFacts, AnswersKeepIdentity DEF ServedAs, form
<1>6. ASSUME NEW m \in net, Deliver(m) PROVE IdentityInv'
  BY <1>1, <1>6, DeliverKeepsIdentity
<1> QED BY <1>3, <1>4, <1>5, <1>6 DEF Next

LEMMA PatientInvariant == Spec => []PatientInv
<1>1. Init => PatientInv
  BY IdentityInit DEF PatientInv
<1> QED BY <1>1, ClientInvariant, IdentityNext, PTL DEF Spec

(* Whatever goes to the server in a user's name carries a token made for him:
   users who wait for each tab never mix two accounts, however many tabs write the
   cookie and read it. *)
THEOREM AccountsApart == Spec => []OneIdentity
<1>1. ClientInv /\ PatientInv => OneIdentity
  <2> SUFFICES ASSUME ClientInv, PatientInv, env.patient, NEW m \in net, m.op \notin {"login", "register"}
               PROVE  m.as.token # NoToken /\ issued[m.as.token] = m.as.user
    BY DEF OneIdentity
  <2>1. issued[m.as.token] = m.as.user
    BY DEF PatientInv, IdentityInv, IssuedTo, FormReqs
  <2>2. m.as.token \in Tokens
    BY NetTypes DEF Sound, FormReqs
  <2> QED BY <2>1, <2>2, AccountsAssumption DEF NoToken
<1> QED BY <1>1, ClientInvariant, PatientInvariant, PTL

-----------------------------------------------------------------------------
(* Registration.  While nothing fails, the name that a handler found free is free
   when it inserts the row, because no other request is under way. *)
Reliable == env.patient /\ ~env.faulty
OnlyRow(u, pwd) ==
    /\ [user |-> u, pwd |-> pwd] \in user_info
    /\ \A r \in user_info : r.user = u => r.pwd = pwd
Vouched(m) ==
    /\ m.stage = "looked" => NameIsFree(m.as.user)
    /\ Answered(m) /\ m.code = 0 => OnlyRow(m.as.user, m.pwd)
RegisterInv ==
    /\ \A m \in net : m.op = "register" => Vouched(m)
    /\ \A a \in told : OnlyRow(a.user, a.pwd)

(* The table of users changes in one place only. *)
LEMMA UsersStay ==
    ASSUME ClientInv, [Next]_vars, \A m \in net : ~ServeRegister(m)
    PROVE  UNCHANGED user_info
<1> USE DEF server, accounts
<1>1. ASSUME NEW t \in Tabs, User(t) \/ Tab(t) PROVE UNCHANGED user_info
  BY <1>1 DEF User, Tab, OpenTab, SubmitLogin, SubmitRegister, Submit, LogOut, Leave, Refresh,
       ChooseSort, Delete, DeleteAll, PickFile, OnFiles, Touch, ScriptRuns, Route, Enter, WriteToken
<1>2. ASSUME NEW m \in net, Serve(m) PROVE UNCHANGED user_info
  BY <1>2 DEF Serve, ServeLogin, ServeList, ServeMd5, ServeUpload, ServeDelete, IssueToken
<1>3. ASSUME NEW m \in net, Deliver(m) \/ Lost(m) PROVE UNCHANGED user_info
  BY <1>3 DEF Deliver, LoggedIn, Registered, Listed, Checked, Uploaded, Deleted, DeletedAll, Taken, Lost
<1>4. CASE Expire
  BY <1>4 DEF Expire, ExpireToken
<1> QED BY <1>1, <1>2, <1>3, <1>4 DEF Next, vars

(* Requests that are sent on behalf of another are none of a form. *)
LEMMA AnswerFollows ==
    ASSUME ClientInv, NEW m \in net, Deliver(m)
    PROVE  \/ Forget(m)
           \/ \E n : /\ Become(m, n) /\ n \in Requests /\ SameSender(m, n) /\ n.op \in {"refresh", "upload"}
                     /\ n.op = "upload" => Checked(m) /\ Posts(m)
                     /\ n.stage = "sent" /\ n.code = 0
<1>1. CASE Checked(m) /\ Posts(m)
  <2>1. PICK n : n = Post(m)
    OBVIOUS
  <2>2. Followed(m, n, "upload") /\ Become(m, n)
    BY <1>1, <2>1, NetTypes, PostFacts, Parts DEF Checked
  <2> QED BY <1>1, <2>2 DEF Followed
<1>2. CASE ThenRefresh(m)
  BY <1>2, RefreshAfter
<1> QED BY <1>1, <1>2 DEF Deliver, LoggedIn, Registered, Listed, Checked, Uploaded, Deleted, DeletedAll

LEMMA ServeRegisterVouches ==
    ASSUME ClientInv, IdentityInv, RegisterInv, Reliable, NEW m \in net, Serve(m), ServeRegister(m)
    PROVE  RegisterInv'
<1>1. m \in Requests /\ m.op = "register" /\ Vouched(m) /\ UNCHANGED told
  BY NetTypes DEF RegisterInv, ServeRegister, Serve
<1>2. net = {m}
  BY <1>1, OnlyRequest DEF IdentityInv
<1>3. CASE UNCHANGED accounts /\ NameIsFree(m.as.user) /\ Become(m, [m EXCEPT !.stage = "looked"])
  <2>1. PICK n : n = [m EXCEPT !.stage = "looked"]
    OBVIOUS
  <2>2. n.stage = "looked" /\ n.as = m.as
    BY <1>1, <2>1 DEF Requests
  <2>3. net' = {n}
    BY <1>2, <1>3, <2>1 DEF Become
  <2>4. UNCHANGED user_info
    BY <1>3 DEF accounts
  <2> QED BY <1>1, <1>3, <2>2, <2>3, <2>4 DEF RegisterInv, Vouched, Answered, NameIsFree, OnlyRow
<1>4. CASE UNCHANGED accounts /\ Become(m, Reply(m, 2))
  <2>1. PICK n : n = Reply(m, 2)
    OBVIOUS
  <2>2. Replied(m, n, 2)
    BY <1>1, <2>1, ReplyFacts
  <2>3. net' = {n} /\ UNCHANGED user_info
    BY <1>2, <1>4, <2>1 DEF Become, accounts
  <2> QED BY <1>1, <2>2, <2>3 DEF RegisterInv, Vouched, Answered, OnlyRow, Replied
<1>5. CASE m.stage = "looked" /\ InsertUser(m.as.user, m.pwd) /\ Become(m, Reply(m, 0))
  <2>1. PICK n : n = Reply(m, 0)
    OBVIOUS
  <2>2. Replied(m, n, 0)
    BY <1>1, <2>1, ReplyFacts
  <2>3. net' = {n} /\ user_info' = user_info \cup {[user |-> m.as.user, pwd |-> m.pwd]}
    BY <1>2, <1>5, <2>1 DEF Become, InsertUser
  <2>4. \A r \in user_info : r.user # m.as.user
    BY <1>1, <1>5 DEF Vouched, NameIsFree
  <2>5. n.as = m.as /\ n.pwd = m.pwd /\ n.stage = "answered"
    BY <2>2 DEF Replied, SameSender
  <2>6. OnlyRow(m.as.user, m.pwd)'
    BY <2>3, <2>4 DEF OnlyRow
  <2>7. ASSUME NEW a \in told PROVE OnlyRow(a.user, a.pwd)'
    <3>1. OnlyRow(a.user, a.pwd)
      BY DEF RegisterInv
    <3>2. a.user # m.as.user
      BY <2>4, <3>1 DEF OnlyRow
    <3> QED BY <2>3, <3>1, <3>2 DEF OnlyRow
  <2> QED BY <1>1, <2>3, <2>5, <2>6, <2>7 DEF RegisterInv, Vouched
<1> QED BY <1>3, <1>4, <1>5 DEF ServeRegister, Reliable

LEMMA RegisterNext ==
    ASSUME ClientInv, PatientInv, Reliable => RegisterInv, [Next]_vars
    PROVE  (Reliable => RegisterInv)'
<1> SUFFICES ASSUME IdentityInv, RegisterInv, Reliable PROVE RegisterInv'
  BY EnvStays DEF Reliable, PatientInv
<1>1. ASSUME UNCHANGED <<user_info, told>>,
             \A n \in net' : n.op = "register" => n.stage = "sent" \/ n \in net
      PROVE  RegisterInv'
  BY <1>1 DEF RegisterInv, Vouched, Answered, NameIsFree, OnlyRow
<1>2. CASE UNCHANGED vars \/ Expire
  BY <1>1, <1>2 DEF vars, Expire, ExpireToken, server
<1>3. ASSUME NEW t \in Tabs, User(t) PROVE RegisterInv'
  <2>1. UserDoes(t)
    BY <1>3, QuietUser DEF Reliable
  <2>2. UNCHANGED <<user_info, told>>
    BY <1>3 DEF User, OpenTab, SubmitLogin, SubmitRegister, Submit, LogOut, Leave, Refresh,
         ChooseSort, Delete, DeleteAll, PickFile, OnFiles, Touch, server
  <2> QED BY <1>1, <2>1, <2>2 DEF UserDoes
<1>4. ASSUME NEW t \in Tabs, Tab(t) PROVE RegisterInv'
  <2>1. PICK n : n = [Request(t, "mount") EXCEPT !.as = cookie]
    OBVIOUS
  <2>2. n.op = "mount"
    BY <2>1 DEF Request
  <2>3. net' \subseteq net \cup {n} /\ UNCHANGED <<user_info, told>>
    BY <1>4, <2>1 DEF Tab, ScriptRuns, Route, Enter, WriteToken, server
  <2> QED BY <1>1, <2>2, <2>3
<1>5. ASSUME NEW m \in net, Serve(m) \/ Lost(m), ~ServeRegister(m) PROVE RegisterInv'
  <2>1. PICK n : ServedAs(m, n)
    BY <1>5, ServeFacts
  <2>2. UNCHANGED <<user_info, told>> /\ m.op # "register"
    <3>1. ~Lost(m)
      BY DEF Lost, Reliable
    <3> QED BY <1>5, <3>1 DEF Serve, ServeLogin, ServeList, ServeMd5, ServeUpload, ServeDelete,
                              IssueToken, server, accounts
  <2> QED BY <1>1, <2>1, <2>2 DEF ServedAs, Become
<1>6. ASSUME NEW m \in net, Registered(m) PROVE RegisterInv'
  <2>1. m.op = "register" /\ Vouched(m) /\ Answered(m) /\ net' \subseteq net /\ UNCHANGED user_info
    BY <1>6 DEF Registered, Taken, Forget, RegisterInv, server
  <2>2. \A x \in net' : x.op = "register" => Vouched(x)'
    BY <2>1 DEF RegisterInv, Vouched, NameIsFree, OnlyRow, Answered
  <2>3. CASE Confirmed(m)
    <3>1. told' = told \cup {[user |-> m.as.user, pwd |-> m.pwd]}
      BY <1>6, <2>3 DEF Registered
    <3>2. OnlyRow(m.as.user, m.pwd)
      BY <2>1, <2>3 DEF Vouched, Confirmed
    <3>3. ASSUME NEW a \in told' PROVE OnlyRow(a.user, a.pwd)'
      <4>1. OnlyRow(a.user, a.pwd)
        BY <3>1, <3>2 DEF RegisterInv
      <4> QED BY <2>1, <4>1 DEF OnlyRow
    <3> QED BY <2>2, <3>3 DEF RegisterInv
  <2>4. CASE ~Confirmed(m)
    BY <1>6, <2>1, <2>2, <2>4 DEF RegisterInv, Registered, OnlyRow
  <2> QED BY <2>3, <2>4
<1>7. ASSUME NEW m \in net, Deliver(m), ~Registered(m) PROVE RegisterInv'
  <2>1. UNCHANGED <<user_info, told>>
    BY <1>7 DEF Deliver, LoggedIn, Listed, Checked, Uploaded, Deleted, DeletedAll, Taken, server
  <2>2. \A x \in net' : x \in net \/ x.op # "register"
    BY <1>7, AnswerFollows DEF Forget, Become
  <2> QED BY <1>1, <2>1, <2>2
<1>8. ASSUME NEW m \in net, Serve(m) \/ Lost(m) PROVE RegisterInv'
  <2>1. ~Lost(m)
    BY DEF Lost, Reliable
  <2>2. CASE ServeRegister(m)
    BY <1>8, <2>1, <2>2, ServeRegisterVouches
  <2> QED BY <1>5, <1>8, <2>2
<1>9. ASSUME NEW m \in net, Deliver(m) PROVE RegisterInv'
  BY <1>6, <1>7, <1>9
<1>10. ASSUME NEW t \in Tabs, User(t) \/ Tab(t) PROVE RegisterInv'
  BY <1>3, <1>4, <1>10
<1> QED BY <1>2, <1>8, <1>9, <1>10 DEF Next

(* Who was told that he is registered can log in with his password, and nobody in
   his name with another one, whatever tabs and users register next to him. *)
THEOREM RegistrationHolds == Spec => []RegisteredCanLogIn
<1>1. Init => (Reliable => RegisterInv)
  BY DEF Init, RegisterInv
<1>2. ClientInv /\ PatientInv /\ (Reliable => RegisterInv) /\ [Next]_vars => (Reliable => RegisterInv)'
  BY RegisterNext
<1>3. (Reliable => RegisterInv) => RegisteredCanLogIn
  <2> SUFFICES ASSUME Reliable, RegisterInv, NEW a \in told
               PROVE  FirstRowHas(a.user, a.pwd) /\ ~FirstRowHasNot(a.user, a.pwd)
    BY DEF RegisteredCanLogIn, Reliable
  <2>1. OnlyRow(a.user, a.pwd)
    BY DEF RegisterInv
  <2> QED BY <2>1 DEF OnlyRow, FirstRowHas, FirstRowHasNot, NameIsFree
<1> QED BY <1>1, <1>2, <1>3, ClientInvariant, PatientInvariant, PTL DEF Spec

-----------------------------------------------------------------------------
(* The table of a page.  With one tab and no list sorted by downloads, what is under
   way will bring a list computed after the last change, or has been refused because
   the token is gone; and a token that is gone does not come back. *)
Simple == Reliable /\ Cardinality(env.tabs) = 1 /\ "sort" \notin env.ops
Renews(m) ==
    \/ m.op \in {"upload", "delete", "delete all"}
    \/ m.op \in {"mount", "refresh"} /\ (m.stage = "sent" \/ m.code = 0)
Coming == \E m \in net : Renews(m)
MsgFresh(m) ==
    /\ m.op \notin FormReqs => m.sort = "normal"
    /\ m.op \in {"upload", "delete", "delete all"} /\ Answered(m) => m.code # NoCode
    /\ m.op = "upload" /\ Answered(m) => m.code = 0
    /\ m.op \in {"mount", "refresh"} /\ Answered(m) =>
          \/ m.code = 0 /\ m.list = FilesOf(m.as.user)
          \/ m.code = 1 /\ ~VerifyToken(m.as.user, m.as.token)
Works(t) == page[t] = "files" /\ VerifyToken(who[t].user, who[t].token)
UpToDate(t) == Works(t) => Coming \/ table[t] = FilesOf(who[t].user)
FreshInv ==
    /\ \A t \in Tabs : sort[t] = "normal"
    /\ \A m \in net : MsgFresh(m)
    /\ \A t \in Tabs : UpToDate(t)

LEMMA DenialStays ==
    ASSUME ClientInv, [Next]_vars, NEW u \in Users, NEW k \in Tokens, issued[k] = u, ~VerifyToken(u, k)
    PROVE  ~VerifyToken(u, k)'
<1>1. k \notin alive /\ u # Nobody
  BY AccountsAssumption DEF VerifyToken
<1>2. ASSUME UNCHANGED alive PROVE k \notin alive'
  BY <1>1, <1>2
<1>3. ASSUME Expire PROVE k \notin alive'
  BY <1>1, <1>3 DEF Expire, ExpireToken
<1>4. ASSUME NEW t \in Tabs, User(t) \/ Tab(t) PROVE UNCHANGED alive
  BY <1>4 DEF User, Tab, OpenTab, SubmitLogin, SubmitRegister, Submit, LogOut, Leave, Refresh,
       ChooseSort, Delete, DeleteAll, PickFile, OnFiles, Touch, ScriptRuns, Route, Enter, WriteToken, server
<1>5. ASSUME NEW m \in net, Deliver(m) \/ Lost(m) PROVE UNCHANGED alive
  BY <1>5 DEF Deliver, LoggedIn, Registered, Listed, Checked, Uploaded, Deleted, DeletedAll, Taken, Lost, server
<1>6. ASSUME NEW m \in net, Serve(m), ~ServeLogin(m) PROVE UNCHANGED alive
  BY <1>6 DEF Serve, ServeRegister, ServeList, ServeMd5, ServeUpload, ServeDelete, InsertUser, accounts, server
<1>7. ASSUME NEW m \in net, ServeLogin(m) PROVE k \notin alive'
  BY <1>1, <1>7 DEF ServeLogin, IssueToken, FreshTokens, accounts
<1>8. k \notin alive'
  BY <1>2, <1>3, <1>4, <1>5, <1>6, <1>7 DEF Next, vars, server
<1> QED BY <1>8 DEF VerifyToken

(* A page that works after a step worked before, unless it has just been mounted. *)
LEMMA WorksBefore ==
    ASSUME ClientInv, IdentityInv, [Next]_vars, NEW t \in Tabs, page[t] = "files", who'[t] = who[t], Works(t)'
    PROVE  Works(t)
<1>1. who[t].user \in Users /\ who[t].token \in Tokens
  BY DEF ClientInv, SoundTab
<1>2. issued[who[t].token] = who[t].user
  BY DEF IdentityInv, IssuedTo
<1>3. PICK u \in Users, k \in Tokens : u = who[t].user /\ k = who[t].token
  BY <1>1
<1>4. VerifyToken(u, k)'
  BY <1>3 DEF Works
<1> QED BY <1>2, <1>3, <1>4, DenialStays DEF Works

LEMMA MessageStaysFresh ==
    ASSUME ClientInv, IdentityInv, [Next]_vars, NEW m \in net, MsgFresh(m),
           UNCHANGED user_file_list \/ m.op \notin {"mount", "refresh"}
    PROVE  MsgFresh(m)'
<1>1. CASE m.op \notin {"mount", "refresh"}
  BY <1>1 DEF MsgFresh, Answered
<1>2. CASE m.op \in {"mount", "refresh"} /\ UNCHANGED user_file_list
  <2>1. m.as.user \in Users /\ m.as.token \in Tokens /\ issued[m.as.token] = m.as.user
    BY <1>2, NetTypes DEF Sound, FormReqs, IdentityInv, IssuedTo
  <2>2. ~VerifyToken(m.as.user, m.as.token) => ~VerifyToken(m.as.user, m.as.token)'
    BY <2>1, DenialStays
  <2>3. FilesOf(m.as.user)' = FilesOf(m.as.user)
    BY <1>2 DEF FilesOf
  <2> QED BY <1>2, <2>2, <2>3 DEF MsgFresh, Answered
<1> QED BY <1>1, <1>2

(* Steps that leave the files of the users alone. *)
LEMMA FilesStand ==
    ASSUME ClientInv, IdentityInv, FreshInv, [Next]_vars, UNCHANGED user_file_list,
           \A t \in Tabs : sort'[t] = "normal",
           \A n \in net' : n \in net \/ n.op \in FormReqs \/ (n.sort = "normal" /\ n.stage = "sent") \/ MsgFresh(n)',
           Coming => Coming',
           \A t \in Tabs : page'[t] = "files" =>
               Coming' \/ (page[t] = "files" /\ who'[t] = who[t] /\ table'[t] = table[t])
    PROVE  FreshInv'
<1>1. ASSUME NEW n \in net' PROVE MsgFresh(n)'
  <2>1. n \in net => MsgFresh(n)'
    BY MessageStaysFresh DEF FreshInv
  <2>2. n \notin net => MsgFresh(n)'
    BY <1>1 DEF MsgFresh, Answered, FormReqs
  <2> QED BY <2>1, <2>2
<1>2. ASSUME NEW t \in Tabs, Works(t)', ~Coming' PROVE table'[t] = FilesOf(who[t].user)'
  <2>1. page[t] = "files" /\ who'[t] = who[t] /\ table'[t] = table[t]
    BY <1>2 DEF Works
  <2>2. table[t] = FilesOf(who[t].user)
    BY <1>2, <2>1, WorksBefore DEF FreshInv, UpToDate
  <2> QED BY <2>1, <2>2 DEF FilesOf
<1> QED BY <1>1, <1>2 DEF FreshInv, UpToDate

LEMMA OnlyTab ==
    ASSUME ClientInv, Simple
    PROVE  /\ \A t, u \in env.tabs : t = u
           /\ \A m \in net, t \in Tabs : page[t] # "closed" => m.tab = t
<1>1. env.tabs \subseteq Tabs
  BY ClientAssumption DEF ClientInv, TypeOK, Scenario
<1>2. IsFiniteSet(env.tabs)
  BY <1>1, ClientAssumption, FS_Subset
<1>3. PICK t : env.tabs = {t}
  BY <1>2, FS_Singleton DEF Simple
<1> QED BY <1>3, NetTypes DEF ClientInv, SoundTab, Sound

(* The page that works is the one the only request belongs to. *)
LEMMA ItsPage ==
    ASSUME ClientInv, IdentityInv, Simple, NEW m \in net, NEW t \in Tabs, page[t] = "files"
    PROVE  m.tab = t /\ m.op \notin FormReqs /\ m.live /\ m.as = who[t]
<1>1. m.tab = t
  BY OnlyTab
<1>2. m.op \notin FormReqs
  BY <1>1, NetTypes DEF Sound
<1>3. m.live
  BY DEF IdentityInv, OneAtATime
<1> QED BY <1>1, <1>2, <1>3, NetTypes DEF Sound

LEMMA UserKeepsFresh ==
    ASSUME ClientInv, IdentityInv, FreshInv, Simple, [Next]_vars, NEW t \in Tabs, User(t)
    PROVE  FreshInv'
<1>1. UserDoes(t) /\ net = {}
  BY QuietUser DEF Simple, Reliable
<1>2. UNCHANGED user_file_list
  BY DEF User, OpenTab, SubmitLogin, SubmitRegister, Submit, LogOut, Leave, Refresh,
         ChooseSort, Delete, DeleteAll, PickFile, OnFiles, Touch, server
<1>3. ~ChooseSort(t)
  BY DEF ChooseSort, OnFiles, Simple
<1>4. \A u \in Tabs : sort[u] = "normal" /\ sort'[u] = "normal"
  BY <1>3, Parts DEF FreshInv, TypeOK, User, OpenTab, SubmitLogin, SubmitRegister, Submit, LogOut, Leave, Refresh,
         Delete, DeleteAll, PickFile, OnFiles, Unmount, files
<1>5. \A u \in Tabs : page'[u] = "files" => page[u] = "files" /\ who'[u] = who[u] /\ table'[u] = table[u]
  <2>1. \A u \in Tabs : page'[u] = "files" => page[u] = "files" /\ who'[u] = who[u]
    BY <1>1 DEF UserDoes
  <2>2. UNCHANGED table \/ (Unmount(t) /\ page'[t] # "files")
    BY Parts DEF TypeOK, User, OpenTab, SubmitLogin, SubmitRegister, Submit, LogOut, ClearsName, Leave, Refresh,
         ChooseSort, Delete, DeleteAll, PickFile, OnFiles, Show, files
  <2>3. \A u \in Tabs : page'[u] = "files" => table'[u] = table[u]
    BY <2>2, Parts DEF TypeOK, Unmount
  <2> QED BY <2>1, <2>3
<1>6. \A n \in net' : n.sort = "normal" /\ n.stage = "sent"
  BY <1>1, <1>4 DEF UserDoes
<1>7. ~Coming
  BY <1>1 DEF Coming
<1> QED BY <1>2, <1>4, <1>5, <1>6, <1>7, FilesStand

LEMMA TabKeepsFresh ==
    ASSUME ClientInv, IdentityInv, FreshInv, Simple, [Next]_vars, NEW t \in Tabs, Tab(t)
    PROVE  FreshInv'
<1> USE DEF server, files
<1>1. page[t] \in Moving /\ UNCHANGED <<user_file_list, sort, table>>
      /\ \A u \in Tabs \ {t} : page'[u] = page[u] /\ who'[u] = who[u]
  BY Parts DEF Tab, ScriptRuns, Route, Enter, WriteToken, TypeOK, Moving, Show
<1>2. net = {}
  BY <1>1 DEF IdentityInv, OneAtATime
<1>3. PICK n : n = [Request(t, "mount") EXCEPT !.as = cookie]
  OBVIOUS
<1>4. n.op = "mount" /\ n.stage = "sent" /\ n.sort = "normal"
  BY <1>3 DEF Request, FreshInv
<1>5. net' \subseteq {n} /\ (page'[t] = "files" => n \in net')
  <2>0. DOMAIN page = Tabs
    BY Parts DEF TypeOK
  <2>1. CASE Route(t)
    BY <1>2, <1>3, <2>0, <2>1 DEF Route, Show
  <2>2. CASE ScriptRuns(t) \/ Enter(t) \/ WriteToken(t)
    BY <1>1, <1>2, <2>0, <2>2 DEF ScriptRuns, Enter, WriteToken, Show
  <2> QED BY <2>1, <2>2 DEF Tab
<1>6. page'[t] = "files" => Coming'
  BY <1>4, <1>5 DEF Coming, Renews
<1>7. ~Coming
  BY <1>2 DEF Coming
<1> QED BY <1>1, <1>4, <1>5, <1>6, <1>7, FilesStand DEF FreshInv

LEMMA ServeKeepsFresh ==
    ASSUME ClientInv, IdentityInv, FreshInv, Simple, [Next]_vars, NEW m \in net, Serve(m)
    PROVE  FreshInv'
<1>1. /\ m \in Requests /\ MsgFresh(m) /\ ~env.faulty
      /\ UNCHANGED <<form, files>>
  BY NetTypes DEF FreshInv, Simple, Reliable, Serve
<1>2. \A u \in Tabs : sort[u] = "normal" /\ sort'[u] = "normal"
  BY <1>1 DEF FreshInv, files
<1>3. UNCHANGED <<page, who, table>>
  BY <1>1 DEF form, files
<1>4. CASE m.op \in {"upload", "delete", "delete all"}
  <2>1. PICK c \in {0, 1} : Become(m, Reply(m, c)) /\ (m.op = "upload" => c = 0)
    BY <1>1, <1>4 DEF Serve, ServeRegister, ServeLogin, ServeList, ServeMd5, ServeUpload, ServeDelete
  <2>2. PICK n : n = Reply(m, c)
    OBVIOUS
  <2>3. Replied(m, n, c) /\ Become(m, n)
    BY <1>1, <2>1, <2>2, ReplyFacts
  <2>4. MsgFresh(n)' /\ Renews(n)
    <3>1. /\ n.op = m.op /\ n.sort \in {m.sort, sort[m.tab]} /\ n.stage = "answered" /\ n.code = c
      BY <2>3 DEF Replied, SameSender
    <3>2. m.sort = "normal" /\ sort[m.tab] = "normal"
      BY <1>1, <1>2, <1>4 DEF MsgFresh, FormReqs, Requests
    <3>3. c # NoCode
      BY DEF NoCode
    <3> QED BY <1>4, <2>1, <3>1, <3>2, <3>3 DEF MsgFresh, Answered, Renews
  <2>5. ASSUME NEW x \in net, x # m PROVE MsgFresh(x)'
    <3>1. x.op = "delete all"
      BY <2>5 DEF IdentityInv, OneAtATime, Alike
    <3> QED BY <3>1, MessageStaysFresh DEF FreshInv
  <2>6. Coming'
    BY <2>3, <2>4 DEF Coming, Become, Renews
  <2> QED BY <1>2, <2>3, <2>4, <2>5, <2>6 DEF FreshInv, UpToDate, Become
<1>5. CASE m.op \in FormReqs \cup {"md5"}
  <2>1. net = {m} /\ ~Renews(m) /\ UNCHANGED user_file_list
    BY <1>1, <1>5, OnlyRequest DEF IdentityInv, Renews, FormReqs, Serve, ServeRegister, ServeLogin, ServeList,
         ServeMd5, ServeUpload, ServeDelete, server
  <2>2. PICK n : ServedAs(m, n)
    BY ServeFacts
  <2>3. net' = {n} /\ n.op = m.op /\ n.sort \in {m.sort, sort[m.tab]}
    BY <2>1, <2>2 DEF ServedAs, Become, SameSender
  <2>6. sort[m.tab] = "normal"
    BY <1>1, <1>2 DEF Requests
  <2>4. n.op \in FormReqs \/ MsgFresh(n)'
    BY <1>1, <1>5, <2>3, <2>6 DEF MsgFresh, FormReqs
  <2>5. ~Coming
    BY <2>1 DEF Coming
  <2> QED BY <1>2, <1>3, <2>1, <2>3, <2>4, <2>5, FilesStand
<1>6. CASE m.op \in {"mount", "refresh"}
  <2>1. net = {m} /\ m.sort = "normal" /\ ServeList(m) /\ UNCHANGED server
    BY <1>1, <1>6, OnlyRequest DEF IdentityInv, MsgFresh, FormReqs, Serve, ServeRegister, ServeLogin, ServeList,
         ServeMd5, ServeUpload, ServeDelete
  <2>2. FilesOf(m.as.user)' = FilesOf(m.as.user)
        /\ VerifyToken(m.as.user, m.as.token)' = VerifyToken(m.as.user, m.as.token)
    BY <2>1 DEF server, FilesOf, VerifyToken
  <2>3. CASE Become(m, [Reply(m, 0) EXCEPT !.list = FilesOf(m.as.user)])
    <3>1. PICK l : l = FilesOf(m.as.user)
      OBVIOUS
    <3>2. PICK n : n = [Reply(m, 0) EXCEPT !.list = l]
      OBVIOUS
    <3>3. n.op = m.op /\ n.as = m.as /\ n.sort = m.sort /\ n.code = 0 /\ n.list = l
      BY <1>1, <3>2 DEF Reply, Requests
    <3>4. net' = {n}
      BY <2>1, <2>3, <3>1, <3>2 DEF Become
    <3>5. MsgFresh(n)' /\ Renews(n)
      BY <1>6, <2>1, <2>2, <3>1, <3>3 DEF MsgFresh, Renews
    <3>6. Coming'
      BY <3>4, <3>5 DEF Coming, Renews
    <3> QED BY <1>2, <3>4, <3>5, <3>6 DEF FreshInv, UpToDate
  <2>4. CASE Denied(m) /\ Become(m, Reply(m, 1))
    <3>1. PICK n : n = Reply(m, 1)
      OBVIOUS
    <3>2. Replied(m, n, 1) /\ net' = {n}
      BY <1>1, <2>1, <2>4, <3>1, ReplyFacts DEF Become
    <3>5. sort[m.tab] = "normal"
      BY <1>1, <1>2 DEF Requests
    <3>6. n.sort = "normal" /\ n.op = m.op /\ n.as = m.as /\ n.code = 1
      BY <2>1, <3>2, <3>5 DEF Replied, SameSender
    <3>3. MsgFresh(n)'
      BY <1>6, <2>2, <2>4, <3>6 DEF MsgFresh, Denied
    <3>4. ASSUME NEW u \in Tabs, Works(u)' PROVE FALSE
      <4>1. page[u] = "files"
        BY <1>3, <3>4 DEF Works
      <4>2. m.as = who[u]
        BY <4>1, ItsPage
      <4> QED BY <1>3, <2>2, <2>4, <3>4, <4>2 DEF Works, Denied
    <3> QED BY <1>2, <3>2, <3>3, <3>4 DEF FreshInv, UpToDate
  <2> QED BY <1>1, <2>1, <2>3, <2>4 DEF ServeList
<1> QED BY <1>1, <1>4, <1>5, <1>6 DEF Requests, FormReqs

LEMMA DeliverKeepsFresh ==
    ASSUME ClientInv, IdentityInv, FreshInv, Simple, [Next]_vars, NEW m \in net, Deliver(m)
    PROVE  FreshInv'
<1>1. m \in Requests /\ MsgFresh(m) /\ m.live = TRUE /\ Answered(m)
  BY NetTypes DEF FreshInv, IdentityInv, OneAtATime, Deliver, LoggedIn, Registered, Listed, Checked,
       Uploaded, Deleted, DeletedAll, Taken
<1>2. UNCHANGED <<user_file_list, sort>>
  BY DEF Deliver, LoggedIn, Registered, Listed, Checked, Uploaded, Deleted, DeletedAll, Taken, server, files
<1>3. \A u \in Tabs : sort[u] = "normal" /\ sort'[u] = "normal"
  BY <1>2 DEF FreshInv
<1>4. ASSUME NEW n, Become(m, n), SameSender(m, n), n.op \in {"refresh", "upload"}, n.stage = "sent",
             m.op \notin FormReqs
      PROVE  FreshInv'
  <2>1. n.sort = "normal" /\ Renews(n)
    <3>1. sort[m.tab] = "normal"
      BY <1>1, <1>3 DEF Requests
    <3> QED BY <1>1, <1>4, <3>1 DEF MsgFresh, SameSender, Renews
  <2>2. Coming'
    BY <1>4, <2>1 DEF Coming, Become, Renews
  <2> QED BY <1>2, <1>3, <1>4, <2>1, <2>2, FilesStand DEF Become
<1>5. ASSUME Forget(m), ~Renews(m) \/ Coming', UNCHANGED <<page, who, table>>
      PROVE  FreshInv'
  <2>1. Coming => Coming'
    BY <1>5 DEF Coming, Forget, Renews
  <2> QED BY <1>2, <1>3, <1>5, <2>1, FilesStand DEF Forget
<1>6. CASE LoggedIn(m)
  <2>1. ~Renews(m) /\ Forget(m) /\ m.op = "login"
    BY <1>6 DEF LoggedIn, Taken, Renews
  <2>2. CASE UNCHANGED <<page, who, cookie>>
    BY <1>5, <1>6, <2>1, <2>2 DEF LoggedIn, files
  <2>3. CASE page' = [page EXCEPT ![m.tab] = "log in"]
    <3>1. net = {m} /\ net' = {}
      BY <2>1, OnlyRequest DEF IdentityInv, Forget
    <3>2. ASSUME NEW u \in Tabs PROVE page'[u] # "files"
      <4>1. page[u] # "files"
        BY <2>1, ItsPage DEF FormReqs
      <4> QED BY <2>3, <4>1, Parts DEF TypeOK
    <3> QED BY <1>3, <3>1, <3>2 DEF FreshInv, UpToDate, Works
  <2> QED BY <1>6, <2>2, <2>3 DEF LoggedIn, Show
<1>7. CASE Registered(m)
  BY <1>5, <1>7 DEF Registered, Taken, Renews, files
<1>8. CASE Listed(m)
  <2>1. net = {m} /\ net' = {} /\ UNCHANGED <<page, who>> /\ m.op \in {"mount", "refresh"}
    BY <1>8, OnlyRequest DEF Listed, Taken, Forget, IdentityInv
  <2>2. ASSUME NEW u \in Tabs, Works(u)' PROVE table'[u] = FilesOf(who[u].user)'
    <3>1. page[u] = "files" /\ Works(u)
      BY <2>1, <2>2, WorksBefore DEF Works
    <3>2. m.tab = u /\ m.as = who[u]
      BY <3>1, ItsPage
    <3>3. m.code = 0 /\ m.list = FilesOf(who[u].user)
      BY <1>1, <2>1, <3>1, <3>2 DEF MsgFresh, Works
    <3>4. table' = [table EXCEPT ![u] = m.list]
      BY <1>1, <1>8, <3>2, <3>3 DEF Listed, NoCode
    <3>5. table'[u] = m.list
      BY <3>4, Parts DEF TypeOK
    <3> QED BY <1>2, <2>1, <3>3, <3>5 DEF FilesOf
  <2> QED BY <1>3, <2>1, <2>2 DEF FreshInv, UpToDate
<1>9. CASE Checked(m)
  <2>1. m.op = "md5" /\ ~Renews(m) /\ UNCHANGED <<page, who, table>>
    BY <1>9 DEF Checked, Taken, Renews
  <2> QED BY <1>4, <1>5, <1>9, <2>1, AnswerFollows DEF FormReqs
<1>10. CASE Uploaded(m) \/ Deleted(m)
  <2>1. ThenRefresh(m) /\ m.op \notin FormReqs
    BY <1>1, <1>10 DEF Uploaded, Deleted, Taken, MsgFresh, FormReqs
  <2> QED BY <1>4, <2>1, RefreshAfter
<1>11. CASE DeletedAll(m)
  <2>1. m.op = "delete all" /\ UNCHANGED <<page, who, table>>
    BY <1>11 DEF DeletedAll, Taken, files
  <2>2. CASE LastOfBatch(m)
    BY <1>4, <1>11, <2>1, <2>2, RefreshAfter DEF DeletedAll, FormReqs
  <2>3. CASE ~LastOfBatch(m)
    <3>1. PICK x \in net \ {m} : x.id = m.id
      BY <2>3 DEF LastOfBatch
    <3>2. x.op = "delete all" /\ net' = net \ {m}
      BY <1>11, <2>3, <3>1 DEF IdentityInv, OneAtATime, Alike, DeletedAll, Forget
    <3>3. Coming'
      BY <3>1, <3>2 DEF Coming, Renews
    <3> QED BY <1>5, <2>1, <3>2, <3>3 DEF Forget
  <2> QED BY <2>2, <2>3
<1> QED BY <1>6, <1>7, <1>8, <1>9, <1>10, <1>11 DEF Deliver

LEMMA FreshNext ==
    ASSUME ClientInv, PatientInv, Simple => FreshInv, [Next]_vars
    PROVE  (Simple => FreshInv)'
<1> SUFFICES ASSUME IdentityInv, FreshInv, Simple PROVE FreshInv'
  BY EnvStays DEF Simple, Reliable, PatientInv
<1>1. CASE UNCHANGED vars \/ Expire
  BY <1>1, FilesStand DEF vars, form, files, server, Expire, FreshInv, Coming, Renews
<1>2. ASSUME NEW t \in Tabs, User(t) \/ Tab(t) PROVE FreshInv'
  BY <1>2, UserKeepsFresh, TabKeepsFresh
<1>3. ASSUME NEW m \in net, Serve(m) \/ Lost(m) \/ Deliver(m) PROVE FreshInv'
  BY <1>3, ServeKeepsFresh, DeliverKeepsFresh DEF Lost, Simple, Reliable
<1> QED BY <1>1, <1>2, <1>3 DEF Next

(* A page at rest shows what the server has, whatever was uploaded and deleted and
   however the answers were timed. *)
THEOREM TableCatchesUp == Spec => []TableFresh
<1>1. Init => (Simple => FreshInv)
  BY DEF Init, FreshInv, UpToDate, Works
<1>2. ClientInv /\ PatientInv /\ (Simple => FreshInv) /\ [Next]_vars => (Simple => FreshInv)'
  BY FreshNext
<1>3. ClientInv /\ (Simple => FreshInv) => TableFresh
  <2> SUFFICES ASSUME ClientInv, Simple, FreshInv, net = {}, NEW t \in env.tabs, Works(t)
               PROVE  table[t] = FilesOf(who[t].user)
    BY DEF TableFresh, Simple, Reliable, Quiet, Works
  <2>1. t \in Tabs
    BY ClientAssumption DEF ClientInv, TypeOK, Scenario
  <2>2. ~Coming
    BY DEF Coming
  <2> QED BY <2>1, <2>2 DEF FreshInv, UpToDate
<1> QED BY <1>1, <1>2, <1>3, ClientInvariant, PatientInvariant, PTL DEF Spec

-----------------------------------------------------------------------------
(* Uploads.  Posting a file is what the answer to an md5 request does, and nothing
   else sends one. *)
NoNewUpload == \A n \in net' : n.op = "upload" => \E x \in net : x.op = "upload" /\ x.id = n.id

LEMMA UsersPostNothing ==
    ASSUME ClientInv, NEW t \in Tabs, User(t) \/ Tab(t)
    PROVE  NoNewUpload
<1> USE DEF files
<1>1. ASSUME UNCHANGED net PROVE NoNewUpload
  BY <1>1 DEF NoNewUpload
<1>2. ASSUME NEW N, net' = net \cup N, \A n \in N : n.op # "upload" PROVE NoNewUpload
  BY <1>2 DEF NoNewUpload
<1>3. ASSUME Unmount(t) PROVE NoNewUpload
  <2>1. net' = {Muted(m, t) : m \in net}
    BY <1>3 DEF Unmount, Muted
  <2> QED BY <2>1, NetTypes, MutedFacts DEF NoNewUpload
<1>4. ASSUME NEW n, net' = net \cup {n}, n.op # "upload" PROVE NoNewUpload
  BY <1>4 DEF NoNewUpload
<1>5. ASSUME NEW op \in {"register", "login"}, Submit(t, op) PROVE NoNewUpload
  <2>1. PICK u \in env.names, p \in Passwords :
            net' = net \cup {[Request(t, op) EXCEPT !.as.user = u, !.pwd = p]}
    BY <1>5 DEF Submit
  <2>2. PICK n : n = [Request(t, op) EXCEPT !.as.user = u, !.pwd = p]
    OBVIOUS
  <2>3. n.op = op
    BY <2>2 DEF Request
  <2> QED BY <1>4, <2>1, <2>2, <2>3
<1>6. \A op \in {"refresh", "delete", "delete all", "md5"} : \A f : Request(t, op).op = op /\ About(t, op, f).op = op
  BY DEF Request, About
<1>7. CASE Refresh(t)
  <2>1. PICK n : n = Request(t, "refresh")
    OBVIOUS
  <2>2. net' = net \cup {n} /\ n.op = "refresh"
    BY <1>6, <1>7, <2>1 DEF Refresh
  <2> QED BY <1>4, <2>2
<1>8. CASE Delete(t)
  <2>1. PICK f \in table[t] : net' = net \cup {About(t, "delete", f)}
    BY <1>8 DEF Delete
  <2>2. PICK n : n = About(t, "delete", f)
    OBVIOUS
  <2>3. n.op = "delete"
    BY <1>6, <2>2
  <2> QED BY <1>4, <2>1, <2>2, <2>3
<1>9. CASE DeleteAll(t)
  <2>1. PICK N : N = {About(t, "delete all", f) : f \in table[t]}
    OBVIOUS
  <2>2. \A n \in N : n.op = "delete all"
    BY <1>6, <2>1
  <2>3. net' = net \cup N
    BY <1>9, <2>1 DEF DeleteAll
  <2> QED BY <1>2, <2>2, <2>3
<1>10. CASE PickFile(t)
  <2>1. PICK f \in Files : net' = net \cup {About(t, "md5", f)} \/ UNCHANGED net
    BY <1>10 DEF PickFile
  <2>2. PICK n : n = About(t, "md5", f)
    OBVIOUS
  <2>3. n.op = "md5"
    BY <1>6, <2>2
  <2> QED BY <1>1, <1>4, <2>1, <2>2, <2>3
<1>11. CASE Route(t)
  <2>1. PICK n : n = [Request(t, "mount") EXCEPT !.as = cookie]
    OBVIOUS
  <2>2. n.op = "mount"
    BY <2>1 DEF Request
  <2>3. UNCHANGED net \/ net' = net \cup {n}
    BY <1>11, <2>1 DEF Route
  <2> QED BY <1>1, <1>4, <2>2, <2>3
<1>12. CASE OpenTab(t) \/ ChooseSort(t) \/ ScriptRuns(t) \/ Enter(t) \/ WriteToken(t)
  BY <1>1, <1>12 DEF OpenTab, ChooseSort, ScriptRuns, Enter, WriteToken
<1>13. CASE LogOut(t) \/ Leave(t)
  BY <1>3, <1>13 DEF LogOut, Leave
<1> QED BY <1>5, <1>7, <1>8, <1>9, <1>10, <1>11, <1>12, <1>13 DEF User, Tab, SubmitLogin, SubmitRegister

LEMMA ServerPostsNothing ==
    ASSUME ClientInv, NEW m \in net, Serve(m) \/ Lost(m)
    PROVE  NoNewUpload
<1>1. PICK n : ServedAs(m, n)
  BY ServeFacts
<1> QED BY <1>1 DEF ServedAs, Become, NoNewUpload

PostIsAsked ==
    \A m \in net' : Posted(m) =>
        /\ m.file \notin BigFiles /\ page[m.tab] = "files"
        /\ \E n \in net \ net' : n.op = "md5" /\ n.tab = m.tab /\ n.file = m.file /\ n.live /\ n.code = 1

LEMMA AnswersPostOnce ==
    ASSUME ClientInv, NEW m \in net, Deliver(m)
    PROVE  PostIsAsked
<1>1. CASE Checked(m) /\ Posts(m)
  <2>1. PICK n : n = Post(m)
    OBVIOUS
  <2>2. Followed(m, n, "upload") /\ net' = (net \ {m}) \cup {n}
    BY <1>1, <2>1, NetTypes, PostFacts, Parts DEF Checked, Become
  <2>3. m.op = "md5" /\ m.live /\ m.code = 1 /\ pick[m.tab][m.file] = "checking"
    BY <1>1 DEF Checked, Taken, Posts, Settled
  <2>4. n.tab = m.tab /\ n.file = m.file /\ n.op = "upload" /\ n # m
    BY <2>2, <2>3 DEF Followed, SameSender
  <2>5. m.file \notin BigFiles /\ page[m.tab] = "files"
    BY <2>3, NetTypes DEF ClientInv, SoundTab, Sound, FormReqs
  <2>6. m \in net \ net'
    BY <2>2, <2>4
  <2>7. \A x \in net' : Posted(x) => x = n
    BY <2>2 DEF Posted
  <2> QED BY <2>3, <2>4, <2>5, <2>6, <2>7 DEF PostIsAsked
<1>2. CASE ~(Checked(m) /\ Posts(m))
  <2>1. NoNewUpload
    BY <1>2, AnswerFollows DEF NoNewUpload, Forget, Become
  <2> QED BY <2>1 DEF NoNewUpload, PostIsAsked, Posted
<1> QED BY <1>1, <1>2

(* A file is sent only for a page that is still there, after the server said that it
   has to be, and never a big one: however often a file is picked, and whatever
   answers come late. *)
THEOREM UploadsAnswered == Spec => UploadsAreAsked
<1>1. ClientInv /\ [Next]_vars => [PostIsAsked]_vars
  <2> SUFFICES ASSUME ClientInv, Next PROVE PostIsAsked
    OBVIOUS
  <2>1. ASSUME NoNewUpload PROVE PostIsAsked
    BY <2>1 DEF NoNewUpload, PostIsAsked, Posted
  <2>2. CASE Expire
    BY <2>1, <2>2 DEF Expire, NoNewUpload
  <2>3. ASSUME NEW t \in Tabs, User(t) \/ Tab(t) PROVE PostIsAsked
    BY <2>1, <2>3, UsersPostNothing
  <2>4. ASSUME NEW m \in net, Serve(m) \/ Lost(m) PROVE PostIsAsked
    BY <2>1, <2>4, ServerPostsNothing
  <2>5. ASSUME NEW m \in net, Deliver(m) PROVE PostIsAsked
    BY <2>5, AnswersPostOnce
  <2> QED BY <2>2, <2>3, <2>4, <2>5 DEF Next
<1>2. [PostIsAsked]_vars <=>
      [\A m \in net' : Posted(m) =>
          /\ m.file \notin BigFiles /\ page[m.tab] = "files"
          /\ \E n \in net \ net' : n.op = "md5" /\ n.tab = m.tab /\ n.file = m.file /\ n.live /\ n.code = 1]_vars
  BY DEF PostIsAsked
<1> QED BY <1>1, <1>2, ClientInvariant, PTL DEF Spec, UploadsAreAsked

-----------------------------------------------------------------------------
(* Answers under way.  The answer to an md5 request settles the pick it was sent
   for, unless it is the answer of a call that failed. *)
WayInv == PageIsAnswered /\ (~env.faulty => \A m \in net : m.code # NoCode)

(* A step has to account for what pages begin to wait for and for the requests that
   it takes away. *)
LEMMA WayStep ==
    ASSUME WayInv, UNCHANGED env,
           \A t \in Tabs : loading'[t] => loading[t] \/ FormSent(t)',
           \A m \in net : m.op \in FormReqs => FormSent(m.tab)' \/ ~loading'[m.tab],
           ~env.faulty =>
               /\ \A t \in Tabs, f \in Files :
                    /\ pick'[t][f] = "checking" => pick[t][f] = "checking" \/ UnderWay(t, f, "md5")'
                    /\ pick'[t][f] = "uploading" => pick[t][f] = "uploading" \/ UnderWay(t, f, "upload")'
               /\ \A m \in net :
                    /\ m.op = "md5" /\ m.live =>
                         UnderWay(m.tab, m.file, "md5")' \/ pick'[m.tab][m.file] # "checking"
                    /\ m.op = "upload" /\ m.live =>
                         UnderWay(m.tab, m.file, "upload")' \/ pick'[m.tab][m.file] # "uploading"
               /\ \A n \in net' : n.code # NoCode
    PROVE  WayInv'
<1>1. ASSUME NEW t \in Tabs, loading'[t] PROVE FormSent(t)'
  <2> SUFFICES ASSUME loading[t] PROVE FormSent(t)'
    BY <1>1
  <2>1. PICK m \in net : m.tab = t /\ m.op \in FormReqs
    BY DEF WayInv, PageIsAnswered, FormSent, FormReqs
  <2> QED BY <1>1, <2>1
<1>2. ASSUME ~env.faulty, NEW t \in Tabs, NEW f \in Files, pick'[t][f] = "checking"
      PROVE  UnderWay(t, f, "md5")'
  <2> SUFFICES ASSUME pick[t][f] = "checking" PROVE UnderWay(t, f, "md5")'
    BY <1>2
  <2>1. PICK m \in net : m.live /\ m.tab = t /\ m.file = f /\ m.op = "md5"
    BY <1>2 DEF WayInv, PageIsAnswered, UnderWay
  <2> QED BY <1>2, <2>1
<1>3. ASSUME ~env.faulty, NEW t \in Tabs, NEW f \in Files, pick'[t][f] = "uploading"
      PROVE  UnderWay(t, f, "upload")'
  <2> SUFFICES ASSUME pick[t][f] = "uploading" PROVE UnderWay(t, f, "upload")'
    BY <1>3
  <2>1. PICK m \in net : m.live /\ m.tab = t /\ m.file = f /\ m.op = "upload"
    BY <1>3 DEF WayInv, PageIsAnswered, UnderWay
  <2> QED BY <1>3, <2>1
<1> QED BY <1>1, <1>2, <1>3 DEF WayInv, PageIsAnswered

(* A request in the net', or one that stands for it, is enough. *)
LEMMA StillSent ==
    ASSUME NEW m, NEW n \in net', n.tab = m.tab, n.op = m.op, n.file = m.file, n.live = m.live
    PROVE  /\ m.op \in FormReqs => FormSent(m.tab)'
           /\ m.live => UnderWay(m.tab, m.file, m.op)'
BY DEF FormSent, UnderWay, FormReqs

(* Users and tabs add requests; what a page waits for is among them. *)
LEMMA WayGrows ==
    ASSUME WayInv, UNCHANGED env, net \subseteq net', \A n \in net' \ net : n.code = 0,
           \A t \in Tabs : loading'[t] => loading[t] \/ FormSent(t)',
           ~env.faulty => \A t \in Tabs, f \in Files :
               \/ pick'[t][f] = pick[t][f] \/ pick'[t][f] = "refused"
               \/ pick'[t][f] = "checking" /\ UnderWay(t, f, "md5")'
    PROVE  WayInv'
<1>1. \A m \in net : /\ m.op \in FormReqs => FormSent(m.tab)'
                     /\ m.live => UnderWay(m.tab, m.file, m.op)'
  BY StillSent
<1>2. ~env.faulty => \A n \in net' : n.code # NoCode
  BY DEF WayInv, NoCode
<1> QED BY <1>1, <1>2, WayStep

LEMMA UserKeepsWay ==
    ASSUME ClientInv, WayInv, NEW t \in Tabs, User(t) \/ Tab(t), UNCHANGED env
    PROVE  WayInv'
<1> USE DEF files
<1>1. ASSUME UNCHANGED pick, net \subseteq net', \A n \in net' \ net : n.code = 0,
             \A u \in Tabs : loading'[u] => loading[u] \/ FormSent(u)'
      PROVE  WayInv'
  BY <1>1, WayGrows
<1>2. ASSUME NEW op \in {"register", "login"}, Submit(t, op) PROVE WayInv'
  <2>1. PICK u \in env.names, p \in Passwords :
            net' = net \cup {[Request(t, op) EXCEPT !.as.user = u, !.pwd = p]}
    BY <1>2 DEF Submit
  <2>2. PICK n : n = [Request(t, op) EXCEPT !.as.user = u, !.pwd = p]
    OBVIOUS
  <2>3. n.op = op /\ n.tab = t /\ n.code = 0
    BY <2>2 DEF Request
  <2>4. net' = net \cup {n}
    BY <2>1, <2>2
  <2>5. FormSent(t)'
    BY <2>3, <2>4 DEF FormSent
  <2>6. UNCHANGED pick /\ loading' = [loading EXCEPT ![t] = TRUE]
    BY <1>2 DEF Submit
  <2>7. \A v \in Tabs : loading'[v] => loading[v] \/ FormSent(v)'
    BY <2>5, <2>6, Parts DEF TypeOK
  <2> QED BY <1>1, <2>3, <2>4, <2>6, <2>7
<1>3. \A op, f : Request(t, op).code = 0 /\ About(t, op, f).code = 0
  BY DEF Request, About
<1>4. CASE Refresh(t) \/ Delete(t)
  <2>1. PICK n : net' = net \cup {n} /\ n.code = 0
    BY <1>3, <1>4 DEF Refresh, Delete
  <2>2. UNCHANGED <<pick, loading>>
    BY <1>4 DEF Refresh, Delete, OnFiles
  <2> QED BY <1>1, <2>1, <2>2
<1>5. CASE DeleteAll(t)
  <2>1. PICK N : N = {About(t, "delete all", f) : f \in table[t]}
    OBVIOUS
  <2>2. \A n \in N : n.code = 0
    BY <1>3, <2>1
  <2>3. net' = net \cup N /\ UNCHANGED <<pick, loading>>
    BY <1>5, <2>1 DEF DeleteAll, OnFiles
  <2> QED BY <1>1, <2>2, <2>3
<1>6. CASE Route(t)
  <2>1. PICK n : n = [Request(t, "mount") EXCEPT !.as = cookie]
    OBVIOUS
  <2>2. n.code = 0
    BY <2>1 DEF Request
  <2>3. UNCHANGED net \/ net' = net \cup {n}
    BY <1>6, <2>1 DEF Route
  <2>4. UNCHANGED <<pick, loading>>
    BY <1>6 DEF Route
  <2> QED BY <1>1, <2>2, <2>3, <2>4
<1>7. CASE OpenTab(t) \/ ChooseSort(t) \/ ScriptRuns(t) \/ WriteToken(t)
  <2>1. UNCHANGED <<net, pick, loading>>
    BY <1>7 DEF OpenTab, ChooseSort, OnFiles, ScriptRuns, WriteToken
  <2> QED BY <1>1, <2>1
<1>8. CASE Enter(t)
  <2>1. UNCHANGED <<net, pick>> /\ \A u \in Tabs : loading'[u] => loading[u]
    BY <1>8, Parts DEF Enter, TypeOK
  <2> QED BY <1>1, <2>1
<1>9. CASE PickFile(t)
  <2>1. PICK f \in Files :
            /\ pick' = [pick EXCEPT ![t][f] = IF f \in BigFiles THEN "refused" ELSE "checking"]
            /\ net' = net \cup {About(t, "md5", f)} \/ (env.faulty /\ UNCHANGED net)
    BY <1>9 DEF PickFile
  <2>2. PICK n : n = About(t, "md5", f)
    OBVIOUS
  <2>3. Sent(n, t, "md5") /\ n.file = f
    BY <2>2, AboutFacts, Parts DEF FileReqs
  <2>4. net \subseteq net' /\ (\A x \in net' \ net : x.code = 0) /\ (~env.faulty => n \in net')
    BY <2>1, <2>2, <2>3 DEF Sent
  <2>5. ~env.faulty => UnderWay(t, f, "md5")'
    BY <2>3, <2>4 DEF UnderWay, Sent
  <2>6. \A u \in Tabs, g \in Files :
            \/ pick'[u][g] = pick[u][g]
            \/ u = t /\ g = f /\ pick'[u][g] \in {"refused", "checking"}
    BY <2>1, Parts DEF TypeOK
  <2>7. UNCHANGED loading
    BY <1>9 DEF PickFile, OnFiles
  <2> QED BY <2>4, <2>5, <2>6, <2>7, WayGrows
<1>10. CASE LogOut(t) \/ Leave(t)
  <2>1. net' = {Muted(m, t) : m \in net} /\ UNCHANGED loading /\ pick' = [pick EXCEPT ![t] = NoPicks]
    BY <1>10 DEF LogOut, Leave, Unmount, Muted
  <2>2. ASSUME NEW m \in net
        PROVE  /\ m.op \in FormReqs => FormSent(m.tab)'
               /\ m.live /\ m.tab # t => UnderWay(m.tab, m.file, m.op)'
    <3>1. Muted(m, t) \in net'
      BY <2>1
    <3>2. /\ Muted(m, t).tab = m.tab /\ Muted(m, t).op = m.op /\ Muted(m, t).file = m.file
          /\ Muted(m, t).live = (m.live /\ m.tab # t)
      BY NetTypes, MutedFacts
    <3> QED BY <3>1, <3>2 DEF FormSent, UnderWay, FormReqs
  <2>3. \A u \in Tabs, f \in Files : pick'[u][f] = IF u = t THEN "none" ELSE pick[u][f]
    BY <2>1, Parts DEF TypeOK, NoPicks
  <2>4. ~env.faulty => \A n \in net' : n.code # NoCode
    BY <2>1, NetTypes, MutedFacts DEF WayInv
  <2>5. \A m \in net : m.tab \in Tabs /\ (m.op \in {"md5", "upload"} => m.file \in Files)
    BY NetTypes DEF Sound, FileReqs
  <2> QED BY <2>1, <2>2, <2>3, <2>4, <2>5, WayStep
<1> QED BY <1>2, <1>4, <1>5, <1>6, <1>7, <1>8, <1>9, <1>10 DEF User, Tab, SubmitLogin, SubmitRegister

LEMMA ServerKeepsWay ==
    ASSUME ClientInv, WayInv, NEW m \in net, Serve(m) \/ Lost(m)
    PROVE  WayInv'
<1>1. UNCHANGED <<env, loading, pick>>
  BY ServeFacts DEF form, files
<1>2. PICK n : ServedAs(m, n)
  BY ServeFacts
<1>3. net' = (net \ {m}) \cup {n}
  BY <1>2 DEF ServedAs, Become
<1>4. n.tab = m.tab /\ n.op = m.op /\ n.file = m.file /\ n.live = m.live
  BY <1>2 DEF ServedAs, SameSender
<1>5. ASSUME NEW x \in net
      PROVE  /\ x.op \in FormReqs => FormSent(x.tab)'
             /\ x.live => UnderWay(x.tab, x.file, x.op)'
  <2>1. CASE x = m
    BY <1>3, <1>4, <2>1, StillSent
  <2>2. CASE x # m
    BY <1>3, <2>2, StillSent
  <2> QED BY <2>1, <2>2
<1>6. ~env.faulty => \A x \in net' : x.code # NoCode
  BY <1>2, <1>3 DEF WayInv, ServedAs
<1> QED BY <1>1, <1>5, <1>6, WayStep

LEMMA AnswersKeepWay ==
    ASSUME ClientInv, WayInv, NEW m \in net, Deliver(m)
    PROVE  WayInv'
<1>1. m.tab \in Tabs /\ (m.op \in {"md5", "upload"} => m.file \in Files)
  BY NetTypes DEF Sound, FileReqs
<1>2. UNCHANGED env
  BY DEF Deliver, LoggedIn, Registered, Listed, Checked, Uploaded, Deleted, DeletedAll, Taken
<1>3. (net \ {m} \subseteq net') /\ (\A n \in net' \ net : n.code = 0)
  BY AnswerFollows DEF Forget, Become
<1>4. \A x \in net \ {m} : /\ x.op \in FormReqs => FormSent(x.tab)'
                           /\ x.live => UnderWay(x.tab, x.file, x.op)'
  BY <1>3, StillSent
<1>5. ~env.faulty => \A n \in net' : n.code # NoCode
  BY <1>3 DEF WayInv, NoCode
<1>6. ASSUME m.op \notin FormReqs => UNCHANGED loading,
             m.op \in FormReqs => loading' = Released(m),
             m.op \notin {"md5", "upload"} => UNCHANGED pick,
             m.op \in {"md5", "upload"} /\ ~env.faulty =>
                 /\ \A t \in Tabs, f \in Files :
                      /\ pick'[t][f] = "checking" => pick[t][f] = "checking"
                      /\ pick'[t][f] = "uploading" =>
                           pick[t][f] = "uploading" \/ UnderWay(t, f, "upload")'
                 /\ m.op = "md5" /\ m.live => pick'[m.tab][m.file] # "checking"
                 /\ m.op = "upload" /\ m.live => pick'[m.tab][m.file] # "uploading"
      PROVE  WayInv'
  <2>1. \A t \in Tabs : loading'[t] => loading[t]
    BY <1>1, <1>6, Parts DEF Released, TypeOK
  <2>2. m.op \in FormReqs => ~loading'[m.tab]
    BY <1>1, <1>6, Parts DEF Released, TypeOK
  <2> QED BY <1>2, <1>4, <1>5, <1>6, <2>1, <2>2, WayStep
<1>7. CASE LoggedIn(m) \/ Registered(m)
  BY <1>6, <1>7 DEF LoggedIn, Registered, Taken, FormReqs, files
<1>8. CASE Listed(m) \/ Deleted(m) \/ DeletedAll(m)
  BY <1>6, <1>8 DEF Listed, Deleted, DeletedAll, Taken, FormReqs, files
<1>9. CASE Checked(m)
  <2>1. m.op = "md5" /\ UNCHANGED loading
    BY <1>9 DEF Checked, Taken
  <2>2. CASE Posts(m)
    <3>1. PICK n : n = Post(m)
      OBVIOUS
    <3>2. Followed(m, n, "upload") /\ n \in net' /\ m.live
      BY <1>9, <2>2, <3>1, NetTypes, PostFacts, Parts DEF Checked, Become, Posts
    <3>3. UnderWay(m.tab, m.file, "upload")'
      BY <3>2 DEF Followed, SameSender, UnderWay
    <3>4. pick' = [pick EXCEPT ![m.tab][m.file] = "uploading"]
      BY <1>9, <2>2 DEF Checked
    <3>5. \A t \in Tabs, f \in Files :
              IF t = m.tab /\ f = m.file THEN pick'[t][f] = "uploading" ELSE pick'[t][f] = pick[t][f]
      BY <1>1, <3>4, Parts DEF TypeOK
    <3> QED BY <1>1, <1>6, <2>1, <3>3, <3>5 DEF FormReqs
  <2>3. CASE ~Posts(m) /\ Refuses(m)
    <3>1. pick' = [pick EXCEPT ![m.tab][m.file] = "refused"]
      BY <1>9, <2>3 DEF Checked
    <3>2. \A t \in Tabs, f \in Files :
              IF t = m.tab /\ f = m.file THEN pick'[t][f] = "refused" ELSE pick'[t][f] = pick[t][f]
      BY <1>1, <2>1, <3>1, Parts DEF TypeOK
    <3> QED BY <1>1, <1>6, <2>1, <3>2 DEF FormReqs
  <2>4. CASE ~Posts(m) /\ ~Refuses(m)
    <3>1. UNCHANGED pick
      BY <1>9, <2>4 DEF Checked
    <3>2. ~env.faulty /\ m.live => pick[m.tab][m.file] # "checking"
      BY <2>4 DEF Refuses, Settled, WayInv
    <3> QED BY <1>6, <2>1, <3>1, <3>2 DEF FormReqs
  <2> QED BY <2>2, <2>3, <2>4
<1>10. CASE Uploaded(m)
  <2>1. m.op = "upload" /\ UNCHANGED loading
    BY <1>10 DEF Uploaded, Taken
  <2>2. CASE m.live
    <3>1. PICK end \in {"done", "failed"} : pick' = [pick EXCEPT ![m.tab][m.file] = end]
      BY <1>10, <2>2 DEF Uploaded
    <3>2. \A t \in Tabs, f \in Files :
              IF t = m.tab /\ f = m.file THEN pick'[t][f] = end ELSE pick'[t][f] = pick[t][f]
      BY <1>1, <2>1, <3>1, Parts DEF TypeOK
    <3> QED BY <1>1, <1>6, <2>1, <3>2 DEF FormReqs
  <2>3. CASE ~m.live
    <3>1. UNCHANGED pick
      BY <1>10, <2>3 DEF Uploaded
    <3> QED BY <1>6, <2>1, <2>3, <3>1 DEF FormReqs
  <2> QED BY <2>2, <2>3
<1> QED BY <1>7, <1>8, <1>9, <1>10 DEF Deliver

LEMMA WayNext ==
    ASSUME ClientInv, WayInv, [Next]_vars
    PROVE  WayInv'
<1>1. CASE UNCHANGED vars \/ Expire
  <2>1. UNCHANGED <<env, loading, pick, net>>
    BY <1>1 DEF vars, Expire, form, files
  <2> QED BY <2>1 DEF WayInv, PageIsAnswered, FormSent, UnderWay
<1>2. ASSUME NEW t \in Tabs, User(t) \/ Tab(t) PROVE WayInv'
  BY <1>2, UserKeepsWay, EnvStays
<1>3. ASSUME NEW m \in net, Serve(m) \/ Lost(m) PROVE WayInv'
  BY <1>3, ServerKeepsWay
<1>4. ASSUME NEW m \in net, Deliver(m) PROVE WayInv'
  BY <1>4, AnswersKeepWay
<1> QED BY <1>1, <1>2, <1>3, <1>4 DEF Next

(* No page waits for an answer that nobody will give: a form that waits has its
   request under way, whatever fails, and so has each picked file as long as requests
   do not fail, with impatient users and pages that are left too. *)
THEOREM AnswersUnderWay == Spec => []PageIsAnswered
<1>1. Init => WayInv
  BY DEF Init, WayInv, PageIsAnswered, NoPicks
<1>2. ClientInv /\ WayInv /\ [Next]_vars => WayInv'
  BY WayNext
<1>3. WayInv => PageIsAnswered
  BY DEF WayInv
<1> QED BY <1>1, <1>2, <1>3, ClientInvariant, PTL DEF Spec
=============================================================================
