# A verification development for the sharefile server

TLA+ modules, TLC configurations and TLAPS proofs for the file-sharing server
under `src/sharefile-src/sharefile` (C++ on the muduo network library, with MySQL,
redis and FastDFS behind it) and for its web front end, of which the repository
has the built files under `src/sharefile-front/static/js`. Paths below are relative
to `src/sharefile-src/` unless they start with `src/`.

Contents: 1 inventory, 2 hard behaviours, 3 what makes each component correct,
4 modules, 5 runs, 6 fairness, 7 proofs, 8 disagreements between code and
comments, 9 what is not modelled, 10 plan.

## 1. Inventory

The server is one process. muduo's I/O threads (4 in `tc_http_server.conf`) read
requests and hand each to a pool of 64 worker threads; a worker runs a handler
from beginning to end, with blocking MySQL statements, redis commands and
FastDFS tools, and sends the answer. Beside the workers run a thread that
refreshes the cached ranking list every 10 s, one that runs queued cache updates,
one that drops expired entries every minute, one that writes the cache to a file,
the short-URL RPC server and the short-URL web service. No handler uses a
transaction; the only lock between handlers is `FileInfoLock`.

| Component | State it keeps | Operations | Interacts with |
|---|---|---|---|
| File life cycle: `sharefile/api/api_upload.cc`, `api_md5.cc`, `api_deal_sharefile.cc` (save), `api_dealfile.cc` (delete) | tables `file_info` (md5, file_id, count) and `user_file_list`, objects in FastDFS | upload, instant upload (md5), save, delete | MySQL pools, FileInfoLock, FastDFS |
| FileInfoLock: `api_common.h` | `locked_`, `stop_`, waiting threads | TryLockFor, Unlock, StopWaiting, Reset | handlers that change `file_info.count` |
| Connection pools: `mysql/db_pool.cc`, `redis/cache_pool.cc` | free list, connection count, waiting threads | Init, GetDBConn/GetCacheConn, RelDBConn/RelCacheConn | every handler; handlers nest acquisitions |
| KVStore, the first-level cache: `api_common.h` | map from keys to values and deadlines, use order, task queue, worker and cleaner threads, the file it persists to | get, set, asyncSet, deleteKeysWithPrefix, cleanExpiredKeys, persistToFile, loadFromFile | ranking handlers, timers of `main.cc` |
| Sharing and ranking: `api_dealfile.cc` (share, delete), `api_deal_sharefile.cc` (cancel, pv), `api_sharefiles.cc`, `main.cc` | table `share_file_list`, `shared_status`, a redis sorted set and hash, entries `ranking_list_*` of KVStore | share, cancel, delete, count a download, ranking list, periodic refresh | MySQL, redis, KVStore |
| HTTP connections: `http_conn.cc`, `main.cc`, `http_parser_wrapper.cc` | input buffer, parser state, map of connections | onConnection, onMessage, OnRead, dispatch, send | muduo connections, thread pool, handlers |
| Accounts: `api_register.cc`, `api_login.cc`, `api_common.cc` | table `user_info`, tokens in redis | register, login, VerifyToken | MySQL, redis |
| Shared pictures: `api_sharepicture.cc` | table `share_picture_list` | share, browse, list, cancel | MySQL, short-URL RPC |
| Short URLs: `shortulr_rpc_server.cc`, `shorturl_rpc_client.cc`, `shorturl_web_service.cc` | redis keys and table `short_url_map` | convert, resolve | RPC thread, MySQL, redis |
| My files: `api_myfiles.cc`, `api_sharefiles.cc` | none of its own (reads) | count, list | MySQL slave pool |
| Front end: `main.41773419.chunk.js`, `runtime-main.*.js`, the upload component of `2.*.chunk.js` | per tab its page, table and picked files; the cookie all tabs share; requests under way | load, register, log in, log out, list, pick, upload, delete | the server's handlers, by HTTP |
| Thread pool: `muduo/base/ThreadPool.cc` | queue, running flag, threads | start, stop, run, take | HTTP layer |
| Connections and loops: `muduo/net` | connection states, buffers, functor queues | send, shutdown, handleRead/Write/Close, runInLoop | HTTP layer |
| Helpers: `base/util.cc`, `base/config_file_reader.cc`, `api_common.cc` | none | parsing, trimming, splitting | all |

Third-party or generated and left aside: `http_parser.cc`, hiredis under
`sharefile/redis`, `shorturl_rpc.pb.*`, `client/httplib.h`, the logging, time zone
and inspection parts of muduo, `src/wrk`, the built front end.

## 2. Hard behaviours

- **Statements interleave.** A handler is a sequence of SQL statements and redis
  commands; any other handler can run between two of them, on the same rows.
- **State read earlier is used later**: a reference count read under the lock and
  used after it, a download count read and written back, a row looked for and then
  inserted, a cached list computed from data that has changed.
- **Partial failure.** Each statement can fail, and the handler then returns with
  the earlier ones done. The process can die between any two.
- **Timeouts.** FileInfoLock is waited for one second at most; redis connections
  can be waited for with a deadline. A deadline can pass while the lock or the
  connection is being handed over.
- **Condition variables**: barging threads, spurious wake-ups, notifications that
  go to the wrong waiter or come before the wait.
- **Nested acquisitions.** Handlers hold a connection of one pool while they wait,
  without a deadline, for another one of the same or a different pool, or for the
  one-threaded RPC server that needs connections itself.
- **Two copies of one truth**: `share_file_list` against the redis sorted set and
  hash, both against the cached answer, which two kinds of threads write.
- **Bytes and threads**: a request comes in pieces, each piece hands the connection
  to the thread pool, the I/O thread goes on appending to the buffer a worker parses,
  and the peer can leave while an answer is on its way.
- **Tabs and answers**: tabs share a cookie written in two halves, answers come in
  another order than their requests, or for a page that is gone.
- **Restart**: redis loses its data, or the process its cache.

## 3. What makes each component correct

- File life cycle: a count never below the references it stands for, no owned file
  without its object, no object that nothing can free, every request answered.
- FileInfoLock: one holder; a call refused only while somebody else holds the lock;
  no waiter asleep on a free lock; every call returns.
- Pools: a connection has one user; none is lost; never more than the maximum; no
  thread asleep that a free connection could serve; nested waits are never circular.
- KVStore: it is a least-recently-used cache; its map and list agree; queued
  updates run; start-up ends.
- Sharing: one sharer per file; the ranking shows shared files only, with names
  and with no more downloads than counted; what redis loses comes back.
- HTTP and thread pool: a request is handled once and whole, and by one thread at a
  time; it is answered; a connection lives while it is used and goes when it was
  closed; no task is left to sleeping threads.
- Accounts: who was told that he is registered can log in, and with no other
  password; a token goes with the user it was issued to.
- Front end: requests carry one identity; the table shows what the server has; a
  file is sent only when the server asked for it; redirects and uploads end.
- Pictures and short URLs: a key that was returned is stored and leads to its own
  picture; a map from keys to URLs that only grows; no view is lost and no count
  shown that the row has not reached; who waits for the
  one RPC server or the one web service is answered.

## 4. Modules

| Module | Models | Lines of code it stands for |
|---|---|---|
| `FileStore` (with `MCFileStore`) | file life cycle | `api_upload.cc` 7-455, `api_md5.cc` 61-169, `api_deal_sharefile.cc` 120-201, `api_dealfile.cc` 141-281 |
| `TimedLock` | what a lock with a bounded wait promises | abstract |
| `FileInfoLock` | the class and its guard | `api_common.h` 150-235 |
| `BoundedPool` | what a pool promises | abstract |
| `ConnPool` | both pools | `db_pool.cc` 344-475, 562-580, `cache_pool.cc` 903-977 |
| `HandlerPools` | the nesting of acquisitions in all handlers | the acquisitions of 12 handlers and threads |
| `LRUCache` | what the cache promises | abstract |
| `KVStore` | the cache with its threads and its file | `api_common.h` 239-442 |
| `Sharing` (with `MCSharing`) | sharing and ranking list | `api_dealfile.cc` 50-217, `api_deal_sharefile.cc` 47-281, `api_sharefiles.cc` 130-277, `main.cc` 100-183 |
| `Accounts` | `user_info` and tokens, statement by statement | `api_register.cc`, `api_login.cc`, `api_common.cc` (VerifyToken) |
| `Client` (with `MCClient`) | tabs, cookie and requests of the front end, and the server's answers | `main.41773419.chunk.js`, the loader in `runtime-main.*.js`, the upload component in `2.*.chunk.js` |
| `ThreadPool` | queue and threads | `muduo/base/ThreadPool.cc` |
| `Http` (with `MCHttp`) | from a segment to an answer | `http_conn.cc`, `main.cc`, `http_parser_wrapper.cc`, `TcpConnection.cc`, `TcpServer.cc`, `EventLoop.cc` |
| `LinkMap` | what a service for short URLs promises | abstract |
| `Links` (with `MCLinks`) | shared pictures, RPC server and client, web service | `api_sharepicture.cc` 43-230, 387-409, `shortulr_rpc_server.cc` 178-373, `shorturl_rpc_client.cc` 13-88, `shorturl_web_service.cc` 53-85 |
| `FileStoreProofs`, `KVStoreProofs`, `SharingProofs`, `FileInfoLockProofs`, `PoolProofs` (of `ConnPool` and `HandlerPools`), `ClientProofs`, `HttpProofs`, `LinksProofs` | proofs | |

How they fit together:

    FileStore     --uses-->  TimedLock    <--implements--  FileInfoLock
    HandlerPools  --uses-->  BoundedPool  <--implements--  ConnPool
    Sharing       --uses-->  KVStore      --implements-->  LRUCache
    Links         --implements--> LinkMap
    Client        --extends--> Accounts       Http  --extends--> ThreadPool

The four "implements" arrows are refinements that TLC checks and TLAPS proves. Of the "uses" arrows the first is checked, and proved for as long
as the process lives: `UsesTimedLock` says that the handlers of `FileStore` move as
`TimedLock` allows and rely on nothing else. In
`HandlerPools` a pool is the counter that `BoundedPool` makes of it, and in
`Sharing` the cache is one entry that is set, dropped or expires.

**FileStore.** The variables are the two tables, the set of FastDFS objects, the
holder of FileInfoLock, and per worker the next step, the request and the local
variables that survive a step (`fileid`, `count`, `file_exsit`, `ret`). A step is
one SQL statement, one FastDFS command or one lock operation with everything the
handler does up to the next one. `Faults` says what can go wrong: queries,
inserts, updates, deletes, the FastDFS commands, the death of the process; a
statement that may fail has a disjunct for the failure with the code's error path.
What happens in the redis ranking during a delete is in `Sharing`.

**FileInfoLock.** `locked_` and `stop_` as in the class, and per thread where it
stands in `TryLockFor`. A step is a critical section of the mutex or one move
between the queues of the condition variable, spurious wake-ups included. The
deadline can pass at any time while a thread waits. `Unlock` is called by the
holder only, as the guard class does; `Reset`, which nothing calls, only on a
free lock.

**ConnPool.** The two pools are the same algorithm with different types. The free
list, the number of open connections, and per thread its place, the kind of call
and the connection it uses. Opening a connection can fail. `abort_request_` is
left out: no pool is ever destroyed.

**HandlerPools.** Each handler is the chain of resources it takes, in the order of
the code, and a thread holds a prefix of its chain. The RPC server is a resource
of one unit whose holder takes the connections the server takes for it. The
assumption on sizes is what the configuration guarantees: 128 slave connections
for 64 workers. Its formulas have names of their own (`HandlersSpec`, `handlerVars`),
because `PoolProofs` extends it together with `ConnPool`.

**KVStore.** Map, use order, clock, task queue, the state of the worker, pending
notifications, the file, and the phase of `main`. Values are opaque; what matters
of their text is that it spans lines, which is why `loadFromFile` finds no line
with three fields. Clock, queue length and TTL are bounded.

**Sharing.** The two tables, the sorted set with its scores, the names in the hash,
the cached answer, the queued cache updates, and per thread its step, request and
locals. One page of the list stands for all. ZLEXCOUNT, which the code asks
whether a member exists, answers as meant only when all scores are equal. With
different scores it may miss a member that is there and, with three members or more,
count others with it (`ZsetExit`): an answer above 1 ends a download with an error
after MySQL has counted it (`api_deal_sharefile.cc` 273), and lets a second share of a
file go on.

**Accounts and Client.** `Accounts` has one definition per statement or command;
`Client` makes the handlers of them and lets them interleave. A request under way is
a record: the tab that waits for it, whether the part of the page that made it is
still mounted (`live`), the user and token it carries, how far the handler is, the
answer. Answers come in any order. A user touches a tab (`Touch`), patient users only
when nothing is under way; what the tab does by itself (scripts, redirects, the second
half of writing the cookie) are steps of their own. Uploads and deletions are
requests to the `FileStore`, of which only the user's own rows matter here. One page
of the table stands for all, the forms for registration and login are one page,
and selecting for a batch selects the whole table. In a tab one pick of a file is under
way at a time (`OnePick`): the page has no such guard, but `pick` keeps one state per
file. The modules that the runtime could load lazily are never asked for.

**ThreadPool and Http.** A critical section of the pool's mutex is a step. One I/O
loop stands for the four, because connections share only the map of connections and
the pool; the base loop accepts and removes connections. The functors that wait for a
loop are a sequence. Between `take` and the end of the task a worker goes through
OnRead in the steps between which another thread can change something: look at the
buffer, reset the parser, execute it, test for completeness and run the handler, test
the state in `send`, queue the functor. The input buffer is never drained (nothing
calls `retrieve`), so each OnRead parses it from the beginning. When two workers are
in one parser, or the buffer grows under a worker, the outcome of the parse is any
(`Races`). Who keeps a connection alive is not a variable: `Held` says which
`shared_ptr`s there are, and a connection that none of them holds is `Destroyed`. A
connection carries one request.

**Links.** A worker shares, browses or cancels a picture; a share inserts its row,
appends itself to the listen queue of the RPC server (`backlog`) and waits in `read`
until `answer` holds what the server sent. The server thread takes one request at a
time from the queue: find a key that is not in redis, set it, insert the row of
`short_url_map`, send. The web service does the same for its visitors (`queue`): read
the request, look in redis, fall back to MySQL, answer. `redis` and `short_url_map`
survive `ProcessDies`, which resets everything else. Abstracted: the codes and texts
of answers, the paged list of pictures (it changes nothing), and the loop that tries
random keys until one is free, which is one choice among the keys that `Get` does not
find. Two variables record what left the system: `given` is the key that the RPC returned
to a share, which the code only logs, and `told` the counts that the visitors of a picture
were shown (`BrowseReply`). A
full URL is the picture it shows, or `Junk` for any other string. The fallback reads a
row that it never fetched, so its outcome is any string, or the end of the process
(`FallbackDies`); an empty request ends the process (`EmptyRequestDies`). No definition
of `short_url_map` is in the repository, and the model assumes no unique key. Bounds:
`MaxViews`, and `Room`, which lets a share begin only while a free key is left for it
and a stranger ask only while there is one more.

`FileStore`, `Sharing`, `Client`, `Http` and `Links` have a constant `Scenarios` and a variable
`env` chosen from it at the start and never changed: which operations are asked for,
by whom, and which faults may happen. One run so covers instances that would be too
large at once; the theorems hold for every scenario.

Null values (`NoRow`, `NoWorker`, ...) are model values. Every bound is a constant
named `Max...`, `Capacity` or `TTL` and stands only in the actions that accept new
work (or in the clock), so no handler is cut off in the middle.

## 5. Runs

Run each with `tlc -config <cfg> <module>`; the configuration is named after the
run. States are distinct states.

| Run | Module | Checks | States |
|---|---|---|---|
| `FileStore_all` | `MCFileStore` | CountPositive, CountCoversOwners, OwnedFilesStored, NoOrphanObject, UsesTimedLock, EveryRequestAnswered | 437,333 |
| `FileInfoLock_waits` | `FileInfoLock` | LockInv, ImplementsTimedLock, EveryCallReturns | 1,380 |
| `ConnPool_waits` | `ConnPool` | CountInv, ImplementsBoundedPool, QueueDrains | 15,024 |
| `HandlerPools_nesting` | `HandlerPools` | NotStuck, AllFinish | 428,753 |
| `KVStore_cache` | `KVStore` | OrderMatchesStore, StartsUp, ImplementsLRUCache, TasksRun | 108,306 |
| `Sharing_all` | `MCSharing` | TypeOK, OneSharer, NoGhost, RankedHaveNames, ScoreNotAhead, RankingComesBack | 246,835 |
| `Client_session` | `MCClient` | TypeOK, OneIdentity, RegisteredCanLogIn, TableFresh, UploadsAreAsked, TabSettles, PicksEnd | 224,790 |
| `Http_requests` | `MCHttp` | NoTaskForgotten, HandledOnce, AliveWhenUsed, Answered, ClosedAreDestroyed | 102,653 |
| `Links_urls` | `MCLinks` | ShortUrlsWork, ViewsCounted, ImplementsLinkMap, EverybodyAnswered | 225,490 |
| `FileStore_last` | `MCFileStore` | LastDeleteDropsRow: violated | |
| `FileStore_remove_race` | `MCFileStore` | RemovedObjectUnowned: violated | |
| `Sharing_warm` | `MCSharing` | CountsAreCompared: violated | |

What they show, and why the bounds are enough:

- **FileStore_all**, three scenarios, each with two users, two workers and one content.
  In the first, users have one request at a time and the insert into `file_info` fails
  only on a duplicate md5: without either, `CountCoversOwners` is false (section 8);
  queries, the other statements and the process may fail. Up to three rows and a count
  up to four: the interesting counts are 1 (last reference), 2 (the next delete reaches
  1) and 3, and two deletes can overlap at 2. In the second, uploads and saves without
  limit race with the same content, while queries, the FastDFS commands and the process
  fail; deletes and failing inserts are left out, because they break `OwnedFilesStored`
  (section 8). In the third nothing is restricted, two requests of one user may overlap,
  and inserts, updates, deletes and storing an object may fail. `NoOrphanObject` and
  `UsesTimedLock` speak of the scenarios without the faults that leave an object or
  the lock behind by their nature (a failed query, the death of the process, a FastDFS
  command that fails). Two workers suffice for one to wait while
  the other holds the lock; what a third or fourth could do is answered by the proofs,
  which have no bound. The run may reach a state in which the bounds allow no new
  request, so deadlock is not checked; that requests end is checked as liveness.
- **FileInfoLock_waits, ConnPool_waits.** Four threads: one that holds, one that is
  notified, one whose deadline has passed and one that barges in. The pool has
  two connections, one of them opened at the start, so opening, queueing and
  waiting all occur. Safety and refinement are proved for every number.
- **HandlerPools_nesting.** The smallest sizes that the assumption allows: three
  slave connections for two workers, one connection in each other pool.
- **KVStore_cache.** Three keys compete for two places, the clock runs past a TTL
  of one, a task can be queued behind the one that runs, and the process restarts
  with whatever part of the file was written.
- **Sharing_all**, five scenarios. Two users and two files give equal and different
  scores, foreign owners and a second sharer, and up to two rows for a file, so that
  `OneSharer` could fail; requests come one after the other, a statement may fail and
  redis may lose everything between requests (one scenario with two users, one with
  two files, one with both and no delete, and one with three files that are shared,
  cancelled and downloaded: the least with which ZLEXCOUNT can answer above 1). `AtRest`
  names these conditions, and the
  four properties are proved under them. In the fifth, one file and one worker,
  every fault at every step and the refresh beside it: the types hold and no request
  gets stuck, which the check for deadlock sees.
- **Client_session**, ten scenarios of forms, of files, and of both. Two tabs are the
  least that can disagree about the cookie; two users, for a tab to act for the wrong
  one; two passwords, for a second registration of a name; one file over the limit
  of 10 MB and one under it. Two tokens are the logins there can be. With patient
  users (who act when nothing is under way) and no failures everything holds; what
  impatient users and lost requests break is in section 8, and each property says
  under which of the two it holds. Sessions end when the tokens are used up, so
  deadlock is not checked.
- **Http_requests**, six scenarios, each with clients that wait for their answer and
  clients that may close at any time. Two workers and two connections with a request
  of one segment: tasks wait for workers, workers for tasks. One connection with a
  request in two segments: two tasks for one connection and a buffer that grows
  (here `NoTaskForgotten`, `ClosedAreDestroyed` and the first two parts of
  `AliveWhenUsed` are claimed, the rest is not true, section 8). No pool and
  requests in two segments: OnRead in the I/O loop. Connections are used once, so
  the run ends and deadlock is not checked; `Answered` and `ClosedAreDestroyed` say
  that it does not end too early.

- **Links_urls**, six scenarios: `Pictures` (two pictures shared and browsed; the update
  may fail), `Picture` (one picture shared, browsed and cancelled; every statement and the
  RPC may fail, the process dies), `Working` (two visitors with keys that were given; Set, insert and
  connect fail, the process dies), `Rude` (visitors who send nothing or hang up), `Lost`
  (redis loses keys) and `Unknown` (keys that were never given, a Get that misses). Two
  pictures and two keys are the least with which one key could be given twice or lead to
  the wrong picture; two workers, for one share to wait in the queue behind another; two
  visitors, for one to wait behind a silent one; two browses, for one to count between the
  other's read and its update. Pictures are shared once each and views
  are bounded, so the run ends and deadlock is not checked.

Every property of a passing run has a mutant in `PROJECT.json`: a variant of one
definition, in the module beside it, that changes the model the way a plausible
slip in the code would, and with which TLC finds the property violated.

## 6. Fairness

Liveness rests on weak fairness of the steps of each thread: the operating system
runs every thread, statements and commands return (the clients have timeouts), and
a thread that can take a mutex does. Beyond that:

- `FileInfoLock`, `ConnPool`: strong fairness of the passing of a deadline. The
  deadline is an absolute time, so being woken up and going back to sleep does not
  put it off. Nothing is assumed of the holder of FileInfoLock; handlers that hold a
  connection give it back, because their statements return.
- `QueueDrains` is conditional: once no new call is made, each waiting thread is
  served. A thread that barges in can overtake a notified one for as long as new
  calls come, and nothing in the code prevents it.
- `KVStore`: the worker runs, and `main` ends its loading. The notification of a
  caller happens because the caller goes on.
- `Sharing`: ranking requests keep coming, and the refresh comes every 10 s. An
  entry reaches its 60 s only while no refresh writes it again, so its expiry is
  fair only in scenarios without the refresh. Losing data, crashing and failing
  commands are never fair.
- `Client`: a request is answered or fails (the browser gives up in the end), a tab
  goes on redirecting, and scripts arrive unless the scenario lets them fail. Nothing
  is assumed of users.
- `Http`: each round of a loop serves every ready connection and runs the functors
  (`EventLoop::loop`), one weak fairness condition per connection and kind of event;
  workers go on and handlers end. Nothing is assumed of clients: they may never send
  the rest of a request and never close.
- `Links`: workers, RPC server and web service go on. Nothing is assumed of visitors;
  `EverybodyAnswered` promises the visitors nothing in scenarios with one who connects
  and sends nothing, because the web service then waits for him for ever.

## 7. Proofs

TLAPS checks these for every value of the constants that satisfies the named
assumptions (`ConstantsAssumption`, `TablesAssumption`, `PoolAssumption`, `SizesAssumption`,
`KVAssumption`, `HttpAssumption`, `LinksAssumption`, `SharingAssumption`,
`AccountsAssumption`, `ClientAssumption`). Some of them say that a set is finite (the
files of `Sharing` and `Client`, the tabs, the workers of `Links`): they are, and the
proofs that a new row or request can be told from the others, or that no view is lost,
count them.

| Theorem | States |
|---|---|
| `FileStoreProofs!TypeCorrect` | `Spec => []TypeOK` |
| `FileStoreProofs!CountStaysPositive` | `Spec => []CountPositive` |
| `FileStoreProofs!LockUse` | `Spec => UsesTimedLock` |
| `FileStoreProofs!OwnedStaysStored` | `Spec => []OwnedFilesStored` |
| `FileStoreProofs!NothingLost` | `Spec => []NoOrphanObject` |
| `FileStoreProofs!CountCovers` | `Spec => []CountCoversOwners` |
| `FileInfoLockProofs!LockInvariant` | `Spec => []LockInv` |
| `FileInfoLockProofs!Exclusion` | `Spec => []MutualExclusion` |
| `FileInfoLockProofs!NoWakeupLost` | `Spec => []NoLostWakeup` |
| `FileInfoLockProofs!Refinement` | `Spec => ImplementsTimedLock` |
| `PoolProofs!CountInvariant` | `Spec => []CountInv` |
| `PoolProofs!Exclusive` | `Spec => []ExclusiveUse` |
| `PoolProofs!Conservation` | `Spec => []NoneLost` |
| `PoolProofs!NoWakeupLost` | `Spec => []NoLostWakeup` |
| `PoolProofs!Refinement` | `Spec => ImplementsBoundedPool` |
| `PoolProofs!NoDeadlock` | `HandlersSpec => []NotStuck` |
| `KVStoreProofs!MapAndListAgree` | `Spec => []OrderMatchesStore` |
| `KVStoreProofs!NeverStuck` | `Spec => []StartsUp` |
| `KVStoreProofs!WorkerWakes` | `Spec => []NoTaskLost` |
| `KVStoreProofs!Refinement` | `Spec => ImplementsLRUCache` |
| `HttpProofs!TypeCorrect` | `Spec => []TypeOK` |
| `HttpProofs!PoolWakes` | `Spec => []NoTaskForgotten` |
| `HttpProofs!OnceAndWhole` | `Spec => []HandledOnce` |
| `HttpProofs!AliveThroughout` | `Spec => []AliveWhenUsed` |
| `HttpProofs!OneAnswerEach` | `Spec => []AnsweredOnce` |
| `HttpProofs!AnswersComing` | `Spec => []AnswerOnItsWay` |
| `HttpProofs!LoopsRemember` | `Spec => []NobodyStranded` |
| `SharingProofs!TypeCorrect` | `Spec => []TypeOK` |
| `SharingProofs!SharedOnce` | `Spec => []OneSharer` |
| `SharingProofs!RankedAreShared` | `Spec => []NoGhost` |
| `SharingProofs!RankedAreNamed` | `Spec => []RankedHaveNames` |
| `SharingProofs!RanksBehind` | `Spec => []ScoreNotAhead` |
| `SharingProofs!RankingIsWhole` | `Spec => []AnswerIsWhole` |
| `LinksProofs!TypeCorrect` | `Spec => []TypeOK` |
| `LinksProofs!KeysWork` | `Spec => []ShortUrlsWork` |
| `LinksProofs!AllViewsCount` | `Spec => []ViewsCounted` |
| `LinksProofs!WaitersKnown` | `Spec => []WaitersServed` |
| `LinksProofs!Refinement` | `Spec => ImplementsLinkMap` |
| `ClientProofs!TypeCorrect` | `Spec => []TypeOK` |
| `ClientProofs!AccountsApart` | `Spec => []OneIdentity` |
| `ClientProofs!RegistrationHolds` | `Spec => []RegisteredCanLogIn` |
| `ClientProofs!TableCatchesUp` | `Spec => []TableFresh` |
| `ClientProofs!UploadsAnswered` | `Spec => UploadsAreAsked` |
| `ClientProofs!AnswersUnderWay` | `Spec => []PageIsAnswered` |

`MutualExclusion`, `ExclusiveUse`, `NoneLost` and `NoLostWakeup` of lock and pools follow
from the invariants `LockInv` and `CountInv` that the runs check, so no run checks them
again; nor do the runs check the type invariants that are proved. Seven more invariants
are proved and are in no cfg. Each is the safety part of a liveness property: the
property says that a wait ends or that something comes about, the invariant that what
has to bring it about is there, or that it comes once and whole. They find no error
when added as INVARIANTs to the run that checks the property.

| Invariant | Safety part of | In the code |
|---|---|---|
| `KVStore!NoTaskLost` | `TasksRun` | queued sets have a worker that looks, or a notification |
| `Http!AnsweredOnce` | `Answered` | no second answer to a request |
| `Http!AnswerOnItsWay` | `Answered` | a request without an answer is in a loop, a buffer, the pool or a socket |
| `Http!NobodyStranded` | `ClosedAreDestroyed` | a connection to be opened or removed has the functor that does it |
| `Links!WaitersServed` | `EverybodyAnswered` | who waits for a server is served, in its queue, or has his answer |
| `Client!PageIsAnswered` | `PicksEnd` | a form or a picked file that waits has its request under way |
| `Sharing!AnswerIsWhole` | `RankingComesBack` | a ranking that is computed misses nothing |

- **FileStore.** `CountPositive` is not inductive: a delete lowers the count it
  read in an earlier step. The invariant `CountInv` adds that exactly the holder of
  FileInfoLock is between taking and releasing it (`LockOwner`) and that a count
  above 1 which a delete has read is still the count (`CountStillRead`). Each
  action that changes a count does so under the lock, so it cannot do it between
  the read and the decrement of another worker. Nothing is assumed about faults.
- **FileStore and the lock.** `LockUse` maps the step of each worker to its place in
  `TimedLock`; a step is a lock move or leaves the place alone (`LockMove`), and
  `LockOwner` says that who holds is who is between taking and releasing. `Calm` in
  `UsesTimedLock` excludes the death of the process, which gives the lock back without a
  move, and a query that fails while it is held.
- **FileStore and what is owned.** `OwnedFilesStored` is not inductive: an upload
  removes its object two steps after it learned that the md5 was there. `StoredInv`
  adds that the object of an upload that has not registered it is in no row and in no
  other worker's hands (`Private`), so that what an upload drops is its own copy.
- **FileStore and its counts.** `CountCoversOwners` speaks of cardinalities of rows and
  of requests. The proof shows of each step that it is a `Change`: the rows of
  its file grow by at most `o`, the count by at least `n`, and `o` plus what becomes of the
  request's own claim is at most `n`; the inequality then follows once for all steps.
  `OwnersInv` adds what the steps need of each other: no two requests of one user
  (`OneEach`), so that the row a delete has found is there when it is deleted
  (`StillThere`), and that an upload raises a count only of a known file
  (`KnownFile`).
- **FileStore, objects.** `NoOrphanObject` follows objects from the request that
  stores them to the row that names them. `TrackedInv` adds to it that an upload
  past its `file_info` insert (`pc` "up_user", no duplicate) has its object in the
  table, so that it may forget it. `TrackedMove` proves a step that stores or gives
  up at most one object while the rows keep the object they name (`FilesStay`: as the
  code stands a delete lowers the count and never takes a `file_info` row away, see
  section 8); the lemmas per action only check its conditions.
- **FileInfoLock.** `LockInv` adds to exclusion that the flag is set exactly while
  a thread holds the lock, that nobody sleeps once the lock is stopped, and that a
  sleeper on a free lock implies a thread on its way to test it. The last is what
  `notify_one` preserves: it wakes one of the sleepers, and whoever takes the flag
  makes the predicate false for the others. The refinement maps the four inner
  places to "asking".
- **ConnPool.** `PoolInv` (types, exclusive use, conservation) is inductive by
  itself. For lost wake-ups and the refinement `CountInv` adds the balance
  `|Users| + |free list| = connections` and that threads wait only when the
  pool is full; both are facts about cardinalities, proved from
  `FiniteSetTheorems`.
- **HandlerPools.** The proof orders the resources and follows the waits: whoever
  holds the last resource of a chain can go on, and the slave pool, of which
  workers hold one connection while they ask for a second, cannot be exhausted by
  as many threads as it has connections less one. It needs `SizesAssumption`.

- **KVStore.** `ContentsInv` says that the list has the keys of the map, each once, and
  that there are at most `Capacity`. The refinement needs the order: `Before(s, a, b)`
  says that `a` comes before `b` in a list, and a lemma for each way the code changes
  the list (`KeptFacts`, `ConsFacts`, `ButLastFacts`) says what it does to `Before`; the
  pairs that LRUCache keeps are then the right ones after each step. `Kept` is
  written with the number of kept places before a place, not with SelectSeq, because
  the prover knows nothing of the latter; `NthFacts` shows by counting that it reaches
  each kept place once and in order. `NoTaskLost` is inductive with
  the types: a push comes with a notification, and only a worker that found the queue
  empty falls asleep.

- **Http.** `NoTaskForgotten` is inductive with the types: a new task comes with one
  more thread that looks (or no thread sleeps), and a thread that stops looking takes
  a task with it. `HandledOnce` is not: `OnceInv` says in addition, without the pool,
  that no worker ever leaves its place and that a connection's request was handled
  exactly when its buffer has all segments; with the pool and requests of one segment,
  that a connection is queued or with a worker at most once in all (`QueuedFresh`,
  `OneWorkerEach`), that the buffer of such a connection has its segment, and what
  the worker knows at each step of OnRead (`WorkerKnows`): until the handler runs
  nothing was handled, and what the parser holds is what the buffer had.
  `AliveWhenUsed` adds two parts to it. `LoopsInv`: a connection has an entry in the map
  of handlers exactly while it is connected, one that is being established is in the
  table of the server with one functor to establish it, and the base loop holds only
  disconnected ones. `AnswersInv`, with the pool: a client
  whose request no worker has handled has no answer, and one functor at most sends it,
  so nobody gets a second one; `AnswersInLoop` says the same without the pool, where the
  handler runs in the loop. These two need no patience, and `AnsweredOnce` follows.
  `ClosesLate`: patient clients close only after their answer came, so whatever a worker
  or a functor uses is still there.
- **Http, answers to come.** `NobodyStranded` follows from `LoopsInv` and a look at the
  three steps that change the state of a connection (`StateMoves`): two of them queue
  the functor that the new state waits for, and what takes a functor from its loop ends
  that wait. For `AnswerOnItsWay`, `WayInv` adds to `AliveInv` that a connection with
  data is past its establishment (`Opened`) and that a request which is all in the
  buffer has something that leads to its answer (`OnItsWay`). Each step that takes it
  from one place puts it in the next: from the pool's queue to a worker (`QueueKept`), from
  the worker to a functor of the loop (`WorkerBrings`), from there to the socket or the client
  (`SentComes`, `OutKept`). A worker that found nothing to handle would drop it; `WorkerKnows`, a
  part of `OnceInv`, says that this one finds the whole request.

- **Sharing.** What holds between requests does not hold within one, so `SharingInv`
  says which step excuses what: a ranked file is shared, unless a cancel is about to
  take its rank (`CancelExempt`); it has its name, unless a request is about to write
  it (`NameExempt`). `Knows` is what the request under way still knows of what it read:
  that the file has no row yet, the pv it will write or has written, the rows it
  still has to load. One request at a time means that nobody else can change that, and
  the refresh only reads; the four theorems are the invariant with no request under way.
- **Sharing, types.** `TypeOK` holds with every fault and any number of requests at
  once, and it has no bound: counters are natural numbers, and a row gets a number that no
  row of its file has. `TypeInv` adds what makes it inductive: a request under way has
  a user and a file, what a reload still has to load are rows and not members
  (`Typed`), and the refresh begins only when no answer waits (`Turns`), so that there is
  never a second one. `Controlled` is what a step may do to the threads; one lemma for
  each way a handler goes on (`NextTypes`, `DoneTypes`, `RememberTypes`, `TakeTypes`,
  `AnsweredTypes`) serves all statements.
- **Sharing, the ranking that is computed.** `Whole` follows a request from the count of rows to
  its answer: while it loads, each row is still to load or is ranked and named
  (`Loaded`). `EqualCounts` is what the comparison rests on: with one row per file
  and only shared files ranked, equal cardinalities mean equal sets; so the theorem needs
  `SharingInv`, and finiteness of the table from `TypeInv`. A cancel that left its rank in redis,
  or a download that left no name, would break it.

- **Links.** `ShortUrlsWork` speaks of keys that were returned; the invariant `LinksInv`
  follows a key from where it is chosen. `RpcServes` and `WebServes` say that the two
  servers work for somebody who waits, and that each waiter is in the queue once, so
  the picture of a request cannot change under the server. `Promised` says that a key on
  its way back (in the server, in the socket, returned) has its row. `RedisAgrees`,
  under `Sound` (redis keeps what it has, no Get fails, strangers do not ask), says that
  rows and redis agree, that a key about to be set is free, and that the web service
  never needs the fallback. Setting a key then is `Give`, a visitor's request `Ask`, his
  answer `Show` and the death of the process `HangUp`. `WaitersServed` is inductive
  with the types and the places in the queues: a server takes the first of its queue and
  serves him (`QueuedLess`), who asks becomes the last (`QueuedMore`), each way out of a
  request answers it, and the death of the process ends all waits. `ViewsCounted` speaks of
  answers that were given; `ViewsInv` adds the browses on their way. The counter covers
  the counts shown and the answers due (`Due`), and a browse that is between its read
  and its update has read no more than the counter, one after its update less
  (`ReadOK`). That needs the increment to be one statement: with a write-back of the count
  that was read (`WrittenBack`, the mutant) two overlapping browses count as one. The
  number of workers is finite (`LinksAssumption`), so answers due can be counted.

- **Client.** `ClientInv` holds whatever users do and whatever is lost: types, that a
  form waits for one answer at most (`OneForm`), that a request of the table belongs to the
  page it came from while that is there, that a token on its way was made for its user
  (`Sound`), and that a big file is never being checked (`SoundTab`). `UploadsAreAsked`
  follows from it: every way a step makes requests is looked at, and only the answer
  to an md5 request posts. For patient users `IdentityInv` adds that one tab or one
  request, or the deletions of one batch, is under way (`OneAtATime`), so that the cookie is
  whole but while a tab writes it (`CookieSound`) and no other tab reads it then;
  `OneIdentity` is its part `IssuedTo`. With nothing failing, `RegisterInv` says that
  a name found free is free when the row is inserted, and that a confirmed user has
  rows with his password only. `FreshInv`, for one tab, says that a page either shows
  what the server has or something under way will bring a list computed after the last
  change (`Coming`), and that a token once refused stays refused. `PageIsAnswered` needs one
  thing more, that no answer is that of a failed call while requests do not fail
  (`WayInv`): such an answer settles nothing, which is why `PicksEnd` is
  checked without them. `WayStep` asks of each step what pages begin to wait for and which requests it
  takes away.

Every safety property of a passing run is so proved: all invariants, the
action property `UploadsAreAsked`, `UsesTimedLock` and the four refinements. Checked by TLC only is what is out of this
prover's reach, liveness under fairness: `EveryRequestAnswered`, `EveryCallReturns`,
`QueueDrains`, `AllFinish`, `TasksRun`, `RankingComesBack`, `TabSettles`, `PicksEnd`,
`Answered`, `ClosedAreDestroyed` and `EverybodyAnswered`; also anything about ENABLED
and facts by induction over data, of which the models have none.

## 8. Disagreements between code and comments

With a run of their own (`findings` of `PROJECT.json` quotes the comments):

1. `FileStore_last`: the branch of a delete that should drop the last `file_info`
   row hangs on the wrong condition (`api_dealfile.cc` 238); the object goes, the
   row stays, and the next upload of the content is answered 0 and stores nothing.
2. `FileStore_remove_race`: the object is removed after FileInfoLock is released;
   an upload in between owns an object that is then removed.
3. `Sharing_warm`: with the periodic refresh the comparison of row counts is never
   reached on the first pages; what redis lost stays lost.

Seen with the same models, without a run; the formula in parentheses is false at
the end of the steps described:

4. An instant upload raises the count and never inserts the user's row, because
   both branches jump to END (`api_md5.cc` 104) (the count of an idle store equals
   the number of owners).
5. Two overlapping deletes of one row both lower the count: the number of rows
   deleted is not looked at (`api_dealfile.cc` 212) (the count is not below the
   number of owners).
6. `handleSaveFile` reports failures as 1 and 5, and `ApiDealsharefile` encodes
   only negative results as failure (`api_deal_sharefile.cc` 315) (a client told 0
   owns the file).
7. Any failed insert into `file_info` is taken for a duplicate md5
   (`api_upload.cc` 199) (every owned file has a `file_info` row).
8. After a failed insert into `user_file_list` the object is deleted and its
   `file_info` row stays (`api_upload.cc` 433) (every owned file has its object,
   violated by the next upload of the content).
9. Two users who share a file at the same time both get a row
   (`api_dealfile.cc` 87-118) (`OneSharer` with two workers). From then on the
   counts differ, and each uncached ranking request reloads the sorted set.
10. A cancel and a share of one file interleave their redis commands: a ranked file
    without a name, and every ranking answer is an error (`api_deal_sharefile.cc`
    91-99) (`RankedHaveNames` with two workers).
11. After downloads have made the scores differ, ZLEXCOUNT misses members; a second
    share of a shared file then resets its score to 0 (`api_dealfile.cc` 91) (score
    and pv of a ranked file agree). With three members or more it may answer above 1, and
    a download is counted in MySQL and answered as a failure (`api_deal_sharefile.cc` 273).
12. Two concurrent downloads count as one, and a slow one takes the count back
    (`api_deal_sharefile.cc` 234-245) (pv never decreases).
13. A ranking request in flight during a cancel stores its list after the
    invalidation (`api_deal_sharefile.cc` 90) (the cached list of an idle server
    names shared files only).
14. With two workers and no refresh, two reloads of the sorted set can disturb each
    other for ever: each compares the row count with the other's half-loaded set
    and drops it (`api_sharefiles.cc` 188-192) (`RankingComesBack`).
15. What `persistToFile` writes is never restored (`api_common.h` 309, 321-327): a
    value spans several lines. If it were, `loadFromFile` would lock its mutex
    twice.

In the way from a segment to an answer:

16. A request in two segments becomes two tasks, and nothing orders them: both may
    find the request complete, and the handler runs twice, also with one worker
    (the second segment arrives before the first task looks), or they reset and feed
    the one parser at the same time, and the handler gets half of it or never runs
    (`http_conn.cc` 49-61) (`HandledOnce` and `Answered` without `Alone`).
17. `send` tests the state in the worker and queues a functor with a raw `this`
    (`TcpConnection.cc` 105, with a FIXME of its author). A client that closes before
    its answer can have its connection destroyed before the functor runs
    (`AliveWhenUsed` for impatient clients).
18. The answers say `Connection:close` and nobody closes; a second request on the
    connection is appended to the first in the buffer, and the parser finds the first
    one again. Nor does the server ever close an idle connection.
19. Answers are printed into buffers of fixed size, 4096 bytes for most, while
    `Content-Length` states the whole length: a longer one is cut.
20. The answer for an unknown URL is allocated and never freed.

In the front end:

21. A failed md5 request, or a file that cannot be read, leaves the promise of
    `beforeUpload` open: the file is "checking" for ever (`PicksEnd` with faults).
22. The server refuses a token with 1 (`api_md5.cc` 200), the code the client takes
    for "not there, upload it"; the 4 it expects (`api_common.h` 42) is never sent. The
    handlers of upload and delete verify no token.
23. Of two answers to list requests the one that comes last is shown, not the newest
    (`TableFresh` for impatient users). After a download the counter and the refresh
    of the table are sent together.
24. A deletion of several files reports success whatever the answers were.
25. Sorted by downloads (`pvasc`, `pvdesc`), "my files" is a command `api_myfiles.cc`
    does not know; the answer is the one for an expired login.
26. Two registrations of one name at the same time both look, both insert and both
    are confirmed (`api_register.cc`) (`RegisteredCanLogIn` for impatient users).
27. A login whose SetEx failed is answered as a success (`api_login.cc`): no later
    request is accepted.
28. Name and token are written to the cookie one after the other. A tab that reads
    it in between works with one user's name and the other one's token, and when one
    tab logs out while another logs in the cookie can keep a token without a name;
    the login page then sends the tab to its table and back for ever (`OneIdentity`
    and `TabSettles` for impatient users).

In pictures and short URLs:

29. A key that redis does not have is looked up in MySQL, but the row is never fetched:
    the visitor is sent to any string, which is stored in redis, or the process dies
    (`shortulr_rpc_server.cc` 271-284). A key that redis lost is also given again, to
    another picture (`ShortUrlsWork` without `Sound`).
30. After a failed insert into `short_url_map` the key stays in redis and resolves,
    though the share was told of a failure (`shortulr_rpc_server.cc` 202-210).
31. A share whose RPC failed is answered as a failure and keeps its row
    (`api_sharepicture.cc` 104-107); a cancel deletes the row and keeps the short URL
    (387-409).
32. The short URL that the RPC returns is written to the log, and the client is sent
    the urlmd5 instead (`api_sharepicture.cc` 100-113).
33. The RPC server parses every request as one to convert (`shortulr_rpc_server.cc`
    370); nothing in the repository calls `resolveShortUrl`.
34. The web service serves one visitor at a time without a deadline: one who sends
    nothing stops it (`EverybodyAnswered` with "mute"), and one who closes at once makes
    `substr` throw out of its thread (`shorturl_web_service.cc` 59-68).

## 9. What is not modelled

- The paged reading of "my files", of shared files and of pictures (it changes nothing),
  and the helpers: planned, see below. `PROJECT.json` lists each with its status.
- `ThreadPool::stop`, its bounded queue, `shutdown` and `forceClose` of connections,
  timers and the poller: the server does not call them, or they are the library's
  own machinery. More than one request on a connection.
- The front end's pages for shared files, pictures and the ranking, and the libraries
  in its vendor chunk but for the upload component.
- SQL and redis themselves: a statement or command is atomic and sees the latest
  state, also through the slave pool (the configuration points both at one server).
- A null connection after a failed connect: most handlers use it without a test,
  which is undefined behaviour; the models of the handlers begin with a connection.
- The contents of files, names, tokens and answers, except where a property
  depends on them (the line structure of the persisted cache).
- Paging of the ranking list, and the one-step read of names and scores: a page is
  read by separate redis commands, which could see a member vanish in between; the
  code answers with an error then, as the model does for a member without a name.
- Third-party and generated code.

## 10. Plan

Order of the remaining work; each module gets an invariant part by part so that it
can be proved as well as checked, and no RECURSIVE operators.

1. `Helpers`: query strings, suffixes, trimming and splitting as operators, against
   declarative definitions over bounded inputs.
2. Proofs: what holds of shares, cancels and downloads that overlap, which is less than
   the four properties of section 3 and is not stated yet.
3. Composition: `Http` with the handlers of `FileStore`, to see what a request
   handled twice does to the tables.

Runs are bounded to about a minute each on two cores; a new component gets one run
for its safety and liveness together, and one that shows a disagreement if there is
one a reader must know of.
