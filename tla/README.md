# GameRes: verification project

TLA+ modules, TLC configurations and TLAPS proofs for the server side of
GameRes (C++, libuv, TBB, MySQL). Paths below are relative to `src/`; comments
in the sources are quoted in translation.

## 1. The system

GameRes is a set of small Windows programs around a game server:

| Component | Files | State it keeps | Operations | Interacts by |
|---|---|---|---|---|
| `uv::TCPServer` | `Server/NetApp/NetFrame.{h,cpp}` 6-386 | status, connection tables `m_OnlineStream`, `m_OnlineID`, released ids `m_ConnectionID`, `m_MaxConnectionID`, queues `m_RecvMessage`, `m_SendMessage` | `Run`/`Start`, `Close`, `GetRecvMessage`, `PushSendMessage`; libuv callbacks `on_connection`, `after_read`, `after_shutdown`, `on_close`, `timer_cb` | two concurrent queues and an atomic status between its network thread and the owner's logic thread |
| `uv::TCPClient` | `NetFrame.{h,cpp}` 388-570 | status, queues | connect, read, timer and close callbacks | the same way; its only use is commented out |
| Server application | `Server/Server/{Server,AppManager,CLogin,AppInitialze}.*`, `Server/NetApp/MessageDispatch.hpp` | `m_UserList` per connection id, dispatch table | login, create role, select role, log out | polls `TCPServer`, replies through it |
| `MessageHead` codec | `Server/Server/AppManager.cpp` 5-37 | none | `Parse`, `Pack` | called for each chunk and each reply |
| DBApp | `Server/DBApp/{DBApp,AppManager}.*` | `m_MessageList`, `m_UserStatus`, `TaskMgr` | main loop, `OnUpdate`, `NewConnction`, `Close` | polls a `TCPServer`, posts tasks to the pool |
| Database thread pool | `Server/DBApp/{DatabaseThreadPool,ProducerConsumerQueue}.h` | task queue, mutex, condition variable, threads | `post`, `run`, `ClosePool`, `wait` | the queue between the owner and 10 threads |
| SQL connections | `Server/DBApp/{NewConnection,MySqlConnection}.h` | free connections of each `Connction` | `GetSqlConnection`, `PushConnection`, `init`, `Query` | a concurrent queue among the pool's threads |
| NetApp buffer, observer | `Server/NetApp/{Buffer,Observer}.h` | read and write positions | append, read, normalise | not part of a program that builds |
| netPack streams | `Server/netPack/*` | cursors | text and binary read and write streams | library code |
| LogApp | `Server/LogApp/LogApp.cpp` | barrier, ordering queue | two logging threads | Boost.Log |
| ServerApp sockets | `ServerApp/ServerApp/NetSocket.*` | client table, status, a lock | an older libuv wrapper | callbacks and threads |
| GameClient, Mail, protobuf, TBB, libuv | | | test client, empty handler, generated or vendored code | |

What is hard to test in them: two threads and a callback loop that share
queues, a status and ids that are used again; a condition variable waited for
without a predicate; connections handed between threads; shutdown racing the
rest. PROJECT.json lists each hazard at its line, with the properties aimed at
it.

What makes each component correct:

- **TCPServer**: ids are neither lost nor shared; the two tables are inverse
  to each other and name open streams; the logic thread hears each client in
  order, its end included, before the next client of that id; a client's
  answers keep their order and do not reach another client while it is
  online; a client's end is reported; `Close` returns.
- **TCPClient**: exactly one of connect and timer drives it; its status says
  whether there is a connection; it reconnects, notices losses, sends in order,
  and lives until `Close`, which returns.
- **Thread pool and SQL connections**: tasks are taken in order, each once; a
  wakeup finds a task; threads last until `ClosePool`, which ends them; a
  connection is used by one thread at a time, for its own database, and comes
  back; their number is bounded by the threads.
- **DBApp**: connections do not accumulate although every update replaces the
  `Connction`; a user is busy exactly while its instruction runs.
- **Server application and codec**: the role found under an id is the one of
  the client that holds it, although entries are never erased; replies answer
  a client's own requests, in order, none twice; the 16-bit length in a head
  is the length of the message.

## 2. Modules

| Module | Contents |
|---|---|
| `TCPServer` | the server of `NetFrame.cpp`: clients, network thread, logic thread |
| `MCTCPServer` | symmetry for its runs |
| `ClientSessions` | what `TCPServer` promises its owner: clients, what is heard of them, what becomes of the answers |
| `TCPServerProofs` | theorems about `TCPServer`: tables and ids |
| `TCPServerPromiseProofs` | theorems about `TCPServer`: what is heard and written; it implements `ClientSessions` |
| `MessageHead` | `Parse` and `Pack` with their 16-bit lengths; the sizes of requests and replies |
| `GameServer` | the game server's logic thread, over `ClientSessions` and `MessageHead` |
| `GameServerProofs` | theorems about `GameServer` |
| `GameSystem` | the game server as it runs: the handlers of `GameServer` over `TCPServer` itself |
| `MCGameSystem` | the `game` run's root module |
| `GameSystemProofs` | theorems about `GameSystem`; it implements `GameServer` |
| `TCPClient` | the client of `NetFrame.cpp`: network thread, owner, server |
| `MCTCPClient` | its runs' root module |
| `TCPClientProofs` | theorems about `TCPClient` and their proofs |
| `DatabaseThreadPool` | queue, threads and SQL connections of DBApp |
| `MCDatabaseThreadPool` | symmetry for its runs |
| `TaskPool` | what the pool promises those who post: tasks taken in order, one connection to each |
| `DatabaseThreadPoolProofs` | theorems about `DatabaseThreadPool`; it implements `TaskPool` |
| `DBApp` | DBApp's main loop and `AppManager`; extends `DatabaseThreadPool`, whose worker actions it composes with its own |
| `MCDBApp` | symmetry for its runs |
| `DBAppProofs` | theorems about `DBApp`, from those about the pool |

They build on each other like this (`=>` is "implements", `<-` "is built
over"):

    TCPServer (no null buffers) => ClientSessions <- GameServer -> MessageHead
    GameSystem = GameServer's handlers + TCPServer => GameServer
    DatabaseThreadPool => TaskPool
    DatabaseThreadPool <- DBApp => TaskPool
    TCPClient

### TCPServer

One action for each callback and method; `PROJECT.json` gives the lines.
libuv runs one callback at a time on the network thread, so a callback is one
step, with two exceptions: `Start` loads and stores the status in two steps
(`StartLoad`, `StartStore`), because `Close` may run between them, and
`timer_cb` is split at the point where it looks at the status (`Tick...`,
then `TimerRearm`). `Close` is the store (`Close`) and the join (`Join`).

- A *session* is one TCP connection of a client. It sends up to `MaxChunks`
  chunks and ends by an end of file (after its chunks), by a reset or by
  another error (chunks not read yet are lost). These are the three branches
  of `after_read`; all queue a notice, then release the id.
- A *handle* is an address of a `uv_stream_t`. `malloc` may return a freed
  address again, so `OnConnection` takes any free one. A handle is `free`,
  `open` (being read), `done` (no longer read, never closed unless a shutdown
  is under way) or `closing`.
- `OnConnectionFail` is the early returns of `on_connection`; the stream
  object leaks, as in the code.
- A message is its number, id and kind: `text`, `zero` (its first byte is 0:
  `timer_cb` drops it as empty) or `null` (asks for a disconnection). The
  session it was meant for is a history component of it.
- The write request lives on the callback's stack, and its buffer is freed at
  once: `TickCrash` lets each write, and each use of a freed stream, crash the
  process. `TickWrite` is the outcome in which it goes well.
- `Handles` smaller than `Sessions` forces addresses and ids to be used again.
- The logic thread answers an id it has heard from and whose notice it has
  not popped, as both mains do.
- `ClosePolicy` says when the owner may call `Close`: neither main ever does
  ("never"); "running" and "any" model the class's own interface.

The history variables are `wire`, `client`, `heard` and `told`; no action
reads them except `PushSendMessage`, for which `client` is the logic thread's
own knowledge of its clients.

### ClientSessions

The server without its network thread, handles, tables and receive queue:
eight of the variables of `TCPServer`, under the same names, so that
`Promise == INSTANCE ClientSessions` substitutes each by itself. A client that
is heard has one id until its end is heard (`HearChunk`, `HearEnd`,
`KnownAs`); a message at the front of the send queue is written to the client
it was meant for, or to another once that one has ended (`Deliver`), or lost
(`Lose`). `Ends` names the ways a client may end, of which only `eof` is in
good order. `KeepsPromise` is that `TCPServer` implements this.

### GameServer and MessageHead

The logic thread of `Server.cpp`: `RecivedMessage` takes one chunk, `Parse`
looks at its length, `Dispatch` finds the handler, the handler prepares its
replies (`todo`) and `SendClient` sends one per step, with what the network
thread does in between. Each of the two is what the logic thread itself does
(`Handle`, `PackReply`) joined with the queue it does it to, so that
`GameSystem` can join the same operators with the queues of `TCPServer`. `Idle`
says that the handler of the last message has returned. `UserLoginOut` is the end of a client; its code does nothing, so
`m_UserList` keeps the entry. `operator[]` in `DispatchMessageHandle` leaves
an entry for every unknown command. What a chunk holds is chosen when it is
looked at: the code takes a chunk for a message and does not look at the
length in its head, so several requests in one chunk, or one in several, read
as any request that fits, or as none.

`Parse` and `Pack` take their lengths as `uint16`. `MessageHead` computes what
becomes of a 32-bit length (`Parses`, `Total`, `Written`, `FirstByte`), and
from the name and the vocation in a request the lengths of the replies: for
the name 1 byte of tag, the varint of its length, and the name; for the
vocation a tag and its varint; and the fixed fields. All fields of a request
are optional, so the name may be empty (0) and the vocation left out. The
vocation is a `uint32` nobody checks, copied into an `int32` field
(`CLogin.cpp:87`): its varint has 1 to 5 bytes, or 10 when the `int32` is
negative, and a value stands for that length (`VocationLens`). A request may
hold more (`Others`): fields the handler does not read, or bytes after a 0,
where the conversion of `char*` to `std::string` ends. A message whose
first byte, the low byte of its length, is 0 has the kind `zero`, which
`timer_cb` drops. `Pack` writes `Written` bytes into `Total + 1`; when that is
past the end, the process may crash (`down`).

The history variables of `GameServer` are `due` (the replies each client's requests call for),
`reply` (the reply each send carries) and `created` (the role each client has
created last).

### GameSystem

The program `Server.cpp` as it runs. `Net` is an instance of `TCPServer` whose
owner never closes it, and shares with `GameServer` the eight variables of
`ClientSessions`. `TakeMessage` is `GetRecvMessage` with what `RecivedMessage`
makes of the message, `SendReply` is `Pack` with `PushSendMessage`, and
`Background` is any step of the network thread or a client. Either thread may
bring the process down: the network thread in a write (`net = "crashed"`), the
logic thread in `Pack` (`down`). `PlaysGame`, that all this implements
`GameServer`, is where the two halves of the program meet: the promise of the
one has to hold for the very calls of the other.

### TCPClient

As for the server, one action for each callback and method. Both `connect_cb`
(`ConnectCb`, `ConnectStore`) and `timer_cb` (`TimerTick`, then
`TimerReconnect` or `TimerServe`) look at the status and act on what they saw
later, so each is two steps. `client` is the `uv_tcp_t`: `fresh` (initialised),
`connecting`, `up` or `closing`. The network thread ends (`LoopExit`) when
`uv_run` has nothing left to wait for: no timer, no connect, no close under
way, nothing being read. `TimerReconnect` may fail, and the code does not look
at the result: then nothing is armed. The calls that arm the timer may fail,
too (`StartTimer`): `connect_cb` and `timer_cb` look at their results and
return. `callFailed` records either; the server's `timer_cb` and `Start` do
not look at the result of arming theirs, which libuv refuses only for a timer
that is closing or has no callback. `TimerCrash` is a second use of the one
`write_req` while libuv holds it. Received data is dropped by `read_cb`, so
there is no receive queue.

### DatabaseThreadPool

A thread is at a label of `run`. Everything `Push` and `WaitAndPop` do under
the mutex is one step; `wait` separates `WaitAndPop` into `Wait` (up to the
block) and what follows the wakeup (`WakeToNothing`, `PopNull`, `PopTask`).
`NotifyOne` wakes any waiting thread, or is lost. `SpuriousWakeup` is what the
C++ standard allows. Connecting and querying take time (`InitSql`, `Query`) and
connecting may fail (`InitSqlFail`). `_shutDown` is not initialised by the
code, so `Init` takes its value from `ShutDownInit`.

`TaskPool` is the pool without queue, condition variable and free lists.
`Promise` maps `begun` to the number of tasks taken, `busy` to the number of
the task a thread has (0 for none), `held` to its SQL connection and `ended`
to the threads that have returned. SQL connections nobody uses may be closed
when a database is given up (`GiveUp`) or with the post of a task for its
successor (`Accept`); one in use may not. The pool alone never does so, DBApp
does in every round.

### DBApp

`Round` is one pass of main's loop: a message is kept, `OnUpdate` marks user 1
idle, makes a new `Connction`, and posts a task if the list has a message of
user 1, which it keeps. `Live` is the set of `Connction` objects a
`shared_ptr` refers to; `NewConnction` takes an address outside it, whose
free connections have been closed. The pool then still has to be a `TaskPool`
(`KeepsPromise`): in particular no connection may close under the thread that
uses it. The pool's `ClosePool` is not reachable in
this program, since only `AppManager::Close` sets the status main waits for;
the module `DatabaseThreadPool` checks it as an interface of the class.

## 3. Runs

All runs say `CHECK_DEADLOCK FALSE`: the systems stop when every client has
come and gone and the bounded sends or tasks are used up, when the process has
crashed, or when a pool has been closed.

| Run | Instance | Shows |
|---|---|---|
| `server_tables` | 3 sessions, 3 handles, 1 chunk each, no sends | `TypeOK`, `TablesAgree`, `IdsAccounted`, `OnlineIsOnline`, `NoSilentTakeover`, `IdsGrowOnlyWhenAllOnline` |
| `server_answers` | 2 sessions, 2 handles, 3 sends of every kind | `SendsInOrder`, `StrayOnlyAfterEnd` |
| `server_liveness` | 2 sessions, 1 handle, 2 chunks each, 2 sends, fair, `Close` once `RUNING` | `HeardInOrder`, `DisconnectReported`, `SendsHandled`, `CloseReturns`, `KeepsPromise` (refinement of `ClientSessions`) |
| `server_online_viol` | 2 sessions, null sends | `OnlineIsOnline` is violated |
| `server_close_viol` | 1 session, fair, `Close` at any time | `CloseReturns` is violated |
| `client` | 3 messages, fair; `Close`, failing connects and losses at any time | `TypeOK`, `OneDriver`, `StatusTracksConnection`, `SentInOrder`, `LivesUntilClose`, `Reconnects`, `LossNoticed`, `CloseReturnsOnceSeen` |
| `client_close_viol` | 1 message, fair | `CloseReturns` is violated |
| `pool` | 2 threads, 2 databases, 3 connections, 3 tasks, 1 spurious wakeup, fair | `TypeOK`, `SqlExclusive`, `RightDatabase`, `ConnectionsBounded`, `TakenInOrder`, `WokenFindTasks`, `WorkersLast`, `ConnectionComesBack`, `CloseEndsIdlePool`, `KeepsPromise` (refinement of `TaskPool`) |
| `pool_close_viol` | 2 threads, 1 task, fair | `CloseEndsPool` is violated |
| `dbapp` | 2 threads, 4 `Connction` addresses, 4 connections, 4 tasks, 1 spurious wakeup | `AppTypeOK`, `OpenSqlsBounded`, `NeverPooled`, `KeepsPromise` (refinement of `TaskPool`) |
| `dbapp_busy_viol` | 2 threads, 2 tasks | `BusyMeansExecuting` is violated |
| `game` | `GameSystem`: 2 clients, 2 streams, 2 ids, 1 chunk each, 3 sends, 1 unknown command, names of 249, 65470 and 65528 bytes, vocations of 1 and 10 bytes | `GameTypeOK`, `RoleOfClient`, `AnswersInOrder`, `PackRight`, `PlaysGame` (refinement of `GameServer`) |

**Bounds.** Two sessions are enough for one client to take over the id, the
stream address or the queued answers of another; the third of `server_tables`
adds released ids out of order and a takeover of a takeover. One chunk per
client is enough to tell a client heard from one that is not, and a chunk
before a notice from one after it; the order of a client's chunks needs the two
of `server_liveness`, where the second client has the stream address of the
first. Three sends give two in order and one
stray. Two threads are enough for a connection to be shared, a notification
to be lost while one is busy, and a task to be stolen; three tasks outnumber
the threads. `RightDatabase` says of the connections also that none is lost:
each open one is in use or free. `WorkersLast` says of `ClosePool` also that,
without spurious wakeups, it ends no thread before all tasks are taken. `MaxConn` never stops `GetConnectionID`: there are as many ids as
sessions.

Each length of a name in `game` is there for a case of 16-bit arithmetic: with
249 bytes a `LoginRet` is 256 bytes long, so its first byte is 0 and it is
dropped; with 65470 a `RoleList` is right for a vocation below 128, and 65536
bytes long, which wraps to 0, for one from 2^31 on, whose varint has 10 bytes:
then `Pack` writes past its buffer; with 65528 a login fills a chunk of 65536
bytes, whose length is 0 to `Parse`. Two ids and two clients let an id pass on
with the entry of its last client in `m_UserList`; three sends let both
replies of a created role, and one of another client, be in the queue. One
chunk per client is one request: the second client makes its own under an id
that may still hold the first one's role and queued replies. Several requests
of one client are within the theorems, which have no bound on chunks.

The client's connection may be lost and made again without bound, with no
counter, so its runs cover every interleaving; three messages are enough for
one to be lost between two that are sent.

**Fairness** (`Fairness` in each module). The network thread is scheduled
(weak fairness of `Start`, of both halves of the timer, of the loop's exit);
an iteration of libuv's loop polls all streams between two timer passes, so a
read callback that is ready over and over runs in the end (strong fairness,
since a timer pass disables it in between). The logic thread polls its queue
in every round of its loop. Threads of the pool run, and queries and connects
return. Nothing makes clients act, the logic thread answer, callbacks fail or
anybody call `Close`. For the client, a server listens, so that connecting again
and again succeeds in the end (strong fairness of `ConnectCb`), and it ends a
connection the client has shut down. A server or client that crashed or is closed is excepted
by the liveness properties.

**Disagreements shown** (details in PROJECT.json):

1. After a disconnection the *server* asks for (null buffer), `after_shutdown`
   closes the stream but nothing takes it out of the "online connections"
   tables (`NetFrame.h:80-81`).
2. A `Close` between `Start`'s load and store of the status is overwritten;
   `timer_cb` never sees it and the join hangs. It returns when called once
   the status is `RUNING` (`server_liveness`).
3. In the client, `close_cb` stores `NONE` and `connect_cb` stores `RUNING` over
   a `CLOSE` set meanwhile: the timer then connects again, or goes on, and the
   join hangs. Once `timer_cb` has seen `CLOSE`, `Close` returns
   (`CloseReturnsOnceSeen`).
4. `ClosePool` "ends the threads with null pointers"
   (`DatabaseThreadPool.h:65`), but a null task pushed while a thread is busy
   notifies nobody, and the thread then waits beside it for ever. It does end
   a pool it finds idle (`CloseEndsIdlePool`).
5. `m_UserStatus` is documented as "true means an instruction is being
   executed" (`AppManager.h:47`); it is set when a task is posted and reset by
   the next update, not by the end of the task.

Two more weaknesses are visible in the passing runs: each spurious wakeup of
the open pool ends a thread (`WorkersLast` states this as the exact bound),
and with an uninitialised `_shutDown` other than 0 every thread ends at its
first wakeup.

## 4. Proofs

`TCPServerProofs` proves, for every set of sessions and handles and every
bound (assumptions: `NoSession`, `NoHandle` outside the sets, bounds natural,
`SendBufs` a set of the three kinds):

| Theorem | Statement |
|---|---|
| `TypeCorrect` | `Spec => []TypeOK` |
| `NoIdLost` | `Spec => []IdsAccounted` |
| `CloseLasts` | `Spec => [](Closed => []Closed, and Stopping => []Stopping /\ [][wire' = wire]_vars)` |
| `TablesInverse` | `NoNull => (Spec => []TablesAgree)` |
| `OnlineStreamsOpen` | `NoNull => (Spec => []OnlineIsOnline)` |
| `EndsMoveOn` | `NoNull => (Spec => [][\A s \in Sessions : EndMovesOn(s)]_vars)` |
| `NoTakeover` | `NoNull => (Spec => NoSilentTakeover)` |

`NoNull` says that the logic thread sends no null buffer, which is what both
mains do; with null buffers `OnlineIsOnline` is violated
(`server_online_viol`).

The argument. `TypeOK` is not inductive: that a queued message has an issued
id needs that a stream being read is in `m_OnlineStream` (`HandlesOK`), and
`TypeInv` is both. `IdsAccounted` is inductive with it; the two lemmas with
content are `IdsConnect` (an id taken from the front of the list was there
once) and `IdsRelease`. The table theorems need more of the streams: those
being read are exactly those in the table, no client has two streams, a
shutdown is under way only on a stream no longer read (`StreamsOK`), and who
has been reported as gone, or will be by a queued notice, is not read any more
(`GoneOK`). `TableInv` collects these. `NoTakeover` is about the past and
future of the queue: `QueueInv` says that under one id, messages of different
clients have a notice between them, and that a chunk (or a client the logic
thread knows) that no queued notice follows is of the client that holds the id
now. Each of the three steps that move the queue has its lemma (`QueueChunk`,
`QueueNotice`, `QueuePop`). `CloseLasts` is the exact extent of the second
disagreement of section 3: a `Close` is lost only if it falls between
`Start`'s load and store (`Closed` is the status being `CLOSE` outside of that
gap), and the run of `timer_cb` that finds it writes nothing more and is the
last (`Stopping`). `EndsMoveOn` is the safety half of `DisconnectReported`: a
client that is read stays so until its notice is queued, the notice only moves
forward in the queue, and who takes it from the front is the logic thread. It
needs `NoNull`, since `after_shutdown` would else close a stream being read
without a notice; that it does not is `StreamsOK`.

`TCPClientProofs` proves, for every number of messages:

| Theorem | Statement |
|---|---|
| `ClientTypeCorrect` | `Spec => []TypeOK` |
| `OneDriverAlways` | `Spec => []OneDriver` |
| `StatusRight` | `Spec => []StatusTracksConnection` |
| `ThreadLives` | `Spec => []LivesUntilClose` |
| `ClosedForGood` | `Spec => [](CloseSeen => []Undriven /\ [][wire' = wire]_vars)` |
| `OrderKept` | `Spec => []SentInOrder` |

The three about the callbacks share one inductive invariant, `DriverInv`:
between two callbacks the timer is armed or a connect is under way unless
`Close` was called or a call has failed (`Driven`), and each phase of the
network thread finds the handle in the state it needs (`Phases`). `Undriven`
(closed by the owner, no timer, no connect, no callback half done) is
preserved by every step once `timer_cb` has seen `CLOSE`, although `close_cb`
and `connect_cb` may still overwrite the status. `OrderKept`
needs that the queue behind the wire is in order too and newer than it
(`OrderInv`).

`TCPServerPromiseProofs` continues `TCPServerProofs`, under the same
assumptions:

| Theorem | Statement |
|---|---|
| `WritesKeepOrder` | `Spec => []SendsInOrder` |
| `IdsFollowClients` | `Spec => IdsGrowOnlyWhenAllOnline` |
| `StrayMeansEnded` | `NoNull => (Spec => []StrayOnlyAfterEnd)` |
| `ChunksInOrder` | `NoNull => (Spec => HeardInOrder)` |
| `ServerKeepsPromise` | `NoNull => (Spec => KeepsPromise)` |

`SendInv` adds to `SendsInOrder` that the queue is in order and newer than
what is written. `IdsFollowClients` is a fact about `GetConnectionID` and
`IdsAccounted`: if no released id waits, all ids issued are online.
`ReachInv` says where a queued message and a known client stand: the id still
stands for that client, or the client has left for good. `SessionInv` is what the
refinement and `HeardInOrder` share: a stream being read is of a client that
has connected (`PeerOK`); the queue holds exactly the chunks of a client that are read and
not yet heard, in order, and nothing of it after its notice (`ChunkInv`); a
client with a notice has ended, and was read to the end if it closed in good
order (`EndInv`); and a client has one id, in the queue, in the table and for
the logic thread (`OneIdInv`).

`DatabaseThreadPoolProofs` proves, for any threads, databases, SQL connections
and bounds:

| Theorem | Statement |
|---|---|
| `TypeCorrect` | `Spec => []TypeOK` |
| `TasksInOrder` | `Spec => []TakenInOrder` |
| `SqlNeverShared` | `Spec => []SqlExclusive` |
| `SqlRightDatabase` | `Spec => []RightDatabase` |
| `SqlsBounded` | `Spec => []ConnectionsBounded` |
| `WokenPaidFor` | `Spec => []WokenFindTasks` |
| `ThreadsLast` | `Spec => []WorkersLast` |
| `HoldersMoveOn` | `Spec => [][\A w \in Workers : sql[w] # NoSql => MovesOn(w)]_vars` |
| `PoolKeepsPromise` | `Spec => KeepsPromise` |

`TypeInv` is `TypeOK` with what a thread has at each label of `run`
(`PhaseOK`) and the numbers of the queued tasks (`QueueOK`). `SqlInv` is
`SqlExclusive` and `RightDatabase` together: neither is inductive alone, since
a connection just opened must be one nobody has, and that is known from its
being home nowhere. `NoneLost`, the last part of `RightDatabase`, says
conversely that no open connection drops out of the program.
`BoundInv` is the bound on the used connections of one database, with their
being finite; the step with content is `GetNewSql`, taken only when none is
free, so that the thread that takes it was one without. `BudgetInv` counts
wakeups: each woken thread is paid for by an element of the queue or a
spurious wakeup, and in an open pool so is each thread that has ended, by a
spurious one. `DrainInv` is for the closed pool: no task posted is missing
from the queue (counted with those taken), the tasks not yet taken stand
before the null pointers, and a thread that ended without a spurious wakeup
found none left. `HoldersMoveOn` is the safety half of `ConnectionComesBack`:
a thread that holds a connection either stays where it is with it, or moves
from connecting to the query, from the query to giving it back, or gives it
back; what it gives back and is open is free afterwards. No step of another
thread moves it.

`DBAppProofs` extends it with DBApp's main loop:

| Theorem | Statement |
|---|---|
| `AppTypeCorrect` | `AppSpec => []AppTypeOK` |
| `HeldNeverClosed` | `AppSpec => []RightDatabase` |
| `AppSqlNeverShared` | `AppSpec => []SqlExclusive` |
| `AppTasksInOrder` | `AppSpec => []TakenInOrder` |
| `AppThreadsLast` | `AppSpec => [](WokenFindTasks /\ WorkersLast)` |
| `PoolingIsVain` | `AppSpec => []NeverPooled` |
| `OpenBounded` | `AppSpec => []OpenSqlsBounded` |
| `AppKeepsPromise` | `AppSpec => KeepsPromise` |

DBApp is not an instance of the pool's specification: its rounds replace
databases, which the pool alone never does, so none of the pool's theorems
carries over by itself. What carries over are the step lemmas. `AppInv` is
`AppTypeOK` with the pool's `TypeInv`, `SqlInv` and `BudgetInv`, its being
open, and two facts about the `Connction`s that are replaced: no two tasks,
queued or running, have the same one (`OneUse`), and that of a queued or
running task has no free connection (`Fresh`). A step of a thread keeps the
pool's part by the pool's lemmas; for a round, `SqlRound` shows that what
closes was free and used by no one, and `BudgetRound` that a post pays for the
thread it wakes. From `Fresh` every connection a task takes is new
(`PoolingIsVain`). For `AppKeepsPromise`, `RoundPromise` shows that a round is
`Accept` or `GiveUp`.

`GameServerProofs` proves about the game server, for any clients, ids, names
and bounds (assumptions: vocations are varints of 1 to 5 or 10 bytes or left
out, unknown commands are not registered; names may have any length, as a
chunk of 65536 bytes bounds what of them arrives):

| Theorem | Statement |
|---|---|
| `GameTypeCorrect` | `GameSpec => []GameTypeOK` |
| `RolesFollowClients` | `GameSpec => []RoleOfClient` |
| `AnswersFollowRequests` | `GameSpec => []AnswersInOrder` |
| `HeadsRight` | `GameSpec => []PackRight` |

`RoleInv` adds to `RoleOfClient` that a client that has created a role has
been heard, so that an id given to a client for the first time is that of one
without a role. `HeadInv` says of the replies still to be sent what
`PackRight` says of those that were: with a `RoleList` of n bytes of name and
a vocation field of v, the body has n + v + 51 bytes, so the head is right
below n + v = 65481, and `Pack` writes past its buffer from there to 65484,
where the length of the body itself wraps. `OrderInv` follows a reply
from its request to the wire: what is sent and written is in order
(`Sequenced`), is the reply due with its number (`Answers`), and what is still
to be sent is the end of what is due (`Pending`).

`GameSystemProofs` carries them over to the program as it runs, under the
assumptions of both parts and for any streams:

| Theorem | Statement |
|---|---|
| `SystemPlaysGame` | `SysSpec => PlaysGame` |
| `SystemRoles` | `SysSpec => []RoleOfClient` |
| `SystemAnswers` | `SysSpec => []AnswersInOrder` |
| `SystemHeads` | `SysSpec => []PackRight` |

`ServerKeepsPromise` alone does not give this: it is about a logic thread that
may send at any time, and says nothing of what the game server's own variables
do in that step. `SystemPlaysGame` is proved step by step, by an induction over
both parts at once: `GameTypeOK` of the one, `ServerInv` of the other, the
conjunction of the invariants of `TCPServerPromiseProofs`, taken over by
instancing that module with a server that is never closed. Each depends on the
other: the game server's call of `PushSendMessage` is one that `TCPServer`
allows because the id it answers is known (`GameTypeOK`), and it stays known
while the replies are sent because only the logic thread itself hears the end
of a client. A null message of the receive queue is a `HearEnd`, any other a
`HearChunk` of its client, by the step mapping of `ServerKeepsPromise`. The
game server's buffers are `text` or `zero`, never `null`, so the condition
`NoNull` of the server's theorems is met.

Model-checked only: all liveness (`DisconnectReported`, `SendsHandled`,
`CloseReturns`, `Reconnects`, `LossNoticed`, `CloseReturnsOnceSeen`,
`ConnectionComesBack`, `CloseEndsIdlePool`), since fairness and ENABLED are
out of the prover's reach, and the disagreements, which are counterexamples.
For four of them the safety half is a theorem, the part that says no step
undoes the progress made (`EndsMoveOn`, `CloseLasts`, `ClosedForGood`, `HoldersMoveOn`); that
the steps are taken is what TLC checks. Every invariant and every action or
refinement property of the passing runs is a theorem.

## 5. Order of the work, and what is left

The order in which the system was taken on: the network server, since both
programs depend on it; its client; the pool, with DBApp over it; the codec and
the game server over what the network server promises; the proofs of each,
with the refinements of `ClientSessions` and `TaskPool`; then the two programs
as wholes, the game server over its network thread (`GameSystem`) and DBApp
over its pool, each with the refinement and the theorems about the whole.

What could be added without a new component: larger constants for TLC (the
theorems hold for every value already), the safety halves of
`Reconnects` and `LossNoticed`, and the liveness of a whole request (a login that
is not dropped is answered), which needs fairness in `ClientSessions` that
refines that of `TCPServer`.

## 6. Not modelled, and why

- By lines, most of the repository is generated or vendored: protocol buffers
  and their tests, `NetMessage.pb.*`, TBB, libuv. They have no logic of this
  system, and what the modules use of them is described above; the modules
  cover the programs' own code.
- `Server/NetApp/Buffer.h`, `Observer.*` and `NetApp.cpp`: `NetApp.cpp`
  includes `Connection.hpp` and `Connection.cpp`, which the repository does
  not have, so its program does not build. No program has a buffer, the
  observers are an empty frame. A model would start from states nothing
  reaches.
- `Server/netPack`: sequential streams over a byte array that no program of
  the repository calls.
- `LogApp`: a sample of Boost.Log. Its barrier, sink and ordering queue are
  library objects; the code configures them and has no state of its own.
- `ServerApp/NetSocket`: an older libuv wrapper. `ServerApp` only starts its
  server, sets no callback, and spins. Nothing in the repository sends with
  it, closes it or makes its client, so what could go wrong there (a lock taken
  on one path only, a `connect` that spins when its thread fails early) happens
  in no program.
- In the game server, what a protocol buffer contains apart from the name and
  the vocation (its length is that of the other fields, `Others`), and the
  values of the fixed fields of the replies, which carry no state. A request
  that gives a field a value with a byte 0 in it (an empty name, a vocation of
  0) is cut short at that byte; it is among the chunks that are ignored.
- The contents of messages and of query results, formatting and console
  output: no property is about them. `strlen(buf->base)` in `after_read`
  (`NetFrame.cpp:73`) reads a buffer that need not end in 0; its result is
  unused.
- The destructor of `TCPServer` calls `uv_stop` from the owner's thread; both
  mains run for ever, so it is not reached.
- `ProducerConsumerQueue::Pop` and `Empty` have no caller.
- libuv, TBB, MySQL, protocol buffers: outside the code; what the modules use
  of them (callback serialisation, a linearisable queue, a wait set) is marked
  external or described above.
- GameClient is commented out for the most part; Mail is empty; generated code
  has no logic of its own.
