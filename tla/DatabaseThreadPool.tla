------------------------- MODULE DatabaseThreadPool -------------------------
(***************************************************************************)
(* DBApp's pool of database threads (Server/DBApp/DatabaseThreadPool.h),   *)
(* the queue that feeds it (ProducerConsumerQueue.h) and the pools of SQL  *)
(* connections its tasks use (Connction in NewConnection.h).               *)
(*                                                                         *)
(* The owner posts tasks and may close the pool; every worker runs         *)
(* DatabaseThreadPool::run.  Push, and each of the two halves WaitAndPop   *)
(* falls into around condition_variable::wait, hold _queueLock from their  *)
(* first to their last access of the queue, and are one step each.  A      *)
(* worker blocked in wait is "waiting"; once notified, or woken up         *)
(* spuriously, it is "woken" until it has the lock again.  The text of a   *)
(* query and its result are left out: a task is its number and the         *)
(* Connction it names, 0 and NoConnction for a default TaskInfo.           *)
(***************************************************************************)
EXTENDS Naturals, Sequences, FiniteSets

CONSTANTS
  Workers,      \* the threads of ThreadPool
  Connctions,   \* Connction objects, one per database
  Sqls,         \* addresses of MySqlConnection objects
  NoConnction,  \* the null Connction pointer
  NoSql,        \* the null connection pointer
  ShutDownInit, \* the values _shutDown may hold, nothing initialises it
  MaxTasks,     \* bound: tasks posted
  MaxSpurious   \* bound: spurious wakeups

ASSUME WorkersAssumption == IsFiniteSet(Workers)
ASSUME NoConnctionAssumption == NoConnction \notin Connctions
ASSUME NoSqlAssumption == NoSql \notin Sqls
ASSUME ShutDownAssumption == ShutDownInit \subseteq BOOLEAN
ASSUME BoundsAssumption == MaxTasks \in Nat /\ MaxSpurious \in Nat

VARIABLES
  queue,      \* _queue
  shutDown,   \* _shutDown # 0
  pc,         \* where each worker is in run
  task,       \* its local value
  sql,        \* its local conn
  que,        \* free SQL connections of each Connction
  home,       \* the Connction that opened each MySqlConnection
  pool,       \* what the owner does: "open", "closing", "joining", "joined"
  nulls,      \* null tasks ClosePool has pushed
  posted,     \* tasks posted so far
  spurious,   \* spurious wakeups so far
  taken       \* history: the numbers of the tasks workers popped

queueVars == <<queue, shutDown, spurious>>
workerVars == <<pc, task, sql>>
sqlVars == <<que, home>>
ownerVars == <<pool, nulls, posted>>
vars == <<queue, shutDown, pc, task, sql, que, home, pool, nulls, posted,
          spurious, taken>>

Tasks == [id : 0..MaxTasks, conn : Connctions \cup {NoConnction}]
NoTask == [id |-> 0, conn |-> NoConnction]
In(S) == {w \in Workers : pc[w] \in S}

TypeOK ==
  /\ queue \in Seq(Tasks)
  /\ shutDown \in BOOLEAN
  /\ pc \in [Workers -> {"run", "waiting", "woken", "get", "init", "query",
                         "release", "ended"}]
  /\ task \in [Workers -> Tasks]
  /\ sql \in [Workers -> Sqls \cup {NoSql}]
  /\ que \in [Connctions -> Seq(Sqls)]
  /\ home \in [Sqls -> Connctions \cup {NoConnction}]
  /\ pool \in {"open", "closing", "joining", "joined"}
  /\ nulls \in 0..Cardinality(Workers)
  /\ posted \in 0..MaxTasks
  /\ spurious \in 0..MaxSpurious
  /\ taken \in Seq(1..MaxTasks)

\* CreateThreadPool has started the threads; none has reached the queue yet.
Init ==
  /\ queue = <<>>
  /\ shutDown \in ShutDownInit
  /\ pc = [w \in Workers |-> "run"]
  /\ task = [w \in Workers |-> NoTask]
  /\ sql = [w \in Workers |-> NoSql]
  /\ que = [p \in Connctions |-> <<>>]
  /\ home = [x \in Sqls |-> NoConnction]
  /\ pool = "open"
  /\ nulls = 0
  /\ posted = 0
  /\ spurious = 0
  /\ taken = <<>>

-----------------------------------------------------------------------------
(* ProducerConsumerQueue.                                                  *)

Goto(w, l) == pc' = [pc EXCEPT ![w] = l]

\* notify_one wakes one waiting thread, or nobody: nothing remembers it.
NotifyOne ==
  \/ \E w \in In({"waiting"}) : Goto(w, "woken")
  \/ In({"waiting"}) = {} /\ UNCHANGED pc

\* Wrong variants of Push: all waiting threads are notified; the task is
\* pushed before the others.
Push_NotifyAll(t) ==
  /\ queue' = Append(queue, t)
  /\ pc' = [w \in Workers |-> IF pc[w] = "waiting" THEN "woken" ELSE pc[w]]
Push_Front(t) == queue' = <<t>> \o queue /\ NotifyOne

Push(t) == queue' = Append(queue, t) /\ NotifyOne

\* WaitAndPop as far as wait(lock): the queue is not looked at.
Wait(w) ==
  /\ pc[w] = "run"
  /\ Goto(w, "waiting")
  /\ UNCHANGED <<queueVars, task, sql, sqlVars, ownerVars, taken>>

SpuriousWakeup(w) ==
  /\ pc[w] = "waiting"
  /\ spurious < MaxSpurious
  /\ spurious' = spurious + 1
  /\ Goto(w, "woken")
  /\ UNCHANGED <<queue, shutDown, task, sql, sqlVars, ownerVars, taken>>

-----------------------------------------------------------------------------
(* DatabaseThreadPool::run, from the return of wait on.                    *)

\* WaitAndPop returns with value untouched, a default TaskInfo: run breaks
\* out of its loop.
WakeToNothing(w) ==
  /\ pc[w] = "woken"
  /\ queue = <<>> \/ shutDown
  /\ Goto(w, "ended")
  /\ UNCHANGED <<queueVars, task, sql, sqlVars, ownerVars, taken>>

\* WaitAndPop pops a null task: run breaks out of its loop.
PopNull(w) ==
  /\ pc[w] = "woken"
  /\ queue # <<>> /\ ~shutDown
  /\ Head(queue).conn = NoConnction
  /\ queue' = Tail(queue)
  /\ Goto(w, "ended")
  /\ UNCHANGED <<shutDown, spurious, task, sql, sqlVars, ownerVars, taken>>

\* WaitAndPop pops a task.
PopTask(w) ==
  /\ pc[w] = "woken"
  /\ queue # <<>> /\ ~shutDown
  /\ Head(queue).conn # NoConnction
  /\ queue' = Tail(queue)
  /\ task' = [task EXCEPT ![w] = Head(queue)]
  /\ taken' = Append(taken, Head(queue).id)
  /\ Goto(w, "get")
  /\ UNCHANGED <<shutDown, spurious, sql, sqlVars, ownerVars>>

\* Wrong variant of try_pop: the connection stays in the queue.
PopSql_Keep(p) == UNCHANGED que

PopSql(p) == que' = [que EXCEPT ![p] = Tail(@)]

\* GetSqlConnection finds a free connection of the task's Connction.
GetFreeSql(w) ==
  LET p == task[w].conn IN
  /\ pc[w] = "get"
  /\ que[p] # <<>>
  /\ sql' = [sql EXCEPT ![w] = Head(que[p])]
  /\ PopSql(p)
  /\ Goto(w, "query")
  /\ UNCHANGED <<queueVars, task, home, ownerVars, taken>>

\* Wrong variant of the test for a new connection: every task gets one.
NeedNewSql_Always(w) == pc[w] = "get"

NeedNewSql(w) == pc[w] = "get" /\ que[task[w].conn] = <<>>

\* try_pop finds none: a new MySqlConnection is made ...
GetNewSql(w) ==
  /\ NeedNewSql(w)
  /\ \E x \in Sqls :
       /\ home[x] = NoConnction
       /\ sql' = [sql EXCEPT ![w] = x]
       /\ home' = [home EXCEPT ![x] = task[w].conn]
  /\ Goto(w, "init")
  /\ UNCHANGED <<queueVars, task, que, ownerVars, taken>>

\* ... and connects, which takes time: other workers go on meanwhile.
InitSql(w) ==
  /\ pc[w] = "init"
  /\ Goto(w, "query")
  /\ UNCHANGED <<queueVars, task, sql, sqlVars, ownerVars, taken>>

\* Wrong variant of run: it goes on with a null connection.
InitSqlFail_NoCheck(w) ==
  /\ pc[w] = "init"
  /\ home' = [home EXCEPT ![sql[w]] = NoConnction]
  /\ sql' = [sql EXCEPT ![w] = NoSql]
  /\ Goto(w, "query")
  /\ UNCHANGED <<queueVars, task, que, ownerVars, taken>>

\* init fails: the connection is dropped, and so is the task.
InitSqlFail(w) ==
  /\ pc[w] = "init"
  /\ home' = [home EXCEPT ![sql[w]] = NoConnction]
  /\ sql' = [sql EXCEPT ![w] = NoSql]
  /\ task' = [task EXCEPT ![w] = NoTask]
  /\ Goto(w, "run")
  /\ UNCHANGED <<queueVars, que, ownerVars, taken>>

\* Query returns.
Query(w) ==
  /\ pc[w] = "query"
  /\ Goto(w, "release")
  /\ UNCHANGED <<queueVars, task, sql, sqlVars, ownerVars, taken>>

\* Wrong variants of PushConnection: the connection is not given back; it is
\* given back to some other Connction.
GiveBack_Forget(p, x) == UNCHANGED que
GiveBack_Other(p, x) == \E q \in Connctions : que' = [que EXCEPT ![q] = Append(@, x)]

GiveBack(p, x) == que' = [que EXCEPT ![p] = Append(@, x)]

\* PushConnection, and the end of the iteration.
PushConnection(w) ==
  /\ pc[w] = "release"
  /\ GiveBack(task[w].conn, sql[w])
  /\ sql' = [sql EXCEPT ![w] = NoSql]
  /\ task' = [task EXCEPT ![w] = NoTask]
  /\ Goto(w, "run")
  /\ UNCHANGED <<queueVars, home, ownerVars, taken>>

-----------------------------------------------------------------------------
(* The owner.                                                              *)

\* post
Post(p) ==
  /\ pool = "open"
  /\ posted < MaxTasks
  /\ posted' = posted + 1
  /\ Push([id |-> posted + 1, conn |-> p])
  /\ UNCHANGED <<shutDown, spurious, task, sql, sqlVars, pool, nulls, taken>>

\* Wrong variant of ClosePool's bound: one null task is missing.
NullsNeeded_OneLess == Cardinality(Workers) - 1

NullsNeeded == Cardinality(Workers)

\* ClosePool: one null task for each thread, pushed one at a time.
ClosePool ==
  /\ pool \in {"open", "closing"}
  /\ nulls < NullsNeeded
  /\ pool' = "closing"
  /\ nulls' = nulls + 1
  /\ Push(NoTask)
  /\ UNCHANGED <<shutDown, spurious, task, sql, sqlVars, posted, taken>>

ClosePoolReturns ==
  /\ pool = "closing"
  /\ nulls = NullsNeeded
  /\ pool' = "joining"
  /\ UNCHANGED <<queueVars, workerVars, sqlVars, nulls, posted, taken>>

\* wait: join returns for every thread.
Join ==
  /\ pool = "joining"
  /\ In({"ended"}) = Workers
  /\ pool' = "joined"
  /\ UNCHANGED <<queueVars, workerVars, sqlVars, nulls, posted, taken>>

-----------------------------------------------------------------------------
Run(w) ==
  \/ Wait(w) \/ WakeToNothing(w) \/ PopNull(w) \/ PopTask(w)
  \/ GetFreeSql(w) \/ GetNewSql(w) \/ InitSql(w) \/ InitSqlFail(w)
  \/ Query(w) \/ PushConnection(w)

Owner ==
  \/ \E p \in Connctions : Post(p)
  \/ ClosePool \/ ClosePoolReturns \/ Join

Next ==
  \/ \E w \in Workers : Run(w) \/ SpuriousWakeup(w)
  \/ Owner

Spec == Init /\ [][Next]_vars

\* Every thread that can go on does (queries and connects return), and the
\* owner carries a ClosePool it has begun to its end.
Fairness ==
  /\ \A w \in Workers : WF_vars(Run(w))
  /\ WF_vars(pool = "closing" /\ ClosePool)
  /\ WF_vars(ClosePoolReturns) /\ WF_vars(Join)

FairSpec == Spec /\ Fairness
-----------------------------------------------------------------------------
(* Properties.                                                             *)

Held(p) == {sql[w] : w \in {v \in Workers : sql[v] # NoSql /\ task[v].conn = p}}
Free(p) == {que[p][i] : i \in 1..Len(que[p])}

\* An SQL connection is never used by two threads, never free while a thread
\* uses it, and never free twice: try_pop and push hand it over whole.
SqlExclusive ==
  /\ \A v, w \in Workers : v # w /\ sql[v] # NoSql => sql[v] # sql[w]
  /\ \A w \in Workers, p \in Connctions : sql[w] \notin Free(p)
  /\ \A p, q \in Connctions : \A i \in 1..Len(que[p]), j \in 1..Len(que[q]) :
       que[p][i] = que[q][j] => p = q /\ i = j

NoneLost == \A x \in Sqls : home[x] # NoConnction =>
              (\E w \in Workers : sql[w] = x) \/ x \in Free(home[x])

\* A query runs on a connection opened for the database its task names ("each
\* Connction stands for one server", NewConnection.h:15), and a connection
\* that is open is in use or free: none is lost between a thread and the pool.
RightDatabase ==
  /\ \A w \in Workers : sql[w] # NoSql => home[sql[w]] = task[w].conn
  /\ \A p \in Connctions : \A x \in Free(p) : home[x] = p
  /\ NoneLost

\* GetSqlConnection opens a connection only when all those of the Connction
\* are in use, so no Connction ever has more of them than there are threads.
ConnectionsBounded ==
  \A p \in Connctions : Cardinality(Held(p) \cup Free(p)) <= Cardinality(Workers)

\* Threads pop the tasks in the order of post, each once, none skipped.
TakenInOrder ==
  /\ \A i \in 1..Len(taken) : taken[i] = i
  /\ \A i \in 1..Len(queue) : queue[i].conn # NoConnction =>
       queue[i].id = Len(taken) + i

\* A notified thread finds a task, although wait has no predicate: each wakeup
\* has a Push of its own, and only a spurious one can take what it left.
WokenFindTasks == Cardinality(In({"woken"})) <= Len(queue) + spurious

\* As long as the pool is open no thread ends, except one for each spurious
\* wakeup: run takes a wakeup to an empty queue for the null task.  Without
\* one, no thread ends before every task posted has been taken: ClosePool lets
\* the threads finish what is queued.
WorkersLast ==
  /\ pool = "open" /\ ~shutDown => Cardinality(In({"ended"})) <= spurious
  /\ ~shutDown /\ spurious = 0 /\ In({"ended"}) # {} => Len(taken) = posted

\* What all this promises those who post tasks, without the queue, the
\* condition variable and the free lists: the pool implements TaskPool.
Promise == INSTANCE TaskPool WITH
  begun <- Len(taken),
  busy <- [w \in Workers |-> task[w].id],
  held <- sql,
  ended <- In({"ended"})
KeepsPromise == Promise!PoolSpec

\* A connection a thread holds comes back to the free ones, or fails to open.
ConnectionComesBack ==
  \A x \in Sqls : (\E w \in Workers : sql[w] = x)
    ~> (home[x] = NoConnction \/ x \in Free(home[x]))

\* ClosePool and wait end the pool when they find every thread blocked in
\* WaitAndPop and no task left: the first null task then has woken one of them.
ClosedWhenIdle ==
  /\ pool = "closing" /\ nulls = 1 /\ Len(queue) = 1
  /\ Cardinality(In({"woken"})) = 1 /\ In({"waiting", "woken"}) = Workers

CloseEndsIdlePool == ClosedWhenIdle ~> (pool = "joined")

\* ClosePool ends the threads, whatever they do ("use null pointers to end the
\* threads", DatabaseThreadPool.h:65).
CloseEndsPool == (pool = "closing") ~> (pool = "joined")
=============================================================================
