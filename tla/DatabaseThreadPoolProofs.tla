---------------------- MODULE DatabaseThreadPoolProofs ----------------------
(***************************************************************************)
(* Proofs about DatabaseThreadPool, for every finite set of threads, every *)
(* set of databases and SQL connections, and every bound.                  *)
(***************************************************************************)
EXTENDS DatabaseThreadPool, FiniteSetTheorems, TLAPS

\* Elements of a queue that has been pushed to, or popped from.
LEMMA AppendFacts ==
  ASSUME NEW S, NEW q \in Seq(S), NEW e \in S
  PROVE  /\ Append(q, e) \in Seq(S)
         /\ Len(Append(q, e)) = Len(q) + 1
         /\ \A i \in 1..Len(q) : Append(q, e)[i] = q[i]
         /\ Append(q, e)[Len(q) + 1] = e
OBVIOUS

LEMMA TailFacts ==
  ASSUME NEW S, NEW q \in Seq(S), q # <<>>
  PROVE  /\ Head(q) \in S /\ Head(q) = q[1] /\ Len(q) >= 1
         /\ Tail(q) \in Seq(S)
         /\ Len(Tail(q)) = Len(q) - 1
         /\ \A i \in 1..Len(Tail(q)) : Tail(q)[i] = q[i + 1]
OBVIOUS

LEMMA NoTaskType == NoTask \in Tasks /\ NoTask.id = 0 /\ NoTask.conn = NoConnction
  BY BoundsAssumption DEF NoTask, Tasks

-----------------------------------------------------------------------------
(* Types.  A thread has a task from PopTask to the end of its iteration,   *)
(* and a connection from GetSqlConnection to there.  Real tasks have their *)
(* number and a database, and come before the null tasks.                  *)

Working == {"get", "init", "query", "release"}
Holding == {"init", "query", "release"}

PhaseOK ==
  \A w \in Workers :
    /\ pc[w] \in Working => task[w].id \in 1..MaxTasks /\ task[w].conn \in Connctions
    /\ pc[w] \notin Working => task[w] = NoTask
    /\ pc[w] \in Holding => sql[w] \in Sqls
    /\ pc[w] \notin Holding => sql[w] = NoSql

QueueOK ==
  /\ \A i \in 1..Len(queue) : queue[i].conn # NoConnction =>
       queue[i].id = Len(taken) + i /\ queue[i].id <= posted
  /\ \A i, j \in 1..Len(queue) :
       i < j /\ queue[i].conn = NoConnction => queue[j].conn = NoConnction
  /\ pool = "open" => /\ nulls = 0
                      /\ posted = Len(taken) + Len(queue)
                      /\ \A i \in 1..Len(queue) : queue[i].conn # NoConnction
  /\ Len(taken) <= posted
  /\ \A i \in 1..Len(taken) : taken[i] = i

TypeInv == TypeOK /\ PhaseOK /\ QueueOK

LEMMA TypeInit == Init => TypeInv
  <1> SUFFICES ASSUME Init PROVE TypeInv
    OBVIOUS
  <1> USE BoundsAssumption DEF Init
  <1>1. Cardinality(Workers) \in Nat
    BY WorkersAssumption, FS_CardinalityType
  <1>2. TypeOK
    BY <1>1, NoTaskType, ShutDownAssumption DEF TypeOK
  <1>3. PhaseOK
    BY DEF PhaseOK, Working, Holding
  <1>4. QueueOK
    BY DEF QueueOK
  <1> QED BY <1>2, <1>3, <1>4 DEF TypeInv

\* What a step that leaves the queue and the owner alone has to show.
LEMMA QueueSame ==
  ASSUME QueueOK, UNCHANGED <<queue, taken, posted, pool, nulls>>
  PROVE  QueueOK'
  BY DEF QueueOK

\* NotifyOne only moves a waiting thread.
LEMMA NotifyPhases ==
  ASSUME TypeInv, NotifyOne, UNCHANGED <<task, sql>>
  PROVE  PhaseOK' /\ pc' \in [Workers -> {"run", "waiting", "woken", "get",
                              "init", "query", "release", "ended"}]
  BY DEF TypeInv, TypeOK, PhaseOK, NotifyOne, In, Goto, Working, Holding

\* The steps of a thread that only moves on.
LEMMA TypeMoves ==
  ASSUME TypeInv, NEW w \in Workers,
         \/ Wait(w) \/ SpuriousWakeup(w) \/ WakeToNothing(w)
         \/ InitSql(w) \/ Query(w)
  PROVE  TypeInv'
  <1> USE BoundsAssumption DEF TypeInv, Goto
  <1>1. TypeOK'
    <2>1. CASE SpuriousWakeup(w)
      BY <2>1 DEF TypeOK, SpuriousWakeup, sqlVars, ownerVars
    <2>2. CASE ~SpuriousWakeup(w)
      <3>1. UNCHANGED <<queueVars, task, sql, sqlVars, ownerVars, taken>>
        BY <2>2 DEF Wait, WakeToNothing, InitSql, Query
      <3>2. pc' \in [Workers -> {"run", "waiting", "woken", "get", "init", "query",
                                "release", "ended"}]
        BY <2>2 DEF TypeOK, Wait, WakeToNothing, InitSql, Query
      <3> QED BY <3>1, <3>2 DEF TypeOK, queueVars, sqlVars, ownerVars
    <2> QED BY <2>1, <2>2
  <1>2. PhaseOK'
    BY DEF TypeOK, PhaseOK, Working, Holding, Wait, SpuriousWakeup, WakeToNothing,
           InitSql, Query
  <1>3. QueueOK'
    BY QueueSame DEF Wait, SpuriousWakeup, WakeToNothing, InitSql, Query,
           queueVars, ownerVars
  <1> QED BY <1>1, <1>2, <1>3

LEMMA TypePopNull ==
  ASSUME TypeInv, NEW w \in Workers, PopNull(w)
  PROVE  TypeInv'
  <1> USE DEF TypeInv, TypeOK, PopNull, Goto, ownerVars
  <1>1. TypeOK'
    BY TailFacts DEF sqlVars
  <1>2. PhaseOK'
    BY DEF PhaseOK, Working, Holding
  <1>3. QueueOK'
    <2>1. \A i \in 1..Len(queue) : queue[i].conn = NoConnction
      BY TailFacts DEF QueueOK
    <2>2. \A i \in 1..Len(queue') : queue'[i].conn = NoConnction
      BY <2>1, TailFacts
    <2>3. pool # "open"
      BY <2>1, TailFacts DEF QueueOK
    <2>4. UNCHANGED <<taken, posted, pool, nulls>>
      OBVIOUS
    <2> QED BY <2>2, <2>3, <2>4 DEF QueueOK
  <1> QED BY <1>1, <1>2, <1>3

LEMMA TypePopTask ==
  ASSUME TypeInv, NEW w \in Workers, PopTask(w)
  PROVE  TypeInv'
  <1> USE BoundsAssumption DEF TypeInv, TypeOK, PopTask, Goto, ownerVars
  <1>1. /\ Head(queue) = queue[1] /\ 1 \in 1..Len(queue)
        /\ Head(queue) \in Tasks
        /\ Head(queue).id = Len(taken) + 1 /\ Len(taken) + 1 <= posted
        /\ Head(queue).id \in 1..MaxTasks
        /\ Head(queue).conn \in Connctions
    <2>1. queue \in Seq(Tasks) /\ queue # <<>> /\ Head(queue).conn # NoConnction
      OBVIOUS
    <2>2. Head(queue) = queue[1] /\ Head(queue) \in Tasks /\ 1 \in 1..Len(queue)
      BY <2>1, TailFacts
    <2>3. Head(queue).id = Len(taken) + 1 /\ Len(taken) + 1 <= posted
      BY <2>1, <2>2 DEF QueueOK
    <2>4. Head(queue).id \in 0..MaxTasks /\ Head(queue).conn \in Connctions
      BY <2>1, <2>2 DEF Tasks
    <2> QED BY <2>2, <2>3, <2>4
  <1>2. /\ taken' \in Seq(1..MaxTasks)
        /\ Len(taken') = Len(taken) + 1
        /\ \A i \in 1..Len(taken') : taken'[i] = i
    <2>1. taken' = Append(taken, Head(queue).id) /\ \A i \in 1..Len(taken) : taken[i] = i
      BY DEF QueueOK
    <2>2. /\ Append(taken, Head(queue).id) \in Seq(1..MaxTasks)
          /\ Len(Append(taken, Head(queue).id)) = Len(taken) + 1
          /\ \A i \in 1..Len(taken) : Append(taken, Head(queue).id)[i] = taken[i]
          /\ Append(taken, Head(queue).id)[Len(taken) + 1] = Head(queue).id
      <3>1. taken \in Seq(1..MaxTasks) /\ Head(queue).id \in 1..MaxTasks
        BY <1>1
      <3> HIDE DEF TypeInv, TypeOK, PopTask
      <3> QED BY <3>1, AppendFacts
    <2>3. \A i \in 1..Len(taken') : i \in 1..Len(taken) \/ i = Len(taken) + 1
      BY <2>1, <2>2
    <2> QED BY <1>1, <2>1, <2>2, <2>3
  <1>3. TypeOK'
    BY <1>1, <1>2, TailFacts DEF sqlVars
  <1>4. PhaseOK'
    BY <1>1 DEF PhaseOK, Working, Holding
  <1>5. QueueOK'
    <2>1. /\ queue' \in Seq(Tasks) /\ Len(queue') = Len(queue) - 1
          /\ \A i \in 1..Len(queue') : queue'[i] = queue[i + 1] /\ i + 1 \in 1..Len(queue)
      BY TailFacts
    <2>2. \A i \in 1..Len(queue') : queue'[i].conn # NoConnction =>
            queue'[i].id = Len(taken') + i /\ queue'[i].id <= posted
      BY <1>1, <1>2, <2>1 DEF QueueOK
    <2>3. \A i, j \in 1..Len(queue') :
            i < j /\ queue'[i].conn = NoConnction => queue'[j].conn = NoConnction
      <3>1. TAKE i, j \in 1..Len(queue')
      <3>2. i < j => i + 1 < j + 1
        OBVIOUS
      <3> QED BY <2>1, <3>1, <3>2 DEF QueueOK
    <2>4. UNCHANGED <<posted, pool, nulls>>
      OBVIOUS
    <2>5. pool = "open" =>
            /\ nulls = 0 /\ posted = Len(taken') + Len(queue')
            /\ \A i \in 1..Len(queue') : queue'[i].conn # NoConnction
      BY <1>1, <1>2, <2>1 DEF QueueOK
    <2> QED BY <1>1, <1>2, <2>2, <2>3, <2>4, <2>5 DEF QueueOK
  <1> QED BY <1>3, <1>4, <1>5

LEMMA TypeGet ==
  ASSUME TypeInv, NEW w \in Workers, GetFreeSql(w) \/ GetNewSql(w)
  PROVE  TypeInv'
  <1> USE DEF TypeInv, TypeOK, Goto
  <1>1. CASE GetFreeSql(w)
    <2> USE <1>1 DEF GetFreeSql, PopSql
    <2>1. task[w].conn \in Connctions
      BY DEF PhaseOK, Working
    <2>2. Head(que[task[w].conn]) \in Sqls /\ Tail(que[task[w].conn]) \in Seq(Sqls)
      BY <2>1, TailFacts
    <2>3. TypeOK'
      BY <2>1, <2>2 DEF queueVars, ownerVars
    <2>4. PhaseOK'
      BY <2>2 DEF PhaseOK, Working, Holding
    <2>5. QueueOK'
      BY QueueSame DEF queueVars, ownerVars
    <2> QED BY <2>3, <2>4, <2>5
  <1>2. CASE GetNewSql(w)
    <2> USE <1>2 DEF GetNewSql, NeedNewSql
    <2>1. task[w].conn \in Connctions
      BY DEF PhaseOK, Working
    <2>2. TypeOK'
      BY <2>1 DEF queueVars, ownerVars
    <2>3. PhaseOK'
      BY DEF PhaseOK, Working, Holding
    <2>4. QueueOK'
      BY QueueSame DEF queueVars, ownerVars
    <2> QED BY <2>2, <2>3, <2>4
  <1> QED BY <1>1, <1>2

LEMMA TypeEndTask ==
  ASSUME TypeInv, NEW w \in Workers, InitSqlFail(w) \/ PushConnection(w)
  PROVE  TypeInv'
  <1> USE NoTaskType DEF TypeInv, TypeOK, Goto
  <1>1. task[w].conn \in Connctions /\ sql[w] \in Sqls
    BY DEF PhaseOK, Working, Holding, InitSqlFail, PushConnection
  <1>2. TypeOK'
    <2>1. CASE InitSqlFail(w)
      BY <1>1, <2>1 DEF InitSqlFail, queueVars, ownerVars
    <2>2. CASE PushConnection(w)
      <3>1. que' \in [Connctions -> Seq(Sqls)]
        BY <1>1, <2>2, AppendFacts DEF PushConnection, GiveBack
      <3> QED BY <3>1, <2>2 DEF PushConnection, queueVars, ownerVars
    <2> QED BY <2>1, <2>2
  <1>3. PhaseOK'
    BY DEF PhaseOK, Working, Holding, InitSqlFail, PushConnection
  <1>4. QueueOK'
    BY QueueSame DEF InitSqlFail, PushConnection, queueVars, ownerVars
  <1> QED BY <1>2, <1>3, <1>4

\* A task is pushed; nothing is said of the connections.
LEMMA TypePush ==
  ASSUME TypeInv, NEW p \in Connctions,
         pool = "open", posted < MaxTasks, posted' = posted + 1,
         Push([id |-> posted + 1, conn |-> p]),
         que' \in [Connctions -> Seq(Sqls)],
         home' \in [Sqls -> Connctions \cup {NoConnction}],
         UNCHANGED <<shutDown, spurious, task, sql, pool, nulls, taken>>
  PROVE  TypeInv'
  <1> USE BoundsAssumption, NoConnctionAssumption DEF TypeInv, Push
  <1> DEFINE t == [id |-> posted + 1, conn |-> p]
  <1>1. t \in Tasks /\ queue \in Seq(Tasks) /\ posted + 1 \in 1..MaxTasks
    BY DEF TypeOK, Tasks
  <1>2. /\ queue' = Append(queue, t) /\ queue' \in Seq(Tasks)
        /\ Len(queue') = Len(queue) + 1
        /\ \A i \in 1..Len(queue) : queue'[i] = queue[i]
        /\ queue'[Len(queue) + 1] = t
    BY <1>1, AppendFacts
  <1>3. PhaseOK' /\ pc' \in [Workers -> {"run", "waiting", "woken", "get",
                             "init", "query", "release", "ended"}]
    BY NotifyPhases
  <1>4. TypeOK'
    BY <1>1, <1>2, <1>3 DEF TypeOK
  <1>5. QueueOK'
    <2>1. Len(queue) \in Nat /\ Len(taken) \in Nat /\ posted \in Nat
      BY DEF TypeOK
    <2>2. \A i \in 1..Len(queue') : i \in 1..Len(queue) \/ i = Len(queue) + 1
      BY <1>2, <2>1
    <2>3. t.conn # NoConnction /\ t.id = posted + 1
      OBVIOUS
    <2>4. QueueOK /\ pool' = pool /\ nulls' = nulls /\ taken' = taken /\ posted' = posted + 1
      OBVIOUS
    <2> HIDE DEF t, TypeInv, Push
    <2>5. \A i \in 1..Len(queue') : queue'[i].conn # NoConnction =>
            queue'[i].id = Len(taken) + i /\ queue'[i].id <= posted + 1
      <3>1. \A i \in 1..Len(queue) : queue'[i].conn # NoConnction =>
              queue'[i].id = Len(taken) + i /\ queue'[i].id <= posted
        BY <1>2, <2>4 DEF QueueOK
      <3>2. posted + 1 = Len(taken) + (Len(queue) + 1)
        BY <2>1, <2>4 DEF QueueOK
      <3>3. \A i \in 1..Len(queue) : Len(taken) + i <= posted => Len(taken) + i <= posted + 1
        BY <2>1
      <3> SUFFICES ASSUME NEW i \in 1..Len(queue'), queue'[i].conn # NoConnction
                   PROVE  queue'[i].id = Len(taken) + i /\ queue'[i].id <= posted + 1
        OBVIOUS
      <3>4. CASE i \in 1..Len(queue)
        BY <3>1, <3>3, <3>4
      <3>5. CASE i = Len(queue) + 1
        <4>1. queue'[i].id = posted + 1
          BY <1>2, <2>3, <3>5
        <4> QED BY <2>1, <3>2, <3>5, <4>1
      <3> QED BY <2>2, <3>4, <3>5
    <2>6. \A i, j \in 1..Len(queue') :
            i < j /\ queue'[i].conn = NoConnction => queue'[j].conn = NoConnction
      BY <1>2, <2>1, <2>2, <2>3, <2>4 DEF QueueOK
    <2>7. /\ nulls = 0 /\ posted + 1 = Len(taken) + Len(queue')
          /\ \A i \in 1..Len(queue') : queue'[i].conn # NoConnction
      BY <1>2, <2>1, <2>2, <2>3, <2>4 DEF QueueOK
    <2> QED BY <2>4, <2>5, <2>6, <2>7 DEF QueueOK
  <1> QED BY <1>3, <1>4, <1>5

LEMMA TypePost ==
  ASSUME TypeInv, NEW p \in Connctions, Post(p)
  PROVE  TypeInv'
  BY TypePush DEF Post, sqlVars, TypeInv, TypeOK

LEMMA TypeClose ==
  ASSUME TypeInv, ClosePool \/ ClosePoolReturns \/ Join
  PROVE  TypeInv'
  <1> USE DEF TypeInv
  <1>c. Cardinality(Workers) \in Nat
    BY WorkersAssumption, FS_CardinalityType
  <1>1. CASE ClosePool
    <2> USE <1>1 DEF ClosePool, Push, NullsNeeded
    <2>1. /\ queue' = Append(queue, NoTask) /\ queue' \in Seq(Tasks)
          /\ Len(queue') = Len(queue) + 1
          /\ \A i \in 1..Len(queue) : queue'[i] = queue[i]
          /\ queue'[Len(queue) + 1] = NoTask
      BY NoTaskType, AppendFacts DEF TypeOK
    <2>2. PhaseOK' /\ pc' \in [Workers -> {"run", "waiting", "woken", "get",
                               "init", "query", "release", "ended"}]
      BY NotifyPhases
    <2>3. TypeOK'
      BY <1>c, <2>1, <2>2 DEF TypeOK, sqlVars
    <2>4. QueueOK'
      <3>1. Len(queue) \in Nat
        BY DEF TypeOK
      <3>2. \A i \in 1..Len(queue') : i \in 1..Len(queue) \/ i = Len(queue) + 1
        BY <2>1, <3>1
      <3> QED BY <2>1, <3>1, <3>2, NoTaskType DEF QueueOK
    <2> QED BY <2>2, <2>3, <2>4
  <1>2. CASE ClosePoolReturns \/ Join
    <2>1. TypeOK'
      BY <1>2 DEF TypeOK, ClosePoolReturns, Join, queueVars, workerVars, sqlVars
    <2>2. PhaseOK'
      BY <1>2 DEF PhaseOK, ClosePoolReturns, Join, workerVars
    <2>3. QueueOK'
      BY <1>2 DEF QueueOK, ClosePoolReturns, Join, queueVars
    <2> QED BY <2>1, <2>2, <2>3
  <1> QED BY <1>1, <1>2

LEMMA TypeStep == TypeInv /\ [Next]_vars => TypeInv'
  <1> SUFFICES ASSUME TypeInv, [Next]_vars PROVE TypeInv'
    OBVIOUS
  <1>1. ASSUME NEW w \in Workers, Run(w) \/ SpuriousWakeup(w) PROVE TypeInv'
    BY <1>1, TypeMoves, TypePopNull, TypePopTask, TypeGet, TypeEndTask DEF Run
  <1>2. CASE Owner
    BY <1>2, TypePost, TypeClose DEF Owner
  <1>3. CASE UNCHANGED vars
    BY <1>3 DEF TypeInv, TypeOK, PhaseOK, QueueOK, vars
  <1> QED BY <1>1, <1>2, <1>3 DEF Next

LEMMA TypeAlways == Spec => []TypeInv
  BY TypeInit, TypeStep, PTL DEF Spec

\* Every variable keeps its type: in particular the queue holds only tasks that
\* were posted, and only SQL connections are given back.
THEOREM TypeCorrect == Spec => []TypeOK
<1>1. TypeInv => TypeOK
  BY DEF TypeInv
<1> QED BY <1>1, TypeAlways, PTL

\* WaitAndPop takes the tasks in the order of post, each once, none skipped.
THEOREM TasksInOrder == Spec => []TakenInOrder
<1>1. TypeInv => TakenInOrder
  BY DEF TypeInv, QueueOK, TakenInOrder
<1> QED BY <1>1, TypeAlways, PTL

-----------------------------------------------------------------------------
(* SQL connections.  One in use or free is home at the Connction it serves, *)
(* so that a new one, home nowhere, is neither.                             *)

SqlInv == SqlExclusive /\ RightDatabase

LEMMA UnopenedUnused ==
  ASSUME TypeInv, SqlInv, NEW x \in Sqls, home[x] = NoConnction
  PROVE  (\A w \in Workers : sql[w] # x) /\ (\A p \in Connctions : x \notin Free(p))
  <1>1. ASSUME NEW w \in Workers, sql[w] = x PROVE FALSE
    <2>1. x # NoSql
      BY NoSqlAssumption
    <2>2. task[w].conn \in Connctions
      BY <1>1, <2>1 DEF TypeInv, PhaseOK, Holding, Working
    <2> QED BY <1>1, <2>1, <2>2, NoConnctionAssumption DEF SqlInv, RightDatabase
  <1>2. ASSUME NEW p \in Connctions, x \in Free(p) PROVE FALSE
    BY <1>2, NoConnctionAssumption DEF SqlInv, RightDatabase
  <1> QED BY <1>1, <1>2

LEMMA SqlInit == Init => SqlInv
  BY DEF Init, SqlInv, SqlExclusive, RightDatabase, NoneLost, Free

\* A step that leaves the connections alone, and the task of every thread that
\* has one.
LEMMA SqlSame ==
  ASSUME SqlInv, UNCHANGED <<sql, que, home>>,
         \A w \in Workers : sql[w] # NoSql => task'[w] = task[w]
  PROVE  SqlInv'
  <1>1. \A p : Free(p)' = Free(p)
    BY DEF Free
  <1> QED BY <1>1 DEF SqlInv, SqlExclusive, RightDatabase, NoneLost

LEMMA SqlGetFree ==
  ASSUME TypeInv, SqlInv, NEW w \in Workers, GetFreeSql(w)
  PROVE  SqlInv'
  <1> DEFINE p == task[w].conn  x == Head(que[p])
  <1>1. p \in Connctions /\ que[p] \in Seq(Sqls) /\ que[p] # <<>> /\ sql[w] = NoSql
    BY DEF GetFreeSql, TypeInv, TypeOK, PhaseOK, Working, Holding
  <1>2. /\ que' = [que EXCEPT ![p] = Tail(que[p])] /\ sql' = [sql EXCEPT ![w] = x]
        /\ UNCHANGED <<task, home>>
    BY DEF GetFreeSql, PopSql
  <1>3. /\ x = que[p][1] /\ x \in Sqls /\ 1 \in 1..Len(que[p])
        /\ Len(Tail(que[p])) = Len(que[p]) - 1
        /\ \A i \in 1..Len(Tail(que[p])) :
             Tail(que[p])[i] = que[p][i + 1] /\ i + 1 \in 1..Len(que[p])
    BY <1>1, TailFacts
  <1> HIDE DEF p, x
  <1>4. \A q \in Connctions : \A i \in 1..Len(que'[q]) :
          /\ q # p => i \in 1..Len(que[q]) /\ que'[q][i] = que[q][i]
          /\ q = p => i + 1 \in 1..Len(que[p]) /\ que'[q][i] = que[p][i + 1]
    BY <1>1, <1>2, <1>3 DEF TypeInv, TypeOK
  <1>5. x \in Free(p) /\ x # NoSql
    BY <1>3, NoSqlAssumption DEF Free
  <1>6. \A q \in Connctions : Free(q)' \subseteq Free(q)
    <2> SUFFICES ASSUME NEW q \in Connctions, NEW i \in 1..Len(que'[q])
                 PROVE  \E j \in 1..Len(que[q]) : que[q][j] = que'[q][i]
      BY DEF Free
    <2>1. CASE q # p
      BY <2>1, <1>4
    <2>2. CASE q = p
      BY <2>2, <1>4
    <2> QED BY <2>1, <2>2
  <1>7. \A q \in Connctions : x \notin Free(q)'
    <2> SUFFICES ASSUME NEW q \in Connctions, NEW i \in 1..Len(que'[q]), que'[q][i] = x
                 PROVE FALSE
      BY DEF Free
    <2>1. CASE q # p
      BY <2>1, <1>1, <1>3, <1>4 DEF SqlInv, SqlExclusive
    <2>2. CASE q = p
      <3>1. i + 1 # 1
        OBVIOUS
      <3> QED BY <2>2, <3>1, <1>1, <1>3, <1>4 DEF SqlInv, SqlExclusive
    <2> QED BY <2>1, <2>2
  <1>8. \A v \in Workers : sql'[v] = IF v = w THEN x ELSE sql[v]
    BY <1>2 DEF TypeInv, TypeOK
  <1>9. \A v \in Workers : sql[v] # x
    BY <1>1, <1>5 DEF SqlInv, SqlExclusive
  <1>10. SqlExclusive'
    <2>1. \A v, u \in Workers : v # u /\ sql'[v] # NoSql => sql'[v] # sql'[u]
      BY <1>8, <1>9 DEF SqlInv, SqlExclusive
    <2>2. \A v \in Workers, q \in Connctions : sql'[v] \notin Free(q)'
      BY <1>6, <1>7, <1>8 DEF SqlInv, SqlExclusive
    <2>3. \A q, r \in Connctions : \A i \in 1..Len(que'[q]), j \in 1..Len(que'[r]) :
            que'[q][i] = que'[r][j] => q = r /\ i = j
      <3>1. SUFFICES ASSUME NEW q \in Connctions, NEW r \in Connctions,
                            NEW i \in 1..Len(que'[q]), NEW j \in 1..Len(que'[r]),
                            que'[q][i] = que'[r][j]
                     PROVE  q = r /\ i = j
        OBVIOUS
      <3>2. \A k \in 1..Len(que[q]), l \in 1..Len(que[r]) :
              que[q][k] = que[r][l] => q = r /\ k = l
        BY DEF SqlInv, SqlExclusive
      <3>3. CASE q = p /\ r = p
        BY <1>4, <3>1, <3>2, <3>3
      <3>4. CASE q # p /\ r # p
        BY <1>4, <3>1, <3>2, <3>4
      <3>5. CASE q = p /\ r # p
        BY <1>4, <3>1, <3>2, <3>5
      <3>6. CASE q # p /\ r = p
        BY <1>4, <3>1, <3>2, <3>6
      <3> QED BY <3>3, <3>4, <3>5, <3>6
    <2> QED BY <2>1, <2>2, <2>3 DEF SqlExclusive
  <1>11. RightDatabase'
    <2>1. home[x] = p
      BY <1>1, <1>5 DEF SqlInv, RightDatabase
    <2>2. NoneLost'
      <3> SUFFICES ASSUME NEW y \in Sqls, home[y] # NoConnction, y \in Free(home[y]), y # x
                   PROVE  y \in Free(home[y])'
        BY <1>1, <1>2, <1>5, <1>8, NoSqlAssumption DEF SqlInv, RightDatabase, NoneLost
      <3>1. home[y] \in Connctions /\ home'[y] = home[y]
        BY <1>2 DEF TypeInv, TypeOK
      <3>2. PICK i \in 1..Len(que[home[y]]) : que[home[y]][i] = y
        BY DEF Free
      <3>3. CASE home[y] = p
        <4>1. i # 1 /\ i - 1 \in 1..Len(Tail(que[p])) /\ (i - 1) + 1 = i
          BY <1>1, <1>3, <3>2, <3>3
        <4>2. que'[p] = Tail(que[p]) /\ Tail(que[p])[i - 1] = y
          BY <1>1, <1>2, <1>3, <3>2, <3>3, <4>1 DEF TypeInv, TypeOK
        <4> QED BY <3>1, <3>3, <4>1, <4>2 DEF Free
      <3>4. CASE home[y] # p
        <4>1. que'[home[y]] = que[home[y]]
          BY <1>2, <3>1, <3>4 DEF TypeInv, TypeOK
        <4> QED BY <3>1, <3>2, <4>1 DEF Free
      <3> QED BY <3>3, <3>4
    <2> QED BY <1>2, <1>6, <1>8, <2>1, <2>2 DEF SqlInv, RightDatabase, p
  <1> QED BY <1>10, <1>11 DEF SqlInv

LEMMA SqlGetNew ==
  ASSUME TypeInv, SqlInv, NEW w \in Workers, GetNewSql(w)
  PROVE  SqlInv'
  <1>1. PICK x \in Sqls : /\ home[x] = NoConnction
                          /\ sql' = [sql EXCEPT ![w] = x]
                          /\ home' = [home EXCEPT ![x] = task[w].conn]
    BY DEF GetNewSql
  <1>2. UNCHANGED <<task, que>>
    BY DEF GetNewSql
  <1>3. /\ \A v \in Workers : sql[v] # x
        /\ \A p \in Connctions : x \notin Free(p)
    BY <1>1, UnopenedUnused
  <1>4. \A v \in Workers : sql'[v] = IF v = w THEN x ELSE sql[v]
    BY <1>1 DEF TypeInv, TypeOK
  <1>5. \A y \in Sqls : home'[y] = IF y = x THEN task[w].conn ELSE home[y]
    BY <1>1 DEF TypeInv, TypeOK
  <1>6. \A p : Free(p)' = Free(p)
    BY <1>2 DEF Free
  <1>7. x # NoSql /\ \A v \in Workers : sql[v] \in Sqls \cup {NoSql}
    BY NoSqlAssumption DEF TypeInv, TypeOK
  <1>8. \A p \in Connctions : Free(p) \subseteq Sqls
    BY DEF TypeInv, TypeOK, Free
  <1>9. SqlExclusive'
    BY <1>2, <1>3, <1>4, <1>6, <1>7 DEF SqlInv, SqlExclusive
  <1>10. NoneLost'
    <2>1. sql[w] = NoSql
      BY DEF GetNewSql, NeedNewSql, TypeInv, PhaseOK, Holding
    <2>2. ASSUME NEW y \in Sqls, home'[y] # NoConnction
          PROVE  (\E v \in Workers : sql'[v] = y) \/ (y \in Free(home[y]))'
      <3>1. CASE y = x
        BY <1>4, <3>1
      <3>2. CASE y # x /\ \E v \in Workers : sql[v] = y
        <4>1. PICK v \in Workers : sql[v] = y /\ v # w
          BY <1>7, <2>1, <3>2, NoSqlAssumption
        <4> QED BY <1>4, <4>1
      <3>3. CASE y # x /\ y \in Free(home[y])
        <4>1. home'[y] = home[y]
          BY <1>5, <3>3
        <4> QED BY <1>2, <3>3, <4>1 DEF Free
      <3> QED BY <1>5, <2>2, <3>1, <3>2, <3>3 DEF SqlInv, RightDatabase, NoneLost
    <2> QED BY <2>2 DEF NoneLost
  <1>11. RightDatabase'
    BY <1>2, <1>3, <1>4, <1>5, <1>6, <1>7, <1>8, <1>10 DEF SqlInv, RightDatabase
  <1> QED BY <1>9, <1>11 DEF SqlInv

LEMMA SqlFail ==
  ASSUME TypeInv, SqlInv, NEW w \in Workers, InitSqlFail(w)
  PROVE  SqlInv'
  <1> DEFINE x == sql[w]
  <1>1. x \in Sqls /\ x # NoSql
    BY NoSqlAssumption DEF InitSqlFail, TypeInv, PhaseOK, Holding
  <1>2. /\ sql' = [sql EXCEPT ![w] = NoSql] /\ home' = [home EXCEPT ![x] = NoConnction]
        /\ task' = [task EXCEPT ![w] = NoTask] /\ que' = que
    BY DEF InitSqlFail
  <1> HIDE DEF x
  <1>3. /\ \A v \in Workers : v # w => sql[v] # x
        /\ \A p \in Connctions : x \notin Free(p)
    BY <1>1 DEF SqlInv, SqlExclusive, x
  <1>4. \A v \in Workers : /\ sql'[v] = IF v = w THEN NoSql ELSE sql[v]
                           /\ v # w => task'[v] = task[v]
    BY <1>2 DEF TypeInv, TypeOK
  <1>5. \A y \in Sqls : y # x => home'[y] = home[y]
    BY <1>2 DEF TypeInv, TypeOK
  <1>6. \A p : Free(p)' = Free(p)
    BY <1>2 DEF Free
  <1>7. \A p \in Connctions : Free(p) \subseteq Sqls
    BY DEF TypeInv, TypeOK, Free
  <1>8. \A v \in Workers : sql[v] \in Sqls \cup {NoSql}
    BY DEF TypeInv, TypeOK
  <1>9. SqlExclusive'
    BY <1>2, <1>4, <1>6, <1>7, NoSqlAssumption DEF SqlInv, SqlExclusive
  <1>10. NoneLost'
    <2>1. home'[x] = NoConnction
      BY <1>1, <1>2 DEF TypeInv, TypeOK
    <2>2. \A v \in Workers : sql[v] # x => v # w
      BY DEF x
    <2> QED BY <1>4, <1>5, <1>6, <2>1, <2>2 DEF SqlInv, RightDatabase, NoneLost
  <1>11. RightDatabase'
    BY <1>3, <1>4, <1>5, <1>6, <1>7, <1>8, <1>10 DEF SqlInv, RightDatabase
  <1> QED BY <1>9, <1>11 DEF SqlInv

LEMMA SqlPush ==
  ASSUME TypeInv, SqlInv, NEW w \in Workers, PushConnection(w)
  PROVE  SqlInv'
  <1> DEFINE p == task[w].conn  x == sql[w]
  <1>1. p \in Connctions /\ x \in Sqls /\ x # NoSql
    BY NoSqlAssumption DEF PushConnection, TypeInv, PhaseOK, Working, Holding
  <1>2. /\ que' = [que EXCEPT ![p] = Append(que[p], x)]
        /\ sql' = [sql EXCEPT ![w] = NoSql] /\ task' = [task EXCEPT ![w] = NoTask]
        /\ home' = home
    BY DEF PushConnection, GiveBack
  <1>3. /\ \A v \in Workers : v # w => sql[v] # x
        /\ \A q \in Connctions : x \notin Free(q)
        /\ home[x] = p
    BY <1>1 DEF SqlInv, SqlExclusive, RightDatabase
  <1> HIDE DEF p, x
  <1>4. /\ que[p] \in Seq(Sqls) /\ Len(que[p]) \in Nat
        /\ Len(Append(que[p], x)) = Len(que[p]) + 1
        /\ \A i \in 1..Len(que[p]) : Append(que[p], x)[i] = que[p][i]
        /\ Append(que[p], x)[Len(que[p]) + 1] = x
    <2>1. que[p] \in Seq(Sqls)
      BY <1>1 DEF TypeInv, TypeOK
    <2> QED BY <2>1, <1>1, AppendFacts
  <1>5. \A q \in Connctions : \A i \in 1..Len(que'[q]) :
          \/ i \in 1..Len(que[q]) /\ que'[q][i] = que[q][i]
          \/ q = p /\ i = Len(que[p]) + 1 /\ que'[q][i] = x
    <2> SUFFICES ASSUME NEW q \in Connctions, NEW i \in 1..Len(que'[q])
                 PROVE  \/ i \in 1..Len(que[q]) /\ que'[q][i] = que[q][i]
                        \/ q = p /\ i = Len(que[p]) + 1 /\ que'[q][i] = x
      OBVIOUS
    <2>1. CASE q = p
      <3>1. que'[q] = Append(que[p], x)
        BY <2>1, <1>1, <1>2 DEF TypeInv, TypeOK
      <3>2. i \in 1..Len(que[p]) \/ i = Len(que[p]) + 1
        BY <3>1, <1>4
      <3> QED BY <2>1, <3>1, <3>2, <1>4
    <2>2. CASE q # p
      BY <2>2, <1>1, <1>2 DEF TypeInv, TypeOK
    <2> QED BY <2>1, <2>2
  <1>6. \A v \in Workers : /\ sql'[v] = IF v = w THEN NoSql ELSE sql[v]
                           /\ v # w => task'[v] = task[v]
    BY <1>2 DEF TypeInv, TypeOK
  <1>7. \A q \in Connctions : Free(q)' \subseteq IF q = p THEN Free(q) \cup {x} ELSE Free(q)
    BY <1>5 DEF Free
  <1>8. \A q \in Connctions : NoSql \notin Free(q)
    BY NoSqlAssumption DEF TypeInv, TypeOK, Free
  <1>9. SqlExclusive'
    <2>1. \A v, u \in Workers : v # u /\ sql'[v] # NoSql => sql'[v] # sql'[u]
      BY <1>6 DEF SqlInv, SqlExclusive
    <2>2. \A v \in Workers, q \in Connctions : sql'[v] \notin Free(q)'
      BY <1>1, <1>3, <1>6, <1>7, <1>8 DEF SqlInv, SqlExclusive
    <2>3. \A q, r \in Connctions : \A i \in 1..Len(que'[q]), j \in 1..Len(que'[r]) :
            que'[q][i] = que'[r][j] => q = r /\ i = j
      <3>1. SUFFICES ASSUME NEW q \in Connctions, NEW r \in Connctions,
                            NEW i \in 1..Len(que'[q]), NEW j \in 1..Len(que'[r]),
                            que'[q][i] = que'[r][j]
                     PROVE  q = r /\ i = j
        OBVIOUS
      <3>2. \A k \in 1..Len(que[q]), l \in 1..Len(que[r]) :
              que[q][k] = que[r][l] => q = r /\ k = l
        BY DEF SqlInv, SqlExclusive
      <3>3. /\ \A k \in 1..Len(que[q]) : que[q][k] # x
            /\ \A l \in 1..Len(que[r]) : que[r][l] # x
        BY <1>3 DEF Free
      <3>4. /\ \/ i \in 1..Len(que[q]) /\ que'[q][i] = que[q][i]
               \/ q = p /\ i = Len(que[p]) + 1 /\ que'[q][i] = x
            /\ \/ j \in 1..Len(que[r]) /\ que'[r][j] = que[r][j]
               \/ r = p /\ j = Len(que[p]) + 1 /\ que'[r][j] = x
        BY <1>5
      <3> QED BY <3>1, <3>2, <3>3, <3>4
    <2> QED BY <2>1, <2>2, <2>3 DEF SqlExclusive
  <1>10. NoneLost'
    <2>1. que'[p] = Append(que[p], x) /\ \A q \in Connctions : q # p => que'[q] = que[q]
      BY <1>1, <1>2 DEF TypeInv, TypeOK
    <2>2. \A q \in Connctions : Free(q) \subseteq Free(q)'
      <3> SUFFICES ASSUME NEW q \in Connctions PROVE Free(q) \subseteq Free(q)'
        OBVIOUS
      <3>1. CASE q = p
        <4>1. \A i \in 1..Len(que[q]) : i \in 1..Len(que'[q]) /\ que'[q][i] = que[q][i]
          BY <1>4, <2>1, <3>1
        <4> QED BY <4>1 DEF Free
      <3>2. CASE q # p
        BY <2>1, <3>2 DEF Free
      <3> QED BY <3>1, <3>2
    <2>3. ASSUME NEW y \in Sqls, home[y] # NoConnction
          PROVE  (\E v \in Workers : sql'[v] = y) \/ (y \in Free(home[y]))'
      <3>1. CASE y = x
        <4>1. home[y] = p /\ home' = home
          BY <1>2, <1>3, <3>1
        <4>2. \E i \in 1..Len(que'[p]) : que'[p][i] = y
          BY <1>4, <2>1, <3>1
        <4> QED BY <4>1, <4>2 DEF Free
      <3>2. CASE y # x /\ \E v \in Workers : sql[v] = y
        <4>1. PICK v \in Workers : sql[v] = y /\ v # w
          BY <3>2 DEF x
        <4> QED BY <1>6, <4>1
      <3>3. CASE y \in Free(home[y])
        <4>1. home[y] \in Connctions
          BY <2>3 DEF TypeInv, TypeOK
        <4> QED BY <1>2, <2>2, <3>3, <4>1 DEF Free
      <3> QED BY <2>3, <3>1, <3>2, <3>3 DEF SqlInv, RightDatabase, NoneLost
    <2> QED BY <1>2, <2>3 DEF NoneLost
  <1>11. RightDatabase'
    BY <1>2, <1>3, <1>6, <1>7, <1>10 DEF SqlInv, RightDatabase
  <1> QED BY <1>9, <1>11 DEF SqlInv

LEMMA SqlStep == TypeInv /\ SqlInv /\ [Next]_vars => SqlInv'
  <1> SUFFICES ASSUME TypeInv, SqlInv, [Next]_vars PROVE SqlInv'
    OBVIOUS
  <1>1. ASSUME NEW w \in Workers, PopTask(w) PROVE SqlInv'
    <2>1. sql[w] = NoSql
      BY <1>1 DEF PopTask, TypeInv, PhaseOK, Holding
    <2>2. \A v \in Workers : v # w => task'[v] = task[v]
      BY <1>1 DEF PopTask, TypeInv, TypeOK
    <2> QED BY <1>1, <2>1, <2>2, SqlSame DEF PopTask, sqlVars
  <1>2. ASSUME NEW w \in Workers, \/ Wait(w) \/ SpuriousWakeup(w) \/ WakeToNothing(w)
                                  \/ PopNull(w) \/ InitSql(w) \/ Query(w)
        PROVE  SqlInv'
    BY <1>2, SqlSame
       DEF Wait, SpuriousWakeup, WakeToNothing, PopNull, InitSql, Query, sqlVars
  <1>3. ASSUME NEW w \in Workers, Run(w) PROVE SqlInv'
    BY <1>1, <1>2, <1>3, SqlGetFree, SqlGetNew, SqlFail, SqlPush DEF Run
  <1>4. CASE Owner
    BY <1>4, SqlSame
       DEF Owner, Post, ClosePool, ClosePoolReturns, Join, sqlVars, workerVars
  <1>5. CASE UNCHANGED vars
    BY <1>5, SqlSame DEF vars
  <1> QED BY <1>2, <1>3, <1>4, <1>5 DEF Next

LEMMA SqlAlways == Spec => [](TypeInv /\ SqlInv)
  BY TypeInit, TypeStep, SqlInit, SqlStep, PTL DEF Spec

\* No SQL connection is used by two threads, or free while one uses it, or free
\* twice (NewConnection.h:27, 43).
THEOREM SqlNeverShared == Spec => []SqlExclusive
<1>1. SqlInv => SqlExclusive
  BY DEF SqlInv
<1> QED BY <1>1, SqlAlways, PTL

\* Every connection in use or free was opened for the database it serves, and
\* every one that is open is in use or free.
THEOREM SqlRightDatabase == Spec => []RightDatabase
<1>1. SqlInv => RightDatabase
  BY DEF SqlInv
<1> QED BY <1>1, SqlAlways, PTL

-----------------------------------------------------------------------------
(* The way back.  A thread that holds a connection goes on, in its own      *)
(* steps only, from init to query to release and to the end of its task;    *)
(* each has no other guard than its place in run.                           *)

NextPhase == {<<"init", "query">>, <<"query", "release">>}

MovesOn(w) ==
  \/ pc'[w] = pc[w] /\ sql'[w] = sql[w]
  \/ <<pc[w], pc'[w]>> \in NextPhase /\ sql'[w] = sql[w]
  \/ /\ sql'[w] = NoSql
     /\ \A x \in Sqls : x = sql[w] /\ home'[x] # NoConnction => (x \in Free(home[x]))'

LEMMA OthersStay ==
  ASSUME TypeInv, NEW v \in Workers, NEW w \in Workers, v # w, Run(v) \/ SpuriousWakeup(v)
  PROVE  pc'[w] = pc[w] /\ sql'[w] = sql[w]
  BY DEF TypeInv, TypeOK, Goto, Run, Wait, SpuriousWakeup, WakeToNothing, PopNull, PopTask,
         GetFreeSql, GetNewSql, InitSql, InitSqlFail, Query, PushConnection

LEMMA HolderStep ==
  ASSUME TypeInv, SqlInv, SqlInv', NEW w \in Workers, sql[w] # NoSql,
         Run(w) \/ SpuriousWakeup(w)
  PROVE  MovesOn(w)
  <1>1. pc[w] \in Holding /\ sql[w] \in Sqls
    BY DEF TypeInv, TypeOK, PhaseOK
  <1>2. CASE InitSql(w) \/ Query(w)
    BY <1>2 DEF InitSql, Query, MovesOn, NextPhase, Goto, TypeInv, TypeOK
  <1>3. CASE InitSqlFail(w)
    <2>1. sql'[w] = NoSql /\ home'[sql[w]] = NoConnction
      BY <1>1, <1>3 DEF InitSqlFail, TypeInv, TypeOK
    <2> QED BY <2>1 DEF MovesOn
  <1>4. CASE PushConnection(w)
    <2>1. sql'[w] = NoSql /\ \A v \in Workers : v # w => sql'[v] = sql[v]
      BY <1>4 DEF PushConnection, TypeInv, TypeOK
    <2>2. \A v \in Workers : sql'[v] # sql[w]
      BY <2>1 DEF SqlInv, SqlExclusive
    <2>3. \A x \in Sqls : x = sql[w] /\ home'[x] # NoConnction => (x \in Free(home[x]))'
      BY <2>2 DEF SqlInv, RightDatabase, NoneLost
    <2> QED BY <2>1, <2>3 DEF MovesOn
  <1>5. ~(\/ Wait(w) \/ SpuriousWakeup(w) \/ WakeToNothing(w) \/ PopNull(w)
          \/ PopTask(w) \/ GetFreeSql(w) \/ GetNewSql(w))
    BY <1>1 DEF Holding, Wait, SpuriousWakeup, WakeToNothing, PopNull, PopTask,
                GetFreeSql, GetNewSql, NeedNewSql
  <1> QED BY <1>2, <1>3, <1>4, <1>5 DEF Run

\* What the fairness of a thread has to do to bring its connection back: two
\* steps at most lie before the one that gives it to the free ones of its
\* database or finds that it did not open, and no other thread can undo them
\* (DatabaseThreadPool.h:34-43).
THEOREM HoldersMoveOn == Spec => [][\A w \in Workers : sql[w] # NoSql => MovesOn(w)]_vars
<1>1. TypeInv /\ SqlInv /\ [Next]_vars =>
        [\A w \in Workers : sql[w] # NoSql => MovesOn(w)]_vars
  <2> SUFFICES ASSUME TypeInv, SqlInv, Next, NEW w \in Workers, sql[w] # NoSql
               PROVE  MovesOn(w)
    OBVIOUS
  <2>1. SqlInv'
    BY SqlStep
  <2>2. ASSUME NEW v \in Workers, Run(v) \/ SpuriousWakeup(v) PROVE MovesOn(w)
    BY <2>1, <2>2, HolderStep, OthersStay DEF MovesOn
  <2>3. CASE Owner
    <3>1. pc'[w] = pc[w] /\ sql'[w] = sql[w]
      <4>1. pc[w] # "waiting"
        BY DEF TypeInv, PhaseOK, Holding
      <4> QED BY <2>3, <4>1
              DEF Owner, Post, ClosePool, Push, NotifyOne, In, Goto, ClosePoolReturns,
                  Join, workerVars, TypeInv, TypeOK
    <3> QED BY <3>1 DEF MovesOn
  <2> QED BY <2>2, <2>3 DEF Next
<1> QED BY <1>1, SqlAlways, PTL DEF Spec

-----------------------------------------------------------------------------
(* The number of connections.  Only GetNewSql adds one, and then no         *)
(* connection of its Connction is free: the threads hold them all.          *)

Used(p) == Held(p) \cup Free(p)

BoundInv ==
  \A p \in Connctions : /\ IsFiniteSet(Used(p))
                        /\ Cardinality(Used(p)) <= Cardinality(Workers)

LEMMA BoundInit == Init => BoundInv
  <1>1. ASSUME Init, NEW p \in Connctions PROVE Used(p) = {}
    BY <1>1 DEF Init, Used, Held, Free
  <1>2. Cardinality(Workers) \in Nat
    BY WorkersAssumption, FS_CardinalityType
  <1>3. IsFiniteSet({}) /\ Cardinality({}) <= Cardinality(Workers)
    BY <1>2, FS_EmptySet
  <1> QED BY <1>1, <1>3 DEF BoundInv

LEMMA BoundShrinks ==
  ASSUME BoundInv, \A p \in Connctions : Used(p)' \subseteq Used(p)
  PROVE  BoundInv'
  <1> SUFFICES ASSUME NEW p \in Connctions
               PROVE  /\ IsFiniteSet(Used(p)')
                      /\ Cardinality(Used(p)') <= Cardinality(Workers)
    BY DEF BoundInv
  <1>1. IsFiniteSet(Used(p)) /\ Cardinality(Used(p)) <= Cardinality(Workers)
    BY DEF BoundInv
  <1>2. IsFiniteSet(Used(p)') /\ Cardinality(Used(p)') <= Cardinality(Used(p))
    BY <1>1, FS_Subset
  <1>3. /\ Cardinality(Used(p)') \in Nat /\ Cardinality(Used(p)) \in Nat
        /\ Cardinality(Workers) \in Nat
    BY <1>1, <1>2, WorkersAssumption, FS_CardinalityType
  <1> QED BY <1>1, <1>2, <1>3

LEMMA FewValues ==
  ASSUME NEW f, NEW V \in SUBSET Workers
  PROVE  /\ IsFiniteSet({f[v] : v \in V})
         /\ Cardinality({f[v] : v \in V}) <= Cardinality(Workers)
  <1> DEFINE T == {f[v] : v \in V}  g == [v \in V |-> f[v]]
  <1>1. IsFiniteSet(V) /\ Cardinality(V) <= Cardinality(Workers)
    BY WorkersAssumption, FS_Subset
  <1>2. g \in Surjection(V, T)
    BY DEF Surjection
  <1> HIDE DEF g, T
  <1>3. IsFiniteSet(T) /\ Cardinality(T) <= Cardinality(V)
    BY <1>1, <1>2, FS_Surjection
  <1>4. /\ Cardinality(T) \in Nat /\ Cardinality(V) \in Nat
        /\ Cardinality(Workers) \in Nat
    BY <1>1, <1>3, WorkersAssumption, FS_CardinalityType
  <1>5. IsFiniteSet(T) /\ Cardinality(T) <= Cardinality(Workers)
    BY <1>1, <1>3, <1>4
  <1> QED BY <1>5 DEF T

LEMMA BoundStep == TypeInv /\ SqlInv /\ BoundInv /\ [Next]_vars => BoundInv'
  <1> SUFFICES ASSUME TypeInv, SqlInv, BoundInv, [Next]_vars PROVE BoundInv'
    OBVIOUS
  <1> USE DEF Used
  <1>1. ASSUME UNCHANGED <<sql, que>>,
               \A v \in Workers : sql[v] # NoSql => task'[v] = task[v]
        PROVE  BoundInv'
    <2>1. \A p : Held(p)' = Held(p) /\ Free(p)' = Free(p)
      BY <1>1 DEF Held, Free
    <2> QED BY <2>1, BoundShrinks
  <1>2. ASSUME NEW w \in Workers, PopTask(w) PROVE BoundInv'
    <2>1. sql[w] = NoSql
      BY <1>2 DEF PopTask, TypeInv, PhaseOK, Holding
    <2>2. \A v \in Workers : v # w => task'[v] = task[v]
      BY <1>2 DEF PopTask, TypeInv, TypeOK
    <2> QED BY <1>1, <1>2, <2>1, <2>2 DEF PopTask, sqlVars
  <1>3. ASSUME NEW w \in Workers, \/ Wait(w) \/ SpuriousWakeup(w) \/ WakeToNothing(w)
                                  \/ PopNull(w) \/ InitSql(w) \/ Query(w)
        PROVE  BoundInv'
    BY <1>3, <1>1
       DEF Wait, SpuriousWakeup, WakeToNothing, PopNull, InitSql, Query, sqlVars
  <1>4. ASSUME NEW w \in Workers, GetFreeSql(w) PROVE BoundInv'
    <2> DEFINE p == task[w].conn  x == Head(que[p])
    <2>1. p \in Connctions /\ que[p] \in Seq(Sqls) /\ que[p] # <<>>
      BY <1>4 DEF GetFreeSql, TypeInv, TypeOK, PhaseOK, Working
    <2>2. /\ que' = [que EXCEPT ![p] = Tail(que[p])] /\ sql' = [sql EXCEPT ![w] = x]
          /\ task' = task
      BY <1>4 DEF GetFreeSql, PopSql
    <2> HIDE DEF x
    <2>3. /\ x = que[p][1] /\ 1 \in 1..Len(que[p])
          /\ \A i \in 1..Len(Tail(que[p])) :
               Tail(que[p])[i] = que[p][i + 1] /\ i + 1 \in 1..Len(que[p])
      BY <2>1, TailFacts DEF x
    <2>4. x \in Free(p)
      BY <2>3 DEF Free
    <2>5. \A q \in Connctions : Free(q)' \subseteq Free(q)
      <3> SUFFICES ASSUME NEW q \in Connctions PROVE Free(q)' \subseteq Free(q)
        OBVIOUS
      <3>1. CASE q = p
        <4>1. que'[q] = Tail(que[p])
          BY <2>1, <2>2, <3>1 DEF TypeInv, TypeOK
        <4> QED BY <2>3, <3>1, <4>1 DEF Free
      <3>2. CASE q # p
        <4>1. que'[q] = que[q]
          BY <2>2, <3>2 DEF TypeInv, TypeOK
        <4> QED BY <4>1 DEF Free
      <3> QED BY <3>1, <3>2
    <2>6. \A q \in Connctions : Held(q)' \subseteq Held(q) \cup IF q = p THEN {x} ELSE {}
      BY <2>2 DEF Held, TypeInv, TypeOK
    <2> QED BY <2>4, <2>5, <2>6, BoundShrinks
  <1>5. ASSUME NEW w \in Workers, GetNewSql(w) PROVE BoundInv'
    <2> DEFINE p == task[w].conn
    <2>1. que' = que /\ task' = task /\ que[p] = <<>>
      BY <1>5 DEF GetNewSql, NeedNewSql
    <2>2. \A q : Free(q)' = Free(q)
      BY <2>1 DEF Free
    <2>3. Free(p)' = {}
      BY <2>1 DEF Free
    <2>4. \A q \in Connctions : q # p => Held(q)' = Held(q)
      BY <1>5, <2>1 DEF GetNewSql, Held, TypeInv, TypeOK
    <2>5. IsFiniteSet(Held(p)') /\ Cardinality(Held(p)') <= Cardinality(Workers)
      <3> DEFINE V == {v \in Workers : sql'[v] # NoSql /\ task'[v].conn = p}
      <3>1. Held(p)' = {sql'[v] : v \in V}
        BY <2>1 DEF Held
      <3>2. V \in SUBSET Workers
        OBVIOUS
      <3> HIDE DEF V
      <3> QED BY <3>1, <3>2, FewValues
    <2>6. Used(p)' = Held(p)'
      BY <2>3
    <2>7. \A q \in Connctions : q # p => Used(q)' = Used(q)
      BY <2>2, <2>4
    <2> QED BY <2>1, <2>5, <2>6, <2>7 DEF BoundInv
  <1>6. ASSUME NEW w \in Workers, InitSqlFail(w) PROVE BoundInv'
    <2>1. /\ sql' = [sql EXCEPT ![w] = NoSql] /\ task' = [task EXCEPT ![w] = NoTask]
          /\ que' = que
      BY <1>6 DEF InitSqlFail
    <2>2. \A q : Free(q)' = Free(q) /\ Held(q)' \subseteq Held(q)
      BY <2>1 DEF Free, Held, TypeInv, TypeOK
    <2> QED BY <2>2, BoundShrinks
  <1>7. ASSUME NEW w \in Workers, PushConnection(w) PROVE BoundInv'
    <2> DEFINE p == task[w].conn  x == sql[w]
    <2>1. p \in Connctions /\ x \in Sqls /\ x # NoSql
      BY <1>7, NoSqlAssumption DEF PushConnection, TypeInv, PhaseOK, Working, Holding
    <2>2. /\ que' = [que EXCEPT ![p] = Append(que[p], x)]
          /\ sql' = [sql EXCEPT ![w] = NoSql] /\ task' = [task EXCEPT ![w] = NoTask]
      BY <1>7 DEF PushConnection, GiveBack
    <2>3. x \in Held(p)
      BY <2>1 DEF Held
    <2> HIDE DEF x, p
    <2>4. /\ Len(que[p]) \in Nat /\ Len(Append(que[p], x)) = Len(que[p]) + 1
          /\ \A i \in 1..Len(que[p]) : Append(que[p], x)[i] = que[p][i]
          /\ Append(que[p], x)[Len(que[p]) + 1] = x
      <3>1. que[p] \in Seq(Sqls)
        BY <2>1 DEF TypeInv, TypeOK
      <3> QED BY <3>1, <2>1, AppendFacts
    <2>5. \A q \in Connctions : Free(q)' \subseteq Free(q) \cup IF q = p THEN {x} ELSE {}
      <3> SUFFICES ASSUME NEW q \in Connctions
                   PROVE  Free(q)' \subseteq Free(q) \cup IF q = p THEN {x} ELSE {}
        OBVIOUS
      <3>1. CASE q = p
        <4>1. que'[q] = Append(que[p], x)
          BY <2>1, <2>2, <3>1 DEF TypeInv, TypeOK
        <4>2. \A i \in 1..Len(que'[q]) : i \in 1..Len(que[p]) \/ i = Len(que[p]) + 1
          BY <2>4, <4>1
        <4> QED BY <2>4, <3>1, <4>1, <4>2 DEF Free
      <3>2. CASE q # p
        <4>1. que'[q] = que[q]
          BY <2>2, <3>2 DEF TypeInv, TypeOK
        <4> QED BY <4>1 DEF Free
      <3> QED BY <3>1, <3>2
    <2>6. \A q : Held(q)' \subseteq Held(q)
      BY <2>2 DEF Held, TypeInv, TypeOK
    <2> QED BY <2>3, <2>5, <2>6, BoundShrinks
  <1>8. ASSUME NEW w \in Workers, Run(w) \/ SpuriousWakeup(w) PROVE BoundInv'
    BY <1>2, <1>3, <1>4, <1>5, <1>6, <1>7, <1>8 DEF Run
  <1>9. CASE Owner
    BY <1>9, <1>1
       DEF Owner, Post, ClosePool, ClosePoolReturns, Join, sqlVars, workerVars
  <1>10. CASE UNCHANGED vars
    BY <1>10, <1>1 DEF vars
  <1> QED BY <1>8, <1>9, <1>10 DEF Next

\* A Connction never has more SQL connections than there are threads, although
\* nothing counts them (NewConnection.h:27-29).
THEOREM SqlsBounded == Spec => []ConnectionsBounded
<1>1. BoundInv => ConnectionsBounded
  BY DEF BoundInv, ConnectionsBounded, Used
<1>2. Spec => []BoundInv
  BY SqlAlways, BoundInit, BoundStep, PTL DEF Spec
<1> QED BY <1>1, <1>2, PTL

-----------------------------------------------------------------------------
(* Wakeups.  Each one is paid for by an element of the queue or is          *)
(* spurious; while the pool is open the threads that have ended count too,  *)
(* since an open pool's queue holds no null task to end them.               *)

Woken == {"woken"}
WokenOrEnded == {"woken", "ended"}

BudgetInv ==
  /\ Cardinality(In(Woken)) <= Len(queue) + spurious
  /\ pool = "open" /\ ~shutDown =>
       /\ Cardinality(In(WokenOrEnded)) <= Len(queue) + spurious
       /\ Cardinality(In({"ended"})) <= spurious

LEMMA InFinite ==
  ASSUME NEW S
  PROVE  IsFiniteSet(In(S)) /\ Cardinality(In(S)) \in Nat
  <1>1. In(S) \in SUBSET Workers
    BY DEF In
  <1> QED BY <1>1, WorkersAssumption, FS_Subset, FS_CardinalityType

LEMMA InMoves ==
  ASSUME TypeInv, NEW w \in Workers, NEW l, Goto(w, l), NEW S
  PROVE  /\ (pc[w] \in S <=> l \in S) => In(S)' = In(S)
         /\ pc[w] \in S /\ l \notin S => Cardinality(In(S)') = Cardinality(In(S)) - 1
         /\ pc[w] \notin S /\ l \in S => Cardinality(In(S)') = Cardinality(In(S)) + 1
  <1>1. In(S)' = IF l \in S THEN In(S) \cup {w} ELSE In(S) \ {w}
    BY DEF Goto, In, TypeInv, TypeOK
  <1>2. w \in In(S) <=> pc[w] \in S
    BY DEF In
  <1>3. /\ Cardinality(In(S) \cup {w}) =
             IF w \in In(S) THEN Cardinality(In(S)) ELSE Cardinality(In(S)) + 1
        /\ Cardinality(In(S) \ {w}) =
             IF w \in In(S) THEN Cardinality(In(S)) - 1 ELSE Cardinality(In(S))
    BY InFinite, FS_AddElement, FS_RemoveElement
  <1> QED BY <1>1, <1>2, <1>3

LEMMA BudgetInit == Init => BudgetInv
  <1> SUFFICES ASSUME Init PROVE BudgetInv
    OBVIOUS
  <1>1. In(Woken) = {} /\ In(WokenOrEnded) = {} /\ In({"ended"}) = {}
    BY DEF Init, In, Woken, WokenOrEnded
  <1>2. Cardinality({}) = 0
    BY FS_EmptySet
  <1>3. Len(queue) = 0 /\ spurious = 0
    BY DEF Init
  <1>4. /\ Cardinality(In(Woken)) = 0 /\ Cardinality(In(WokenOrEnded)) = 0
        /\ Cardinality(In({"ended"})) = 0
    BY <1>1, <1>2
  <1> QED BY <1>3, <1>4 DEF BudgetInv

\* NotifyOne comes with an element of the queue.
LEMMA BudgetPush ==
  ASSUME TypeInv, BudgetInv, NotifyOne, Len(queue') = Len(queue) + 1,
         spurious' = spurious, shutDown' = shutDown,
         pool' = "open" => pool = "open"
  PROVE  BudgetInv'
  <1>0. Len(queue) \in Nat /\ spurious \in Nat
    BY BoundsAssumption DEF TypeInv, TypeOK
  <1>1. CASE UNCHANGED pc
    <2>1. \A S : In(S)' = In(S)
      BY <1>1 DEF In
    <2>2. /\ Cardinality(In(Woken)) \in Nat /\ Cardinality(In(WokenOrEnded)) \in Nat
          /\ Cardinality(In({"ended"})) \in Nat
      BY InFinite
    <2> QED BY <1>0, <2>1, <2>2 DEF BudgetInv, Woken, WokenOrEnded
  <1>2. ASSUME NEW w \in In({"waiting"}), Goto(w, "woken") PROVE BudgetInv'
    <2>1. w \in Workers /\ pc[w] = "waiting"
      BY DEF In
    <2>2. /\ Cardinality(In(Woken)') = Cardinality(In(Woken)) + 1
          /\ Cardinality(In(WokenOrEnded)') = Cardinality(In(WokenOrEnded)) + 1
          /\ In({"ended"})' = In({"ended"})
      BY <1>2, <2>1, InMoves DEF Woken, WokenOrEnded
    <2>3. Cardinality(In(Woken)) \in Nat /\ Cardinality(In(WokenOrEnded)) \in Nat
      BY InFinite
    <2> QED BY <1>0, <2>2, <2>3 DEF BudgetInv, Woken, WokenOrEnded
  <1> QED BY <1>1, <1>2 DEF NotifyOne

LEMMA BudgetStep == TypeInv /\ BudgetInv /\ [Next]_vars => BudgetInv'
  <1> SUFFICES ASSUME TypeInv, BudgetInv, [Next]_vars PROVE BudgetInv'
    OBVIOUS
  <1>0. Len(queue) \in Nat /\ spurious \in Nat
    BY BoundsAssumption DEF TypeInv, TypeOK
  <1>f. /\ Cardinality(In(Woken)) \in Nat /\ Cardinality(In(WokenOrEnded)) \in Nat
        /\ Cardinality(In({"ended"})) \in Nat
    BY InFinite
  \* Steps that neither wake, nor end, nor pop.
  <1>1. ASSUME In(Woken)' = In(Woken), In(WokenOrEnded)' = In(WokenOrEnded),
               In({"ended"})' = In({"ended"}),
               UNCHANGED queueVars, pool' = "open" => pool = "open"
        PROVE  BudgetInv'
    BY <1>1 DEF BudgetInv, queueVars, Woken, WokenOrEnded
  <1>2. ASSUME NEW w \in Workers,
               \/ Wait(w) \/ GetFreeSql(w) \/ GetNewSql(w) \/ InitSql(w)
               \/ InitSqlFail(w) \/ Query(w) \/ PushConnection(w)
        PROVE  BudgetInv'
    <2>1. /\ pc[w] \notin WokenOrEnded
          /\ \E l \in {"run", "waiting", "init", "query", "release"} : Goto(w, l)
      BY <1>2 DEF WokenOrEnded, Wait, GetFreeSql, GetNewSql, NeedNewSql, InitSql,
                  InitSqlFail, Query, PushConnection
    <2>2. UNCHANGED queueVars /\ pool' = pool
      BY <1>2 DEF Wait, GetFreeSql, GetNewSql, InitSql, InitSqlFail, Query,
                  PushConnection, ownerVars
    <2>3. /\ In(Woken)' = In(Woken) /\ In(WokenOrEnded)' = In(WokenOrEnded)
          /\ In({"ended"})' = In({"ended"})
      <3>1. PICK l \in {"run", "waiting", "init", "query", "release"} : Goto(w, l)
        BY <2>1
      <3>2. \A S : (pc[w] \in S <=> l \in S) => In(S)' = In(S)
        BY <3>1, InMoves
      <3> QED BY <2>1, <3>1, <3>2 DEF Woken, WokenOrEnded
    <2> QED BY <1>1, <2>2, <2>3
  <1>3. ASSUME NEW w \in Workers, SpuriousWakeup(w) PROVE BudgetInv'
    <2>1. /\ Cardinality(In(Woken)') = Cardinality(In(Woken)) + 1
          /\ Cardinality(In(WokenOrEnded)') = Cardinality(In(WokenOrEnded)) + 1
          /\ In({"ended"})' = In({"ended"})
      BY <1>3, InMoves DEF SpuriousWakeup, Woken, WokenOrEnded
    <2>2. /\ queue' = queue /\ shutDown' = shutDown /\ pool' = pool
          /\ spurious' = spurious + 1
      BY <1>3 DEF SpuriousWakeup, ownerVars
    <2> QED BY <1>0, <1>f, <2>1, <2>2 DEF BudgetInv, Woken, WokenOrEnded
  <1>4. ASSUME NEW w \in Workers, WakeToNothing(w) PROVE BudgetInv'
    <2>1. /\ Cardinality(In(Woken)') = Cardinality(In(Woken)) - 1
          /\ In(WokenOrEnded)' = In(WokenOrEnded)
      BY <1>4, InMoves DEF WakeToNothing, Woken, WokenOrEnded
    <2>2. queue = <<>> \/ shutDown
      BY <1>4 DEF WakeToNothing
    <2>3. UNCHANGED queueVars /\ pool' = pool
      BY <1>4 DEF WakeToNothing, ownerVars
    <2>4. Cardinality(In({"ended"})') <= Cardinality(In(WokenOrEnded)')
      <3>1. In({"ended"})' \in SUBSET (In(WokenOrEnded)')
        BY DEF In, WokenOrEnded
      <3> QED BY <2>1, <3>1, InFinite, FS_Subset
    <2>5. Cardinality(In({"ended"})') \in Nat
      <3>1. In({"ended"})' \in SUBSET Workers
        BY DEF In
      <3> QED BY <3>1, WorkersAssumption, FS_Subset, FS_CardinalityType
    <2> QED BY <1>0, <1>f, <2>1, <2>2, <2>3, <2>4, <2>5
            DEF BudgetInv, queueVars, Woken, WokenOrEnded
  <1>5. ASSUME NEW w \in Workers, PopTask(w) \/ PopNull(w) PROVE BudgetInv'
    <2>1. /\ Cardinality(In(Woken)') = Cardinality(In(Woken)) - 1
          /\ PopTask(w) => /\ Cardinality(In(WokenOrEnded)') =
                                Cardinality(In(WokenOrEnded)) - 1
                           /\ In({"ended"})' = In({"ended"})
      BY <1>5, InMoves DEF PopTask, PopNull, Woken, WokenOrEnded
    <2>2. queue # <<>> /\ Len(queue') = Len(queue) - 1
      BY <1>5, TailFacts DEF PopTask, PopNull, TypeInv, TypeOK
    <2>3. UNCHANGED <<shutDown, spurious, pool>>
      BY <1>5 DEF PopTask, PopNull, ownerVars
    <2>4. ASSUME PopNull(w) PROVE pool # "open"
      <3>1. Head(queue) = queue[1] /\ 1 \in 1..Len(queue)
        BY <2>2, TailFacts DEF TypeInv, TypeOK
      <3> QED BY <2>4, <3>1 DEF PopNull, TypeInv, QueueOK
    <2> QED BY <1>0, <1>5, <1>f, <2>1, <2>2, <2>3, <2>4 DEF BudgetInv, Woken, WokenOrEnded
  <1>6. ASSUME NEW t \in Tasks, Push(t), UNCHANGED <<shutDown, spurious>>,
               pool' = "open" => pool = "open"
        PROVE  BudgetInv'
    <2>1. Len(queue') = Len(queue) + 1
      BY <1>6, AppendFacts DEF Push, TypeInv, TypeOK
    <2> QED BY <1>6, <2>1, BudgetPush DEF Push
  <1>7. ASSUME NEW p \in Connctions, Post(p) PROVE BudgetInv'
    <2>1. [id |-> posted + 1, conn |-> p] \in Tasks
      BY <1>7, BoundsAssumption DEF Post, Tasks, TypeInv, TypeOK
    <2> QED BY <1>6, <1>7, <2>1 DEF Post
  <1>8. CASE ClosePool
    BY <1>6, <1>8, NoTaskType DEF ClosePool
  <1>9. CASE ClosePoolReturns \/ Join
    <2>1. \A S : In(S)' = In(S)
      BY <1>9 DEF ClosePoolReturns, Join, In, workerVars
    <2> QED BY <1>1, <1>9, <2>1 DEF ClosePoolReturns, Join
  <1>10. CASE UNCHANGED vars
    <2>1. \A S : In(S)' = In(S)
      BY <1>10 DEF In, vars
    <2> QED BY <1>1, <1>10, <2>1 DEF vars, queueVars
  <1>11. ASSUME NEW w \in Workers, Run(w) PROVE BudgetInv'
    BY <1>2, <1>4, <1>5, <1>11 DEF Run
  <1> QED BY <1>3, <1>7, <1>8, <1>9, <1>10, <1>11 DEF Next, Owner

LEMMA BudgetAlways == Spec => []BudgetInv
  BY TypeAlways, BudgetInit, BudgetStep, PTL DEF Spec

\* There are never more notified threads than elements of the queue and
\* spurious wakeups (ProducerConsumerQueue.h:19, 45).
THEOREM WokenPaidFor == Spec => []WokenFindTasks
<1>1. BudgetInv => WokenFindTasks
  BY DEF BudgetInv, WokenFindTasks, Woken
<1> QED BY <1>1, BudgetAlways, PTL

-----------------------------------------------------------------------------
(* The end.  What has been posted and not been taken is in the queue, in    *)
(* front of the null tasks: the first null task popped finds nothing left,  *)
(* and a thread that was notified always pops something.                    *)

DrainInv ==
  /\ posted <= Len(taken) + Len(queue)
  /\ \A i \in 1..Len(queue) : i <= posted - Len(taken) => queue[i].conn # NoConnction
  /\ ~shutDown /\ spurious = 0 /\ In({"ended"}) # {} => Len(taken) = posted

LEMMA DrainInit == Init => DrainInv
  <1> SUFFICES ASSUME Init PROVE DrainInv
    OBVIOUS
  <1>1. In({"ended"}) = {}
    BY DEF Init, In
  <1> QED BY <1>1 DEF Init, DrainInv

\* Without spurious wakeups a notified thread has something to pop.
LEMMA WokenPops ==
  ASSUME TypeInv, BudgetInv, NEW w \in Workers, pc[w] = "woken", spurious = 0
  PROVE  queue # <<>>
  <1>1. Cardinality(In(Woken)) <= Len(queue) /\ Len(queue) \in Nat
    BY DEF BudgetInv, TypeInv, TypeOK
  <1>2. w \in In(Woken)
    BY DEF In, Woken
  <1>3. Cardinality(In(Woken)) # 0 /\ Cardinality(In(Woken)) \in Nat
    BY <1>2, InFinite, FS_EmptySet
  <1> QED BY <1>1, <1>3

\* A step that moves no thread to the end, and leaves queue and owner alone.
LEMMA DrainSame ==
  ASSUME DrainInv, UNCHANGED <<queue, taken, posted, shutDown>>,
         In({"ended"})' = In({"ended"}),
         spurious' = 0 => spurious = 0
  PROVE  DrainInv'
  BY DEF DrainInv

\* No thread ends when one is notified.
LEMMA NotifyEnds == TypeInv /\ NotifyOne => In({"ended"})' = In({"ended"})
  BY DEF NotifyOne, In, Goto, TypeInv, TypeOK

LEMMA DrainPush ==
  ASSUME TypeInv, DrainInv, NEW t \in Tasks, Push(t),
         UNCHANGED <<shutDown, spurious, taken>>,
         \/ posted' = posted
         \/ pool = "open" /\ posted' = posted + 1 /\ t.conn # NoConnction
              /\ (~shutDown /\ spurious = 0 => In({"ended"}) = {})
  PROVE  DrainInv'
  <1>1. /\ Len(queue') = Len(queue) + 1
        /\ \A i \in 1..Len(queue) : queue'[i] = queue[i]
        /\ queue'[Len(queue) + 1] = t
    BY AppendFacts DEF Push, TypeInv, TypeOK
  <1>2. Len(queue) \in Nat /\ Len(taken) \in Nat /\ posted \in Nat
    BY BoundsAssumption DEF TypeInv, TypeOK
  <1>3. \A i \in 1..Len(queue') : i \in 1..Len(queue) \/ i = Len(queue) + 1
    BY <1>1, <1>2
  <1>4. In({"ended"})' = In({"ended"})
    BY NotifyEnds DEF Push
  <1>5. CASE posted' = posted
    <2>1. posted' <= Len(taken') + Len(queue')
      BY <1>1, <1>2, <1>5 DEF DrainInv
    <2>2. \A i \in 1..Len(queue') : i <= posted - Len(taken) => i \in 1..Len(queue)
      BY <1>2, <1>3 DEF DrainInv
    <2> QED BY <1>1, <1>4, <1>5, <2>1, <2>2 DEF DrainInv
  <1>6. CASE /\ pool = "open" /\ posted' = posted + 1 /\ t.conn # NoConnction
             /\ (~shutDown /\ spurious = 0 => In({"ended"}) = {})
    <2>1. posted' <= Len(taken') + Len(queue')
      BY <1>1, <1>2, <1>6 DEF DrainInv
    <2>2. \A i \in 1..Len(queue) : queue[i].conn # NoConnction
      BY <1>6 DEF TypeInv, QueueOK
    <2>3. \A i \in 1..Len(queue') : queue'[i].conn # NoConnction
      BY <1>1, <1>3, <1>6, <2>2
    <2> QED BY <1>4, <1>6, <2>1, <2>3 DEF DrainInv
  <1> QED BY <1>5, <1>6

LEMMA DrainPop ==
  ASSUME TypeInv, DrainInv, NEW w \in Workers, PopNull(w) \/ PopTask(w)
  PROVE  DrainInv'
  <1>1. /\ queue # <<>> /\ Head(queue) = queue[1] /\ Len(queue) >= 1
        /\ Len(queue') = Len(queue) - 1
        /\ \A i \in 1..Len(queue') : queue'[i] = queue[i + 1]
        /\ Head(queue) \in Tasks
    <2>1. queue \in Seq(Tasks) /\ queue # <<>> /\ queue' = Tail(queue)
      BY DEF PopNull, PopTask, TypeInv, TypeOK
    <2> QED BY <2>1, TailFacts
  <1>2. Len(queue) \in Nat /\ Len(taken) \in Nat /\ posted \in Nat /\ Len(taken) <= posted
    BY BoundsAssumption DEF TypeInv, TypeOK, QueueOK
  <1>3. UNCHANGED <<shutDown, spurious, posted>>
    BY DEF PopNull, PopTask, ownerVars
  <1>4. CASE PopTask(w)
    <2>1. Len(taken') = Len(taken) + 1
      <3>1. taken \in Seq(Nat) /\ taken' = Append(taken, Head(queue).id)
        BY <1>4, BoundsAssumption DEF PopTask, TypeInv, TypeOK
      <3>2. Head(queue).id \in Nat
        BY <1>1, BoundsAssumption DEF Tasks
      <3> QED BY <3>1, <3>2
    <2>2. In({"ended"})' = In({"ended"})
      BY <1>4, InMoves DEF PopTask
    <2>3. Len(taken) + 1 <= posted
      BY <1>1, <1>2, <1>4 DEF PopTask, TypeInv, QueueOK
    <2>4. \A i \in 1..Len(queue') :
            i <= posted - Len(taken') => queue'[i].conn # NoConnction
      BY <1>1, <1>2, <2>1 DEF DrainInv
    <2>5. ~shutDown /\ spurious = 0 => In({"ended"}) = {}
      BY <1>2, <2>3 DEF DrainInv
    <2> QED BY <1>1, <1>2, <1>3, <2>1, <2>2, <2>4, <2>5 DEF DrainInv
  <1>5. CASE PopNull(w)
    <2>1. taken' = taken
      BY <1>5 DEF PopNull
    <2>2. Len(taken) = posted
      <3>1. ~(1 <= posted - Len(taken))
        BY <1>1, <1>2, <1>5 DEF PopNull, DrainInv
      <3> QED BY <1>2, <3>1
    <2>3. \A i \in 1..Len(queue') : ~(i <= posted - Len(taken))
      BY <1>1, <1>2, <2>2
    <2> QED BY <1>1, <1>2, <1>3, <2>1, <2>2, <2>3 DEF DrainInv
  <1> QED BY <1>4, <1>5

LEMMA DrainStep == TypeInv /\ BudgetInv /\ DrainInv /\ [Next]_vars => DrainInv'
  <1> SUFFICES ASSUME TypeInv, BudgetInv, DrainInv, [Next]_vars PROVE DrainInv'
    OBVIOUS
  <1>1. ASSUME NEW w \in Workers,
               \/ Wait(w) \/ GetFreeSql(w) \/ GetNewSql(w) \/ InitSql(w)
               \/ InitSqlFail(w) \/ Query(w) \/ PushConnection(w)
        PROVE  DrainInv'
    <2>1. \E l \in {"run", "waiting", "init", "query", "release"} :
            Goto(w, l) /\ pc[w] # "ended"
      BY <1>1 DEF Wait, GetFreeSql, GetNewSql, NeedNewSql, InitSql, InitSqlFail, Query,
                  PushConnection
    <2>2. In({"ended"})' = In({"ended"})
      BY <2>1, InMoves
    <2>3. UNCHANGED <<queue, taken, posted, shutDown, spurious>>
      BY <1>1 DEF Wait, GetFreeSql, GetNewSql, InitSql, InitSqlFail, Query,
                  PushConnection, ownerVars, queueVars
    <2> QED BY <2>2, <2>3, DrainSame
  <1>2. ASSUME NEW w \in Workers, SpuriousWakeup(w) PROVE DrainInv'
    <2>1. In({"ended"})' = In({"ended"})
      BY <1>2, InMoves DEF SpuriousWakeup
    <2>2. UNCHANGED <<queue, taken, posted, shutDown>> /\ spurious' # 0
      BY <1>2, BoundsAssumption DEF SpuriousWakeup, ownerVars, TypeInv, TypeOK
    <2> QED BY <2>1, <2>2, DrainSame
  <1>3. ASSUME NEW w \in Workers, WakeToNothing(w) PROVE DrainInv'
    <2>1. UNCHANGED <<queue, taken, posted, shutDown, spurious>>
      BY <1>3 DEF WakeToNothing, queueVars, ownerVars
    <2>2. shutDown \/ spurious # 0
      BY <1>3, WokenPops DEF WakeToNothing
    <2> QED BY <2>1, <2>2 DEF DrainInv
  <1>4. ASSUME NEW p \in Connctions, Post(p) PROVE DrainInv'
    <2> DEFINE t == [id |-> posted + 1, conn |-> p]
    <2>1. t \in Tasks /\ t.conn # NoConnction
      BY <1>4, BoundsAssumption, NoConnctionAssumption DEF Post, Tasks, TypeInv, TypeOK
    <2>2. ~shutDown /\ spurious = 0 => In({"ended"}) = {}
      <3>1. pool = "open" /\ ~shutDown => Cardinality(In({"ended"})) <= spurious
        BY DEF BudgetInv
      <3> QED BY <1>4, <3>1, InFinite, FS_EmptySet DEF Post
    <2>3. /\ pool = "open" /\ posted' = posted + 1 /\ Push(t)
          /\ UNCHANGED <<shutDown, spurious, taken>>
      BY <1>4 DEF Post
    <2> HIDE DEF t
    <2> QED BY <2>1, <2>2, <2>3, DrainPush
  <1>5. CASE ClosePool
    BY <1>5, NoTaskType, DrainPush DEF ClosePool
  <1>6. CASE ClosePoolReturns \/ Join \/ UNCHANGED vars
    <2>1. In({"ended"})' = In({"ended"})
      BY <1>6 DEF ClosePoolReturns, Join, In, workerVars, vars
    <2> QED BY <1>6, <2>1, DrainSame DEF ClosePoolReturns, Join, queueVars, vars
  <1>7. ASSUME NEW w \in Workers, Run(w) PROVE DrainInv'
    BY <1>1, <1>3, <1>7, DrainPop DEF Run
  <1> QED BY <1>2, <1>4, <1>5, <1>6, <1>7 DEF Next, Owner

LEMMA EndAlways == Spec => [](BudgetInv /\ DrainInv)
  BY TypeAlways, BudgetInit, BudgetStep, DrainInit, DrainStep, PTL DEF Spec

\* While the pool is open only spurious wakeups cost it threads, and without
\* them ClosePool ends none before all tasks are taken
\* (DatabaseThreadPool.h:26-31, 63-71).
THEOREM ThreadsLast == Spec => []WorkersLast
<1>1. BudgetInv /\ DrainInv => WorkersLast
  BY DEF BudgetInv, DrainInv, WorkersLast
<1> QED BY <1>1, EndAlways, PTL

-----------------------------------------------------------------------------
(* The refinement of TaskPool: each step is one of its steps, or none.      *)

LEMMA PromiseInit == Init => Promise!PoolInit
  <1> SUFFICES ASSUME Init PROVE Promise!PoolInit
    OBVIOUS
  <1>1. In({"ended"}) = {}
    BY DEF Init, In
  <1>2. Len(taken) = 0 /\ [w \in Workers |-> task[w].id] = [w \in Workers |-> 0]
    BY NoTaskType DEF Init
  <1> QED BY <1>1, <1>2 DEF Init, Promise!PoolInit

\* The steps TaskPool does not see.
LEMMA PromiseStutter ==
  ASSUME UNCHANGED <<posted, taken, task, sql, home>>, In({"ended"})' = In({"ended"})
  PROVE  UNCHANGED Promise!poolVars
  BY DEF Promise!poolVars

LEMMA PromiseMoves ==
  ASSUME TypeInv, NEW w \in Workers, NEW l, Goto(w, l), pc[w] # "ended", l # "ended"
  PROVE  In({"ended"})' = In({"ended"})
  BY DEF In, Goto, TypeInv, TypeOK

\* What the mapped variables are.
LEMMA PromiseState ==
  ASSUME TypeInv, NEW w \in Workers
  PROVE  /\ [v \in Workers |-> task[v].id][w] = task[w].id
         /\ pc[w] \in Working => task[w].id # 0 /\ w \notin In({"ended"})
         /\ pc[w] \notin Working => task[w].id = 0
         /\ pc[w] # "ended" => w \notin In({"ended"})
  BY NoTaskType DEF TypeInv, PhaseOK, Working, In

LEMMA PromiseEnd ==
  ASSUME TypeInv, NEW w \in Workers, pc[w] = "woken", Goto(w, "ended"),
         UNCHANGED <<posted, taken, task, sql, home>>
  PROVE  Promise!End(w)
  <1>1. w \notin In({"ended"}) /\ task[w].id = 0
    BY PromiseState DEF Working
  <1>2. In({"ended"})' = In({"ended"}) \cup {w}
    BY DEF In, Goto, TypeInv, TypeOK
  <1> QED BY <1>1, <1>2 DEF Promise!End

LEMMA PromiseBegin ==
  ASSUME TypeInv, NEW w \in Workers, PopTask(w)
  PROVE  Promise!Begin(w)
  <1>1. w \notin In({"ended"}) /\ task[w].id = 0
    BY PromiseState DEF Working, PopTask
  <1>2. Head(queue).id = Len(taken) + 1 /\ Len(taken) + 1 <= posted /\ posted \in Nat
    <2>1. Head(queue) = queue[1] /\ 1 \in 1..Len(queue)
      BY TailFacts DEF PopTask, TypeInv, TypeOK
    <2>2. Len(taken) \in Nat /\ posted \in Nat
      BY BoundsAssumption DEF TypeInv, TypeOK
    <2> QED BY <2>1, <2>2 DEF PopTask, TypeInv, QueueOK
  <1>3. Len(taken') = Len(taken) + 1
    <2>1. taken \in Seq(Nat) /\ taken' = Append(taken, Head(queue).id)
      BY BoundsAssumption DEF PopTask, TypeInv, TypeOK
    <2> QED BY <1>2, <2>1
  <1>4. [v \in Workers |-> task'[v].id] =
          [[v \in Workers |-> task[v].id] EXCEPT ![w] = Len(taken) + 1]
    BY <1>2 DEF PopTask, TypeInv, TypeOK
  <1>5. In({"ended"})' = In({"ended"})
    BY PromiseMoves DEF PopTask
  <1>6. Len(taken) < posted /\ UNCHANGED <<posted, sql, home>>
    BY <1>2 DEF PopTask, TypeInv, TypeOK, ownerVars, sqlVars
  <1> QED BY <1>1, <1>3, <1>4, <1>5, <1>6 DEF Promise!Begin

LEMMA PromiseAcquire ==
  ASSUME TypeInv, SqlInv, NEW w \in Workers, GetFreeSql(w) \/ GetNewSql(w)
  PROVE  \E x \in Sqls, p \in Connctions : Promise!Acquire(w, x, p)
  <1> DEFINE p == task[w].conn
  <1>1. /\ p \in Connctions /\ task[w].id # 0 /\ sql[w] = NoSql
        /\ UNCHANGED <<posted, taken, task>>
    BY PromiseState
       DEF GetFreeSql, GetNewSql, NeedNewSql, TypeInv, PhaseOK, Working, Holding, ownerVars
  <1>2. In({"ended"})' = In({"ended"})
    BY PromiseMoves DEF GetFreeSql, GetNewSql, NeedNewSql
  <1>3. ASSUME NEW x \in Sqls, \A v \in Workers : sql[v] # x,
               home[x] \in {NoConnction, p}, sql' = [sql EXCEPT ![w] = x],
               home' = [home EXCEPT ![x] = p]
        PROVE  Promise!Acquire(w, x, p)
    BY <1>1, <1>2, <1>3 DEF Promise!Acquire
  <1>4. CASE GetNewSql(w)
    <2>1. PICK x \in Sqls : /\ home[x] = NoConnction
                            /\ sql' = [sql EXCEPT ![w] = x]
                            /\ home' = [home EXCEPT ![x] = p]
      BY <1>4 DEF GetNewSql
    <2> QED BY <1>1, <1>3, <2>1, UnopenedUnused
  <1>5. CASE GetFreeSql(w)
    <2> DEFINE x == Head(que[p])
    <2>1. que[p] \in Seq(Sqls) /\ que[p] # <<>>
      BY <1>1, <1>5 DEF GetFreeSql, TypeInv, TypeOK
    <2>2. x \in Sqls /\ x = que[p][1] /\ 1 \in 1..Len(que[p])
      BY <2>1, TailFacts
    <2>3. x \in Free(p)
      BY <2>2 DEF Free
    <2>4. home[x] = p /\ \A v \in Workers : sql[v] # x
      BY <1>1, <2>3 DEF SqlInv, SqlExclusive, RightDatabase
    <2>5. home' = [home EXCEPT ![x] = p]
      BY <1>5, <2>2, <2>4 DEF GetFreeSql, TypeInv, TypeOK
    <2>6. sql' = [sql EXCEPT ![w] = x]
      BY <1>5 DEF GetFreeSql
    <2> QED BY <1>1, <1>3, <2>2, <2>4, <2>5, <2>6
  <1> QED BY <1>4, <1>5

LEMMA PromiseRelease ==
  ASSUME TypeInv, NEW w \in Workers, InitSqlFail(w) \/ PushConnection(w)
  PROVE  Promise!Done(w) \/ Promise!Fail(w)
  <1>1. sql[w] # NoSql
    BY NoSqlAssumption DEF InitSqlFail, PushConnection, TypeInv, PhaseOK, Holding
  <1>2. In({"ended"})' = In({"ended"})
    BY PromiseMoves DEF InitSqlFail, PushConnection
  <1>3. /\ sql' = [sql EXCEPT ![w] = NoSql] /\ task' = [task EXCEPT ![w] = NoTask]
        /\ UNCHANGED <<posted, taken>>
    BY DEF InitSqlFail, PushConnection, ownerVars
  <1>4. [v \in Workers |-> task'[v].id] = [[v \in Workers |-> task[v].id] EXCEPT ![w] = 0]
    BY <1>3, NoTaskType DEF TypeInv, TypeOK
  <1>5. Promise!Release(w)
    BY <1>1, <1>2, <1>3, <1>4 DEF Promise!Release
  <1>6. home' = home \/ home' = [home EXCEPT ![sql[w]] = NoConnction]
    BY DEF InitSqlFail, PushConnection
  <1> QED BY <1>5, <1>6 DEF Promise!Done, Promise!Fail

LEMMA PromiseStep ==
  TypeInv /\ SqlInv /\ [Next]_vars => [Promise!PoolNext]_(Promise!poolVars)
  <1> SUFFICES ASSUME TypeInv, SqlInv, [Next]_vars
               PROVE  Promise!PoolNext \/ UNCHANGED Promise!poolVars
    OBVIOUS
  <1>1. ASSUME NEW w \in Workers, \/ Wait(w) \/ SpuriousWakeup(w) \/ InitSql(w) \/ Query(w)
        PROVE  UNCHANGED Promise!poolVars
    <2>1. In({"ended"})' = In({"ended"})
      BY <1>1, PromiseMoves DEF Wait, SpuriousWakeup, InitSql, Query
    <2> QED BY <1>1, <2>1, PromiseStutter
            DEF Wait, SpuriousWakeup, InitSql, Query, sqlVars, ownerVars
  <1>2. ASSUME NEW w \in Workers, WakeToNothing(w) \/ PopNull(w) PROVE Promise!PoolNext
    <2>1. Promise!End(w)
      BY <1>2, PromiseEnd DEF WakeToNothing, PopNull, sqlVars, ownerVars
    <2> QED BY <2>1 DEF Promise!PoolNext
  <1>3. ASSUME NEW w \in Workers, PopTask(w) PROVE Promise!PoolNext
    BY <1>3, PromiseBegin DEF Promise!PoolNext
  <1>4. ASSUME NEW w \in Workers, GetFreeSql(w) \/ GetNewSql(w) PROVE Promise!PoolNext
    BY <1>4, PromiseAcquire DEF Promise!PoolNext
  <1>5. ASSUME NEW w \in Workers, InitSqlFail(w) \/ PushConnection(w) PROVE Promise!PoolNext
    BY <1>5, PromiseRelease DEF Promise!PoolNext
  <1>6. ASSUME NEW p \in Connctions, Post(p) PROVE Promise!PoolNext
    <2>1. In({"ended"})' = In({"ended"})
      BY <1>6, NotifyEnds DEF Post, Push
    <2>2. Promise!CloseFree
      <3>1. home' = [x \in Sqls |-> IF x \in {} THEN NoConnction ELSE home[x]]
        BY <1>6 DEF Post, sqlVars, TypeInv, TypeOK
      <3>2. {} \in SUBSET Sqls /\ \A w \in Workers : sql[w] \notin {}
        OBVIOUS
      <3> QED BY <3>1, <3>2, Zenon DEF Promise!CloseFree
    <2>3. Promise!Accept
      BY <1>6, <2>1, <2>2 DEF Post, sqlVars, Promise!Accept
    <2> QED BY <2>3 DEF Promise!PoolNext
  <1>7. CASE ClosePool
    <2>1. In({"ended"})' = In({"ended"})
      BY <1>7, NotifyEnds DEF ClosePool, Push
    <2> QED BY <1>7, <2>1, PromiseStutter DEF ClosePool, sqlVars
  <1>8. CASE ClosePoolReturns \/ Join \/ UNCHANGED vars
    <2>1. In({"ended"})' = In({"ended"})
      BY <1>8 DEF In, ClosePoolReturns, Join, vars, workerVars
    <2> QED BY <1>8, <2>1, PromiseStutter
            DEF ClosePoolReturns, Join, vars, workerVars, sqlVars
  <1>9. ASSUME NEW w \in Workers, Run(w)
        PROVE  Promise!PoolNext \/ UNCHANGED Promise!poolVars
    BY <1>1, <1>2, <1>3, <1>4, <1>5, <1>9 DEF Run
  <1> QED BY <1>1, <1>6, <1>7, <1>8, <1>9 DEF Next, Owner

\* The pool implements TaskPool: to those who post, it is a pool without a
\* queue to lock, a condition to wait for, or connections to hand over.
THEOREM PoolKeepsPromise == Spec => KeepsPromise
<1>1. Spec => Promise!PoolInit
  BY PromiseInit DEF Spec
<1>2. Spec => [][Promise!PoolNext]_(Promise!poolVars)
  BY SqlAlways, PromiseStep, PTL DEF Spec
<1> QED BY <1>1, <1>2, PTL DEF KeepsPromise, Promise!PoolSpec
=============================================================================
