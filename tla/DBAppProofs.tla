----------------------------- MODULE DBAppProofs -----------------------------
(***************************************************************************)
(* Proofs about DBApp, for every finite set of threads, every set of users,*)
(* Connction addresses and SQL connections, and every bound.               *)
(***************************************************************************)
EXTENDS DBApp, DatabaseThreadPoolProofs

\* A Connction serves one task: one that is queued, or one a thread has.
OneUse ==
  /\ \A i, j \in 1..Len(queue) : queue[i].conn = queue[j].conn => i = j
  /\ \A i \in 1..Len(queue), w \in Workers : queue[i].conn # task[w].conn
  /\ \A v, w \in Workers :
       task[v].conn = task[w].conn /\ task[v].conn # NoConnction => v = w

\* Until that task is done, the Connction has no free connection; it gets one
\* then, and is not used again.
Fresh ==
  /\ \A i \in 1..Len(queue) : que[queue[i].conn] = <<>>
  /\ \A w \in Workers : task[w].conn # NoConnction => que[task[w].conn] = <<>>
  /\ \A p \in Connctions : Len(que[p]) <= 1

\* The pool's own invariants, which its threads keep here too, and the rest.
AppInv ==
  /\ AppTypeOK /\ TypeInv /\ SqlInv /\ BudgetInv
  /\ pool = "open"
  /\ OneUse /\ Fresh

LEMMA AppInvInit == AppInit => AppInv
  <1> SUFFICES ASSUME AppInit PROVE AppInv
    OBVIOUS
  <1>1. TypeInv /\ SqlInv /\ BudgetInv /\ Init /\ pool = "open"
    BY TypeInit, SqlInit, BudgetInit DEF AppInit, Init
  <1>2. AppTypeOK
    BY <1>1 DEF AppInit, AppTypeOK, TypeInv
  <1>3. OneUse
    BY <1>1, NoTaskType DEF Init, OneUse
  <1>4. Fresh
    BY <1>1, NoTaskType DEF Init, Fresh
  <1> QED BY <1>1, <1>2, <1>3, <1>4 DEF AppInv

\* Every task in the queue has a Connction, as the pool stays open.
LEMMA QueueNames ==
  ASSUME AppInv
  PROVE  /\ queue \in Seq(Tasks) /\ Len(queue) \in Nat
         /\ \A i \in 1..Len(queue) : queue[i] \in Tasks /\ queue[i].conn \in Connctions
  <1>1. queue \in Seq(Tasks)
    BY DEF AppInv, TypeInv, TypeOK
  <1>2. \A i \in 1..Len(queue) : queue[i] \in Tasks
    BY <1>1
  <1>3. \A i \in 1..Len(queue) : queue[i].conn # NoConnction
    BY DEF AppInv, TypeInv, QueueOK
  <1> QED BY <1>1, <1>2, <1>3 DEF Tasks

\* What a thread has in each phase.
LEMMA Phases ==
  ASSUME AppInv, NEW w \in Workers
  PROVE  /\ pc[w] \in Working => task[w].conn \in Connctions /\ task[w].conn # NoConnction
         /\ task[w].conn # NoConnction => pc[w] \in Working
         /\ sql[w] # NoSql => pc[w] \in Holding /\ pc[w] \in Working /\ sql[w] \in Sqls
         /\ pc[w] \in Holding => sql[w] # NoSql
  BY NoTaskType, NoConnctionAssumption, NoSqlAssumption
     DEF AppInv, TypeInv, PhaseOK, Working, Holding

-----------------------------------------------------------------------------
(* The steps.                                                              *)

LEMMA AppStay ==
  ASSUME OneUse, Fresh, UNCHANGED <<queue, task, que>>
  PROVE  OneUse' /\ Fresh'
  BY DEF OneUse, Fresh

LEMMA AppPop ==
  ASSUME AppInv, NEW w \in Workers, PopTask(w)
  PROVE  OneUse' /\ Fresh'
  <1> DEFINE t == Head(queue)
  <1>1. /\ queue' = Tail(queue) /\ queue # <<>> /\ task' = [task EXCEPT ![w] = t]
        /\ que' = que
    BY DEF PopTask, sqlVars
  <1>2. /\ t = queue[1] /\ 1 \in 1..Len(queue) /\ t.conn \in Connctions
        /\ \A i \in 1..Len(queue') : queue'[i] = queue[i + 1] /\ i + 1 \in 1..Len(queue) /\ i + 1 # 1
    <2>1. /\ t = queue[1] /\ Len(queue) >= 1 /\ Len(queue') = Len(queue) - 1
          /\ \A i \in 1..Len(queue') : queue'[i] = queue[i + 1]
      BY <1>1, QueueNames, TailFacts
    <2>2. Len(queue) \in Nat /\ 1 \in 1..Len(queue)
      BY <2>1, QueueNames
    <2>3. \A i \in 1..Len(queue') : i + 1 \in 1..Len(queue) /\ i + 1 # 1
      BY <2>1, <2>2
    <2>4. t.conn \in Connctions
      BY <2>1, <2>2, QueueNames
    <2> QED BY <2>1, <2>2, <2>3, <2>4
  <1>3. \A v \in Workers : task'[v] = IF v = w THEN t ELSE task[v]
    BY <1>1 DEF AppInv, TypeInv, TypeOK
  <1>4. \A v \in Workers : t.conn # task[v].conn
    BY <1>2 DEF AppInv, OneUse
  <1> HIDE DEF t
  <1>5. \A i, j \in 1..Len(queue') : queue'[i].conn = queue'[j].conn => i = j
    <2> SUFFICES ASSUME NEW i \in 1..Len(queue'), NEW j \in 1..Len(queue'),
                        queue'[i].conn = queue'[j].conn
                 PROVE  i = j
      OBVIOUS
    <2>1. i + 1 = j + 1
      BY <1>2 DEF AppInv, OneUse
    <2> QED BY <2>1
  <1>6. \A i \in 1..Len(queue') : queue'[i].conn # t.conn
    BY <1>2 DEF AppInv, OneUse
  <1>7. OneUse'
    <2>1. \A i \in 1..Len(queue'), v \in Workers : queue'[i].conn # task'[v].conn
      BY <1>2, <1>3, <1>6 DEF AppInv, OneUse
    <2>2. \A v, u \in Workers :
            task'[v].conn = task'[u].conn /\ task'[v].conn # NoConnction => v = u
      BY <1>3, <1>4 DEF AppInv, OneUse
    <2> QED BY <1>5, <2>1, <2>2 DEF OneUse
  <1>8. Fresh'
    BY <1>1, <1>2, <1>3 DEF AppInv, Fresh
  <1> QED BY <1>7, <1>8

LEMMA AppFail ==
  ASSUME AppInv, NEW w \in Workers, InitSqlFail(w)
  PROVE  OneUse' /\ Fresh'
  <1>1. task' = [task EXCEPT ![w] = NoTask] /\ UNCHANGED <<queue, que>>
    BY DEF InitSqlFail, queueVars
  <1>2. \A v \in Workers : task'[v] = IF v = w THEN NoTask ELSE task[v]
    BY <1>1 DEF AppInv, TypeInv, TypeOK
  <1>3. OneUse'
    BY <1>1, <1>2, NoTaskType, QueueNames, NoConnctionAssumption DEF AppInv, OneUse
  <1>4. Fresh'
    BY <1>1, <1>2, NoTaskType DEF AppInv, Fresh
  <1> QED BY <1>3, <1>4

LEMMA AppGiveBack ==
  ASSUME AppInv, NEW w \in Workers, PushConnection(w)
  PROVE  OneUse' /\ Fresh'
  <1> DEFINE p == task[w].conn  x == sql[w]
  <1>1. /\ que' = [que EXCEPT ![p] = Append(que[p], x)]
        /\ task' = [task EXCEPT ![w] = NoTask] /\ queue' = queue
    BY DEF PushConnection, GiveBack, queueVars
  <1>2. p \in Connctions /\ p # NoConnction
    BY Phases DEF PushConnection, Working
  <1>3. que[p] = <<>>
    BY <1>2 DEF AppInv, Fresh
  <1>4. /\ \A v \in Workers : v # w => task[v].conn # p
        /\ \A i \in 1..Len(queue) : queue[i].conn # p
    BY <1>2 DEF AppInv, OneUse
  <1>5. \A v \in Workers : task'[v] = IF v = w THEN NoTask ELSE task[v]
    BY <1>1 DEF AppInv, TypeInv, TypeOK
  <1> HIDE DEF p, x
  <1>6. \A q \in Connctions : que'[q] = IF q = p THEN <<x>> ELSE que[q]
    BY <1>1, <1>3 DEF AppInv, TypeInv, TypeOK
  <1>7. OneUse'
    BY <1>1, <1>5, NoTaskType, QueueNames, NoConnctionAssumption DEF AppInv, OneUse
  <1>8. Fresh'
    <2>1. \A i \in 1..Len(queue) : que'[queue[i].conn] = <<>>
      BY <1>4, <1>6, QueueNames DEF AppInv, Fresh
    <2>2. \A v \in Workers : task'[v].conn # NoConnction => que'[task'[v].conn] = <<>>
      BY <1>4, <1>5, <1>6, NoTaskType, Phases DEF AppInv, Fresh
    <2>3. \A q \in Connctions : Len(que'[q]) <= 1
      <3>1. Len(<<x>>) <= 1
        OBVIOUS
      <3>2. \A q \in Connctions : Len(que[q]) <= 1
        BY DEF AppInv, Fresh
      <3>3. ASSUME NEW q \in Connctions PROVE Len(que'[q]) <= 1
        <4>1. CASE q = p
          <5>1. que'[q] = <<x>>
            BY <1>6, <4>1
          <5> QED BY <3>1, <5>1
        <4>2. CASE q # p
          BY <1>6, <3>2, <4>2
        <4> QED BY <4>1, <4>2
      <3> QED BY <3>3
    <2> QED BY <1>1, <2>1, <2>2, <2>3 DEF Fresh
  <1> QED BY <1>7, <1>8

LEMMA AppRound ==
  ASSUME AppInv, NEW u \in Users, Round(u)
  PROVE  OneUse' /\ Fresh'
  <1>1. PICK p \in Connctions :
          /\ NewConnction(p)
          /\ queue' = queue \/ queue' = Append(queue, [id |-> posted + 1, conn |-> p])
    BY DEF Round, Push
  <1>2. /\ que' = [que EXCEPT ![p] = <<>>] /\ p \notin Live
        /\ task' = task
    BY <1>1 DEF NewConnction, Round
  <1>3. /\ \A i \in 1..Len(queue) : queue[i].conn # p
        /\ \A w \in Workers : task[w].conn # p
    BY <1>2 DEF Live
  <1>4. \A q \in Connctions : que'[q] = IF q = p THEN <<>> ELSE que[q]
    BY <1>2 DEF AppInv, TypeInv, TypeOK
  <1>5. \A i \in 1..Len(queue') :
          \/ i \in 1..Len(queue) /\ queue'[i] = queue[i]
          \/ i = Len(queue) + 1 /\ queue'[i].conn = p
    <2>1. CASE queue' = queue
      BY <2>1
    <2>2. CASE queue' = Append(queue, [id |-> posted + 1, conn |-> p])
      <3> DEFINE t == [id |-> posted + 1, conn |-> p]
      <3>1. t.conn = p /\ t \in Tasks
        <4>1. posted + 1 \in 0..MaxTasks
          BY BoundsAssumption DEF Round, AppInv, TypeInv, TypeOK
        <4> QED BY <4>1 DEF Tasks
      <3> HIDE DEF t
      <3>2. /\ Len(queue') = Len(queue) + 1
            /\ \A i \in 1..Len(queue) : queue'[i] = queue[i]
            /\ queue'[Len(queue) + 1] = t
        BY <2>2, <3>1, QueueNames, AppendFacts DEF t
      <3>3. \A i \in 1..Len(queue') : i \in 1..Len(queue) \/ i = Len(queue) + 1
        BY <3>2, QueueNames
      <3> QED BY <3>1, <3>2, <3>3
    <2> QED BY <1>1, <2>1, <2>2
  <1>6. OneUse'
    <2>1. ASSUME NEW i \in 1..Len(queue'), NEW j \in 1..Len(queue'),
                 queue'[i].conn = queue'[j].conn
          PROVE  i = j
      BY <1>3, <1>5, <2>1 DEF AppInv, OneUse
    <2>2. \A i \in 1..Len(queue'), w \in Workers : queue'[i].conn # task[w].conn
      BY <1>3, <1>5 DEF AppInv, OneUse
    <2> QED BY <1>2, <2>1, <2>2 DEF AppInv, OneUse
  <1>7. Fresh'
    <2>1. \A i \in 1..Len(queue') : que'[queue'[i].conn] = <<>>
      BY <1>1, <1>3, <1>4, <1>5, QueueNames DEF AppInv, Fresh
    <2>2. \A w \in Workers : task[w].conn # NoConnction => que'[task[w].conn] = <<>>
      BY <1>3, <1>4, Phases DEF AppInv, Fresh
    <2>3. \A q \in Connctions : Len(que'[q]) <= 1
      BY <1>4 DEF AppInv, Fresh
    <2> QED BY <1>2, <2>1, <2>2, <2>3 DEF Fresh
  <1> QED BY <1>6, <1>7

\* Nobody holds the Connction whose address is used again, so that only free
\* SQL connections close with it.
LEMMA SqlRound ==
  ASSUME AppInv, NEW u \in Users, Round(u)
  PROVE  SqlInv'
  <1>1. PICK p \in Connctions : NewConnction(p)
    BY DEF Round
  <1>2. /\ que' = [que EXCEPT ![p] = <<>>] /\ p \notin Live
        /\ home' = [x \in Sqls |-> IF home[x] = p THEN NoConnction ELSE home[x]]
        /\ UNCHANGED <<task, sql>>
    BY <1>1 DEF NewConnction, Round
  <1>3. \A w \in Workers : task[w].conn # p
    BY <1>2 DEF Live
  <1>4. \A q \in Connctions : que'[q] = IF q = p THEN <<>> ELSE que[q]
    BY <1>2 DEF AppInv, TypeInv, TypeOK
  <1>5. \A q \in Connctions : Free(q)' = IF q = p THEN {} ELSE Free(q)
    BY <1>4 DEF Free
  <1>6. SqlExclusive'
    BY <1>2, <1>4, <1>5 DEF AppInv, SqlInv, SqlExclusive
  <1>7. RightDatabase'
    <2>1. \A w \in Workers : sql[w] # NoSql => home'[sql[w]] = task[w].conn
      BY <1>2, <1>3, Phases DEF AppInv, SqlInv, RightDatabase
    <2>2. \A q \in Connctions : Free(q) \subseteq Sqls
      BY DEF AppInv, TypeInv, TypeOK, Free
    <2>3. \A q \in Connctions : \A x \in Free(q)' : home'[x] = q
      BY <1>2, <1>5, <2>2 DEF AppInv, SqlInv, RightDatabase
    <2>4. NoneLost'
      <3>1. \A x \in Sqls : home'[x] # NoConnction => home'[x] = home[x] /\ home[x] # p
        BY <1>2
      <3>2. \A x \in Sqls : home'[x] # NoConnction => que'[home'[x]] = que[home[x]]
        BY <1>4, <3>1 DEF AppInv, TypeInv, TypeOK
      <3> QED BY <1>2, <3>1, <3>2 DEF AppInv, SqlInv, RightDatabase, NoneLost, Free
    <2> QED BY <1>2, <2>1, <2>3, <2>4 DEF RightDatabase
  <1> QED BY <1>6, <1>7 DEF SqlInv

LEMMA BudgetRound ==
  ASSUME AppInv, NEW u \in Users, Round(u)
  PROVE  BudgetInv'
  <1>1. UNCHANGED <<shutDown, spurious, pool>>
    BY DEF Round
  <1>2. ASSUME NEW p \in Connctions, posted < MaxTasks, Push([id |-> posted + 1, conn |-> p])
        PROVE  BudgetInv'
    <2>1. [id |-> posted + 1, conn |-> p] \in Tasks
      BY <1>2, BoundsAssumption DEF Tasks, AppInv, TypeInv, TypeOK
    <2>2. Len(queue') = Len(queue) + 1
      BY <1>2, <2>1, AppendFacts DEF Push, AppInv, TypeInv, TypeOK
    <2> QED BY <1>1, <1>2, <2>2, BudgetPush DEF Push, AppInv
  <1>3. CASE UNCHANGED <<queue, pc>>
    <2>1. \A S : In(S)' = In(S)
      BY <1>3 DEF In
    <2> QED BY <1>1, <1>3, <2>1 DEF AppInv, BudgetInv, Woken, WokenOrEnded
  <1> QED BY <1>2, <1>3 DEF Round

LEMMA AppTypeRound ==
  ASSUME AppInv, NEW u \in Users, Round(u)
  PROVE  TypeInv' /\ AppTypeOK'
  <1>1. PICK p \in Connctions :
          /\ NewConnction(p)
          /\ \/ /\ posted' = posted + 1 /\ Push([id |-> posted + 1, conn |-> p])
                /\ m_UserStatus' = [m_UserStatus EXCEPT ![One] = "busy"]
             \/ /\ UNCHANGED <<posted, queue, pc>>
                /\ m_UserStatus' = [m_UserStatus EXCEPT ![One] = "idle"]
    BY DEF Round
  <1>2. /\ posted < MaxTasks /\ m_MessageList' = m_MessageList \cup {u}
        /\ UNCHANGED <<shutDown, spurious, task, sql, pool, nulls, taken>>
    BY DEF Round
  <1>3. /\ que' \in [Connctions -> Seq(Sqls)]
        /\ home' \in [Sqls -> Connctions \cup {NoConnction}]
        /\ connction' = p
    BY <1>1 DEF NewConnction, AppInv, TypeInv, TypeOK
  <1>4. TypeInv'
    <2>1. CASE UNCHANGED <<posted, queue, pc>>
      <3>1. TypeOK'
        BY <1>2, <1>3, <2>1 DEF AppInv, TypeInv, TypeOK
      <3>2. PhaseOK' /\ QueueOK'
        BY <1>2, <2>1 DEF AppInv, TypeInv, PhaseOK, QueueOK
      <3> QED BY <3>1, <3>2 DEF TypeInv
    <2> QED BY <1>1, <1>2, <1>3, <2>1, TypePush DEF AppInv
  <1>5. m_UserStatus' \in [Users -> {"none", "idle", "busy"}]
    BY <1>1 DEF AppInv, AppTypeOK
  <1>6. m_MessageList' \subseteq Users /\ connction' \in Connctions \cup {NoConnction}
    BY <1>2, <1>3 DEF AppInv, AppTypeOK
  <1> QED BY <1>4, <1>5, <1>6 DEF AppTypeOK, TypeInv

LEMMA AppStep == AppInv /\ [AppNext]_<<vars, appVars>> => AppInv'
  <1> SUFFICES ASSUME AppInv, [AppNext]_<<vars, appVars>> PROVE AppInv'
    OBVIOUS
  <1>1. ASSUME NEW u \in Users, Round(u) PROVE AppInv'
    <2>1. pool' = pool
      BY <1>1 DEF Round
    <2> QED BY <1>1, <2>1, AppTypeRound, AppRound, SqlRound, BudgetRound DEF AppInv
  <1>2. ASSUME NEW w \in Workers, Run(w) \/ SpuriousWakeup(w), UNCHANGED appVars PROVE AppInv'
    <2>1. TypeInv' /\ SqlInv' /\ BudgetInv'
      BY <1>2, TypeStep, SqlStep, BudgetStep DEF Next, AppInv
    <2>2. AppTypeOK'
      BY <1>2, <2>1 DEF appVars, AppInv, AppTypeOK, TypeInv
    <2>3. pool' = pool
      BY <1>2 DEF Run, Wait, SpuriousWakeup, WakeToNothing, PopNull, PopTask, GetFreeSql,
         GetNewSql, InitSql, InitSqlFail, Query, PushConnection, ownerVars
    <2>4. OneUse' /\ Fresh'
      <3>1. CASE \/ Wait(w) \/ SpuriousWakeup(w) \/ WakeToNothing(w)
                 \/ GetNewSql(w) \/ InitSql(w) \/ Query(w)
        BY <3>1, AppStay DEF AppInv, Wait, SpuriousWakeup, WakeToNothing, GetNewSql,
           InitSql, Query, queueVars, sqlVars
      <3>2. ~PopNull(w)
        BY QueueNames, TailFacts, NoConnctionAssumption DEF PopNull
      <3>3. ~GetFreeSql(w)
        BY Phases DEF GetFreeSql, AppInv, Fresh, Working
      <3> QED BY <1>2, <3>1, <3>2, <3>3, AppPop, AppFail, AppGiveBack DEF Run
    <2> QED BY <2>1, <2>2, <2>3, <2>4 DEF AppInv
  <1>3. CASE UNCHANGED <<vars, appVars>>
    <2>1. TypeInv' /\ SqlInv' /\ BudgetInv'
      BY <1>3, TypeStep, SqlStep, BudgetStep DEF AppInv
    <2>2. UNCHANGED <<queue, task, que, pool>>
      BY <1>3 DEF vars
    <2>3. OneUse' /\ Fresh'
      BY <2>2, AppStay DEF AppInv
    <2> QED BY <1>3, <2>1, <2>2, <2>3 DEF AppInv, AppTypeOK, appVars, TypeInv
  <1> QED BY <1>1, <1>2, <1>3 DEF AppNext

LEMMA AppAlways == AppSpec => []AppInv
  BY AppInvInit, AppStep, PTL DEF AppSpec

-----------------------------------------------------------------------------
(* The properties.                                                         *)

\* Every variable of the database server keeps its type, those of the pool it
\* runs included.
THEOREM AppTypeCorrect == AppSpec => []AppTypeOK
  <1>1. AppInv => AppTypeOK
    BY DEF AppInv
  <1> QED BY <1>1, AppAlways, PTL

\* The connection a thread holds stays open for its task's Connction, although
\* OnUpdate replaces the Connction in every round (AppManager.cpp:60).
THEOREM HeldNeverClosed == AppSpec => []RightDatabase
  <1>1. AppInv => RightDatabase
    BY DEF AppInv, SqlInv
  <1> QED BY <1>1, AppAlways, PTL

\* No SQL connection is used by two threads, or free while one uses it, with
\* the addresses of Connctions used again (AppManager.cpp:60).
THEOREM AppSqlNeverShared == AppSpec => []SqlExclusive
  <1>1. AppInv => SqlExclusive
    BY DEF AppInv, SqlInv
  <1> QED BY <1>1, AppAlways, PTL

\* The tasks OnUpdate posts are taken in its order, each once, none skipped.
THEOREM AppTasksInOrder == AppSpec => []TakenInOrder
  <1>1. AppInv => TakenInOrder
    BY DEF AppInv, TypeInv, QueueOK, TakenInOrder
  <1> QED BY <1>1, AppAlways, PTL

\* A thread of the database server's pool that is notified finds a task, and
\* only a spurious wakeup can end one: main never closes the pool.
THEOREM AppThreadsLast == AppSpec => [](WokenFindTasks /\ WorkersLast)
  <1>1. ASSUME AppInv PROVE WokenFindTasks /\ WorkersLast
    <2>1. ~shutDown => Cardinality(In({"ended"})) <= spurious
      BY <1>1 DEF AppInv, BudgetInv
    <2>2. ~shutDown /\ spurious = 0 => In({"ended"}) = {}
      BY <2>1, InFinite, FS_EmptySet
    <2> QED BY <1>1, <2>1, <2>2
            DEF AppInv, BudgetInv, WokenFindTasks, WorkersLast, Woken
  <1> QED BY <1>1, AppAlways, PTL

\* No thread ever finds a free connection: each Connction serves one task, so
\* every task opens a connection of its own (AppManager.cpp:60).
THEOREM PoolingIsVain == AppSpec => []NeverPooled
  <1>1. AppInv => NeverPooled
    BY Phases DEF AppInv, Fresh, NeverPooled, Working
  <1> QED BY <1>1, AppAlways, PTL

\* The connections open at one time are at most one more than the threads,
\* although each round leaves a Connction behind.
THEOREM OpenBounded == AppSpec => []OpenSqlsBounded
  <1>1. ASSUME AppInv PROVE OpenSqlsBounded
    <2> DEFINE V == {v \in Workers : sql[v] # NoSql}
               H == {sql[w] : w \in V}
               x == que[connction][1]
    <2>1. IsFiniteSet(H) /\ Cardinality(H) <= Cardinality(Workers)
      <3> HIDE DEF V
      <3>1. V \in SUBSET Workers
        BY DEF V
      <3> QED BY <3>1, FewValues
    <2>2. \A p \in Live \ {NoConnction} : p # connction => Free(p) = {}
      <3>1. ASSUME NEW p \in Connctions, que[p] = <<>> PROVE Free(p) = {}
        BY <3>1 DEF Free
      <3>2. \A i \in 1..Len(queue) : queue[i].conn \in Connctions /\ que[queue[i].conn] = <<>>
        BY <1>1, QueueNames DEF AppInv, Fresh
      <3>3. \A w \in Workers : task[w].conn # NoConnction =>
              task[w].conn \in Connctions /\ que[task[w].conn] = <<>>
        BY <1>1, Phases DEF AppInv, Fresh
      <3> QED BY <3>1, <3>2, <3>3 DEF Live
    <2>3. connction # NoConnction => Free(connction) \subseteq {x}
      <3> SUFFICES ASSUME connction # NoConnction PROVE Free(connction) \subseteq {x}
        OBVIOUS
      <3>1. connction \in Connctions
        BY <1>1 DEF AppInv, AppTypeOK
      <3>2. Len(que[connction]) <= 1 /\ Len(que[connction]) \in Nat
        BY <1>1, <3>1 DEF AppInv, Fresh, TypeInv, TypeOK
      <3>3. \A i \in 1..Len(que[connction]) : i = 1
        BY <3>2
      <3> QED BY <3>3 DEF Free
    <2>4. OpenSqls \subseteq H \cup {x}
      BY <2>2, <2>3 DEF OpenSqls
    <2> HIDE DEF H, x
    <2>5. /\ IsFiniteSet(H \cup {x})
          /\ Cardinality(H \cup {x}) = Cardinality(H) \/ Cardinality(H \cup {x}) = Cardinality(H) + 1
      BY <2>1, FS_AddElement
    <2>6. Cardinality(OpenSqls) <= Cardinality(H \cup {x})
      BY <2>4, <2>5, FS_Subset
    <2>7. /\ Cardinality(H) \in Nat /\ Cardinality(Workers) \in Nat
          /\ Cardinality(OpenSqls) \in Nat
      BY <2>1, <2>4, <2>5, FS_Subset, FS_CardinalityType, WorkersAssumption
    <2> QED BY <2>1, <2>5, <2>6, <2>7 DEF OpenSqlsBounded
  <1> QED BY <1>1, AppAlways, PTL

-----------------------------------------------------------------------------
(* The refinement of TaskPool, which the pool's threads implement as in the *)
(* pool alone; a round of main accepts a task, or only gives up a database. *)

LEMMA RoundPromise ==
  ASSUME AppInv, NEW u \in Users, Round(u)
  PROVE  Promise!Accept \/ Promise!GiveUp
  <1>1. PICK p \in Connctions :
          /\ NewConnction(p)
          /\ \/ posted' = posted + 1 /\ NotifyOne
             \/ UNCHANGED <<posted, pc>>
    BY DEF Round, Push
  <1>2. /\ posted < MaxTasks /\ UNCHANGED <<task, sql, taken>>
        /\ p \notin Live
        /\ home' = [x \in Sqls |-> IF home[x] = p THEN NoConnction ELSE home[x]]
    BY <1>1 DEF Round, NewConnction
  <1>3. In({"ended"})' = In({"ended"})
    BY <1>1, NotifyEnds DEF In, AppInv
  <1>4. Promise!CloseFree
    <2> DEFINE closed == {x \in Sqls : home[x] = p}
    <2>1. closed \in SUBSET Sqls
      OBVIOUS
    <2>2. \A w \in Workers : sql[w] \notin closed
      BY <1>2, NoSqlAssumption DEF AppInv, SqlInv, RightDatabase, Live
    <2>3. home' = [x \in Sqls |-> IF x \in closed THEN NoConnction ELSE home[x]]
      BY <1>2
    <2> HIDE DEF closed
    <2> QED BY <2>1, <2>2, <2>3 DEF Promise!CloseFree
  <1> QED BY <1>1, <1>2, <1>3, <1>4 DEF Promise!Accept, Promise!GiveUp

LEMMA AppPromiseStep ==
  AppInv /\ [AppNext]_<<vars, appVars>> => [Promise!PoolNext]_(Promise!poolVars)
  <1> SUFFICES ASSUME AppInv, [AppNext]_<<vars, appVars>>
               PROVE  [Promise!PoolNext]_(Promise!poolVars)
    OBVIOUS
  <1>1. CASE [Next]_vars
    BY <1>1, PromiseStep DEF AppInv
  <1>2. ASSUME NEW u \in Users, Round(u) PROVE Promise!PoolNext
    BY <1>2, RoundPromise DEF Promise!PoolNext
  <1> QED BY <1>1, <1>2 DEF AppNext, Next

\* To the tasks of the database server its pool is a TaskPool too: a Connction
\* that OnUpdate replaces takes only unused SQL connections with it.
THEOREM AppKeepsPromise == AppSpec => KeepsPromise
  <1>1. AppSpec => Promise!PoolInit
    BY PromiseInit DEF AppSpec, AppInit
  <1>2. AppSpec => [][Promise!PoolNext]_(Promise!poolVars)
    BY AppAlways, AppPromiseStep, PTL DEF AppSpec
  <1> QED BY <1>1, <1>2, PTL DEF KeepsPromise, Promise!PoolSpec
=============================================================================
