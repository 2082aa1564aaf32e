------------------------------- MODULE DBApp -------------------------------
(***************************************************************************)
(* The database server (Server/DBApp/DBApp.cpp and AppManager.cpp) over    *)
(* the pool of database threads: its main loop takes a message from the    *)
(* network or makes one up, keeps it in m_MessageList, and OnUpdate posts  *)
(* a task for every user it finds idle.                                    *)
(*                                                                         *)
(* OnUpdate makes a new Connction for the only key of the connection       *)
(* manager each time it is called.  A Connction lives as long as a         *)
(* shared_ptr to it: in the manager, in a queued task, or in a thread's    *)
(* local value; its free SQL connections close with it, and its address    *)
(* may be used again.  The program never closes its pool: nothing sets     *)
(* the status that main waits for.                                         *)
(***************************************************************************)
EXTENDS DatabaseThreadPool

CONSTANTS
  Users,   \* the connection ids messages come from
  One      \* the id 1, the only one OnUpdate registers

ASSUME OneAssumption == One \in Users

VARIABLES
  m_UserStatus,   \* "none": no entry; "idle": false; "busy": true
  m_MessageList,  \* the users with a message in the list; nothing is erased
  connction       \* the Connction that TaskMgr has for the key 1

appVars == <<m_UserStatus, m_MessageList, connction>>

AppTypeOK ==
  /\ TypeOK
  /\ m_UserStatus \in [Users -> {"none", "idle", "busy"}]
  /\ m_MessageList \subseteq Users
  /\ connction \in Connctions \cup {NoConnction}

\* Run: StartDB has created the threads.
AppInit ==
  /\ Init
  /\ m_UserStatus = [u \in Users |-> "none"]
  /\ m_MessageList = {}
  /\ connction = NoConnction

\* Wrong variant of the life of a Connction: one with free SQL connections is
\* never destroyed.
Live_Leak == {connction} \cup {queue[i].conn : i \in 1..Len(queue)}
                         \cup {task[w].conn : w \in Workers}
                         \cup {p \in Connctions : que[p] # <<>>}

\* The Connctions somebody holds a shared_ptr to.
Live == {connction} \cup {queue[i].conn : i \in 1..Len(queue)}
                    \cup {task[w].conn : w \in Workers}

\* Wrong variants of NewConnction: the manager keeps the Connction it has; a
\* Connction in use is taken for a new one.
NewConnction_Keep(p) ==
  /\ p \in Connctions
  /\ connction \in {NoConnction, p}
  /\ connction' = p
  /\ UNCHANGED sqlVars
NewConnction_Reuse(p) ==
  /\ p \in Connctions
  /\ connction' = p
  /\ que' = [que EXCEPT ![p] = <<>>]
  /\ home' = [x \in Sqls |-> IF home[x] = p THEN NoConnction ELSE home[x]]

\* NewConnction(1): a Connction at an address nobody refers to any more.
NewConnction(p) ==
  /\ p \in Connctions \ Live
  /\ connction' = p
  /\ que' = [que EXCEPT ![p] = <<>>]
  /\ home' = [x \in Sqls |-> IF home[x] = p THEN NoConnction ELSE home[x]]

\* One round of main: a message of user u (for want of one from the network,
\* one of user 1 that main makes itself) is kept, then OnUpdate marks user 1
\* idle and posts a task if the list has a message of that user.
Round(u) ==
  /\ posted < MaxTasks
  /\ m_MessageList' = m_MessageList \cup {u}
  /\ \E p \in Connctions :
       /\ NewConnction(p)
       /\ \/ /\ One \in m_MessageList'
             /\ posted' = posted + 1
             /\ Push([id |-> posted + 1, conn |-> p])
             /\ m_UserStatus' = [m_UserStatus EXCEPT ![One] = "busy"]
          \/ /\ One \notin m_MessageList'
             /\ m_UserStatus' = [m_UserStatus EXCEPT ![One] = "idle"]
             /\ UNCHANGED <<posted, queue, pc>>
  /\ UNCHANGED <<shutDown, spurious, task, sql, pool, nulls, taken>>

AppNext ==
  \/ \E u \in Users : Round(u)
  \/ (\E w \in Workers : Run(w) \/ SpuriousWakeup(w)) /\ UNCHANGED appVars

AppSpec == AppInit /\ [][AppNext]_<<vars, appVars>>
-----------------------------------------------------------------------------
(* Properties.                                                             *)

OpenSqls == {sql[w] : w \in {v \in Workers : sql[v] # NoSql}}
              \cup UNION {Free(p) : p \in Live \ {NoConnction}}

\* Although every round leaves a Connction behind, the SQL connections that
\* are open at one time stay bounded by the threads: those a thread holds,
\* and the free one of the Connction the manager has.
OpenSqlsBounded == Cardinality(OpenSqls) <= Cardinality(Workers) + 1

\* A Connction serves one task and is replaced: a thread never finds a free
\* connection to use again, and every task opens one of its own.
NeverPooled == \A w \in Workers : pc[w] = "get" => que[task[w].conn] = <<>>

\* A user marked busy has an instruction that is being executed ("true means
\* an instruction is being executed", AppManager.h:47).
Executing(u) == u = One /\ (\/ \E i \in 1..Len(queue) : queue[i].conn # NoConnction
                            \/ \E w \in Workers : task[w].conn # NoConnction)

BusyMeansExecuting == \A u \in Users : m_UserStatus[u] = "busy" => Executing(u)
=============================================================================
