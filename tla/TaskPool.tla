------------------------------ MODULE TaskPool ------------------------------
(***************************************************************************)
(* What a DatabaseThreadPool promises those who post to it: the queue, the *)
(* condition variable and the free lists of SQL connections are left out.  *)
(* Tasks are numbered in the order of post.  Each is taken once, in that   *)
(* order, by a thread that has no other; it then gets an SQL connection no *)
(* other thread uses, and keeps it until it is done, or the connection     *)
(* fails to open and the task is dropped with it.  One nobody uses may be  *)
(* closed, when its database is given up.  A thread that has ended takes   *)
(* no more.                                                                *)
(***************************************************************************)
EXTENDS Naturals

CONSTANTS
  Workers,      \* the threads
  Connctions,   \* the databases
  Sqls,         \* SQL connections
  NoConnction,  \* the database of an SQL connection that is not open
  NoSql,        \* "no SQL connection"
  MaxTasks      \* bound: tasks posted

VARIABLES
  posted,  \* tasks posted so far
  begun,   \* tasks taken so far
  busy,    \* the task of each thread, 0 = none
  held,    \* the SQL connection of each thread
  home,    \* the database each SQL connection is open for
  ended    \* the threads that have ended

poolVars == <<posted, begun, busy, held, home, ended>>

PoolInit ==
  /\ posted = 0
  /\ begun = 0
  /\ busy = [w \in Workers |-> 0]
  /\ held = [w \in Workers |-> NoSql]
  /\ home = [x \in Sqls |-> NoConnction]
  /\ ended = {}

\* SQL connections are closed that no thread uses: some, or none.
CloseFree ==
  \E closed \in SUBSET Sqls :
    /\ \A w \in Workers : held[w] \notin closed
    /\ home' = [x \in Sqls |-> IF x \in closed THEN NoConnction ELSE home[x]]

GiveUp == CloseFree /\ UNCHANGED <<posted, begun, busy, held, ended>>

\* The task may be for a database that takes the place of another one.
Accept ==
  /\ posted < MaxTasks
  /\ posted' = posted + 1
  /\ CloseFree
  /\ UNCHANGED <<begun, busy, held, ended>>

Begin(w) ==
  /\ w \notin ended /\ busy[w] = 0
  /\ begun < posted
  /\ begun' = begun + 1
  /\ busy' = [busy EXCEPT ![w] = begun + 1]
  /\ UNCHANGED <<posted, held, home, ended>>

\* An SQL connection nobody uses, opened for the task's database now or before.
Acquire(w, x, p) ==
  /\ busy[w] # 0 /\ held[w] = NoSql
  /\ \A v \in Workers : held[v] # x
  /\ home[x] \in {NoConnction, p}
  /\ held' = [held EXCEPT ![w] = x]
  /\ home' = [home EXCEPT ![x] = p]
  /\ UNCHANGED <<posted, begun, busy, ended>>

Release(w) ==
  /\ held[w] # NoSql
  /\ held' = [held EXCEPT ![w] = NoSql]
  /\ busy' = [busy EXCEPT ![w] = 0]
  /\ UNCHANGED <<posted, begun, ended>>

Done(w) == Release(w) /\ UNCHANGED home
Fail(w) == Release(w) /\ home' = [home EXCEPT ![held[w]] = NoConnction]

End(w) ==
  /\ w \notin ended /\ busy[w] = 0
  /\ ended' = ended \cup {w}
  /\ UNCHANGED <<posted, begun, busy, held, home>>

PoolNext ==
  \/ Accept \/ GiveUp
  \/ \E w \in Workers :
       \/ Begin(w) \/ Done(w) \/ Fail(w) \/ End(w)
       \/ \E x \in Sqls, p \in Connctions : Acquire(w, x, p)

PoolSpec == PoolInit /\ [][PoolNext]_poolVars
=============================================================================
