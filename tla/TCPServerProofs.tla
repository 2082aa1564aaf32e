--------------------------- MODULE TCPServerProofs ---------------------------
(***************************************************************************)
(* Proofs about TCPServer, for every set of clients and stream addresses   *)
(* and every bound.                                                        *)
(***************************************************************************)
EXTENDS TCPServer, TLAPS

\* A queue keeps the type of its messages.
LEMMA AppendType ==
  ASSUME NEW S, NEW q \in Seq(S), NEW e \in S
  PROVE  Append(q, e) \in Seq(S)
OBVIOUS

LEMMA TailType ==
  ASSUME NEW S, NEW q \in Seq(S), q # <<>>
  PROVE  Head(q) \in S /\ Tail(q) \in Seq(S)
OBVIOUS

LEMMA ElementType ==
  ASSUME NEW S, NEW q \in Seq(S), NEW i \in 1..Len(q)
  PROVE  q[i] \in S
OBVIOUS

\* What the life cycle of a stream object guarantees: one in use carries a
\* client, one being read has an id, one with a shutdown under way is not
\* closing yet.
HandlesOK ==
  \A h \in Handles :
    /\ handle[h] # "free" => owner[h] \in Sessions
    /\ handle[h] = "open" => onlineStream[h] \in Ids
    /\ shut[h] => Alive(h)

TypeInv == TypeOK /\ HandlesOK

LEMMA TypeInit == Init => TypeInv
  BY BoundsAssumption DEF Init, TypeInv, TypeOK, HandlesOK, Ids, PeerEnds, Alive

LEMMA TypeClients == TypeInv /\ Clients => TypeInv'
<1> SUFFICES ASSUME TypeInv, NEW s \in Sessions,
                    Connect(s) \/ PeerSend(s) \/ \E how \in PeerEnds : PeerEnd(s, how)
             PROVE  TypeInv'
  BY DEF Clients
<1> USE BoundsAssumption DEF TypeInv, TypeOK, HandlesOK, Alive, streams, table,
        history, PeerEnds
<1>1. CASE Connect(s)
  BY <1>1 DEF Connect
<1>2. CASE PeerSend(s)
  <2>1. sent' \in [Sessions -> 0..MaxChunks]
    BY <1>2 DEF PeerSend
  <2> QED BY <1>2, <2>1 DEF PeerSend
<1>3. ASSUME NEW how \in PeerEnds, PeerEnd(s, how) PROVE TypeInv'
  BY <1>3 DEF PeerEnd
<1> QED BY <1>1, <1>2, <1>3

LEMMA TypeStart ==
  TypeInv /\ (StartFail \/ StartListen \/ StartLoad \/ StartStore) => TypeInv'
BY DEF TypeInv, TypeOK, HandlesOK, Alive, StartFail, StartListen, StartLoad,
       StartStore, clients, streams, table, history

\* A message PushRecvMessage makes for a stream being read.
LEMMA RecvMsgType ==
  ASSUME TypeInv, NEW h \in Handles, handle[h] = "open", NEW buf \in 0..MaxChunks
  PROVE  RecvMsg(h, buf) \in RecvMsgs
BY DEF TypeInv, TypeOK, HandlesOK, RecvMsg, RecvMsgs

\* ReleaseConnection keeps the types of the tables.
LEMMA ReleaseType ==
  ASSUME TypeInv, NEW h \in Handles, ReleaseConnection(h)
  PROVE  /\ onlineStream' = [onlineStream EXCEPT ![h] = 0]
         /\ onlineStream' \in [Handles -> 0..MaxConn]
         /\ onlineID' \in [Ids -> Handles \cup {NoHandle}]
         /\ freeIds' \in Seq(Ids)
         /\ maxId' = maxId
<1> USE DEF TypeInv, TypeOK
<1>1. onlineStream' = [onlineStream EXCEPT ![h] = 0] /\ maxId' = maxId
  BY DEF ReleaseConnection
<1>2. onlineStream' \in [Handles -> 0..MaxConn]
  BY <1>1, BoundsAssumption
<1>3. CASE UNCHANGED <<onlineID, freeIds>>
  BY <1>1, <1>2, <1>3
<1>4. ASSUME NEW conn \in Ids,
             onlineID' = [onlineID EXCEPT ![conn] = NoHandle],
             freeIds' = Append(freeIds, conn)
      PROVE  onlineID' \in [Ids -> Handles \cup {NoHandle}] /\ freeIds' \in Seq(Ids)
  <2>1. freeIds' \in Seq(Ids)
    BY <1>4, AppendType
  <2> QED BY <1>4, <2>1
<1> QED BY <1>1, <1>2, <1>3, <1>4 DEF ReleaseConnection, ReleaseID

LEMMA TypeConnection ==
  ASSUME TypeInv, NEW s \in Sessions, NEW h \in Handles,
         OnConnection(s, h) \/ OnConnectionFail(s, h)
  PROVE  TypeInv'
<1>1. CASE OnConnection(s, h)
  <2> PICK conn \in Ids : GetConnectionID(conn) /\ AddConnection(conn, h)
    BY <1>1 DEF OnConnection
  <2>1. freeIds' \in Seq(Ids) /\ maxId' \in 0..MaxConn
    <3> USE DEF TypeInv, TypeOK
    <3>1. CASE TakeReleasedID(conn)
      <4>1. Tail(freeIds) \in Seq(Ids)
        BY <3>1, TailType DEF TakeReleasedID
      <4> QED BY <3>1, <4>1 DEF TakeReleasedID
    <3>2. CASE ~TakeReleasedID(conn)
      BY <3>2, BoundsAssumption DEF GetConnectionID
    <3> QED BY <3>1, <3>2
  <2>2. /\ onlineStream' \in [Handles -> 0..MaxConn]
        /\ onlineStream' = [onlineStream EXCEPT ![h] = conn]
        /\ onlineID' \in [Ids -> Handles \cup {NoHandle}]
    BY BoundsAssumption DEF TypeInv, TypeOK, AddConnection, Ids
  <2> QED
    BY <1>1, <2>1, <2>2
    DEF OnConnection, TypeInv, TypeOK, HandlesOK, Alive, clients, history
<1>2. CASE OnConnectionFail(s, h)
  BY <1>2 DEF OnConnectionFail, TypeInv, TypeOK, HandlesOK, Alive, clients,
              table, history
<1> QED BY <1>1, <1>2

LEMMA TypeReading ==
  ASSUME TypeInv, NEW h \in Handles,
         AfterRead(h) \/ AfterReadEnd(h) \/ AfterShutdown(h) \/ OnClose(h)
  PROVE  TypeInv'
<1>1. CASE AfterRead(h)
  <2> DEFINE s == owner[h]
  <2>1. s \in Sessions /\ handle[h] = "open" /\ got[s] + 1 \in 0..MaxChunks
    BY <1>1, BoundsAssumption DEF AfterRead, TypeInv, TypeOK, HandlesOK
  <2>2. recvQ' = Append(recvQ, RecvMsg(h, got[s] + 1)) /\ recvQ' \in Seq(RecvMsgs)
    <3>1. RecvMsg(h, got[s] + 1) \in RecvMsgs
      BY <2>1, RecvMsgType
    <3> QED
      BY <1>1, <3>1, AppendType DEF AfterRead, PushRecvMessage, TypeInv, TypeOK
  <2>3. got' \in [Sessions -> 0..MaxChunks]
    BY <1>1, <2>1 DEF AfterRead, TypeInv, TypeOK
  <2> QED
    BY <1>1, <2>2, <2>3 DEF AfterRead, TypeInv, TypeOK, HandlesOK, Alive,
                            clients, streams, table, history
<1>2. CASE AfterReadEnd(h)
  <2>1. handle[h] = "open" /\ ReleaseConnection(h)
    BY <1>2 DEF AfterReadEnd, Disconnect
  <2>2. recvQ' \in Seq(RecvMsgs)
    <3>1. RecvMsg(h, 0) \in RecvMsgs
      BY <2>1, RecvMsgType, BoundsAssumption
    <3> QED
      BY <1>2, <3>1, AppendType
      DEF AfterReadEnd, Disconnect, PushRecvMessage, TypeInv, TypeOK
  <2> QED
    BY <1>2, <2>1, <2>2, ReleaseType
    DEF AfterReadEnd, TypeInv, TypeOK, HandlesOK, Alive, clients, history
<1>3. CASE AfterShutdown(h)
  BY <1>3 DEF AfterShutdown, TypeInv, TypeOK, HandlesOK, Alive, clients, table,
              history
<1>4. CASE OnClose(h)
  BY <1>4 DEF OnClose, TypeInv, TypeOK, HandlesOK, Alive, clients, table, history
<1> QED BY <1>1, <1>2, <1>3, <1>4

\* The message timer_cb takes, when there is one.
LEMMA MsgType ==
  ASSUME TypeInv, PopSendMessage
  PROVE  /\ Msg \in SendMsgs
         /\ Stream \in Handles \cup {NoHandle}
         /\ sendQ' \in Seq(SendMsgs)
<1>1. Msg \in SendMsgs /\ sendQ' \in Seq(SendMsgs)
  BY DEF TypeInv, TypeOK, PopSendMessage, Msg
<1>2. Msg.conn \in Ids
  BY <1>1 DEF SendMsgs
<1> QED BY <1>1, <1>2 DEF TypeInv, TypeOK, Stream

LEMMA TypeTimer ==
  ASSUME TypeInv, TimerSend \/ TimerRearm \/ LoopExit
  PROVE  TypeInv'
<1>1. CASE TickIdle \/ TimerRearm \/ LoopExit
  BY <1>1 DEF TickIdle, TimerRearm, LoopExit, TypeInv, TypeOK, HandlesOK, Alive,
              clients, streams, table, history
<1>2. CASE TickDrop \/ TickCrash
  <2>1. sendQ' \in Seq(SendMsgs)
    BY <1>2, MsgType DEF TickDrop, TickCrash
  <2> QED
    BY <1>2, <2>1 DEF TickDrop, TickCrash, TypeInv, TypeOK, HandlesOK, Alive,
                      clients, streams, table, history
<1>3. CASE TickShutdown
  <2>1. sendQ' \in Seq(SendMsgs) /\ Stream \in Handles
    BY <1>3, MsgType DEF TickShutdown
  <2> QED
    BY <1>3, <2>1 DEF TickShutdown, TypeInv, TypeOK, HandlesOK, Alive, clients,
                      table, history
<1>4. CASE TickWrite
  <2>1. sendQ' \in Seq(SendMsgs) /\ Stream \in Handles /\ Msg \in SendMsgs
    BY <1>4, MsgType DEF TickWrite
  <2>2. [n |-> Msg.n, to |-> Msg.to] \in [n : 1..MaxSends, to : Sessions]
    BY <2>1 DEF SendMsgs
  <2>3. wire' \in [Sessions -> Seq([n : 1..MaxSends, to : Sessions])]
    <3>1. CASE wire' # wire
      <4>1. owner[Stream] \in Sessions
        BY <1>4, <2>1, <3>1 DEF TickWrite, TypeInv, HandlesOK, Alive
      <4> DEFINE W == [n : 1..MaxSends, to : Sessions]
                 r == [n |-> Msg.n, to |-> Msg.to]
      <4>2. wire \in [Sessions -> Seq(W)]
        BY DEF TypeInv, TypeOK
      <4>3. Append(wire[owner[Stream]], r) \in Seq(W)
        BY <2>2, <4>1, <4>2, AppendType
      <4>4. wire' = [wire EXCEPT ![owner[Stream]] = Append(wire[owner[Stream]], r)]
        BY <1>4, <3>1 DEF TickWrite
      <4> HIDE DEF W, r
      <4>5. wire' \in [Sessions -> Seq(W)]
        BY <4>1, <4>2, <4>3, <4>4
      <4> QED BY <4>5 DEF W
    <3>2. CASE wire' = wire
      BY <3>2 DEF TypeInv, TypeOK
    <3> QED BY <3>1, <3>2
  <2> QED
    BY <1>4, <2>1, <2>3 DEF TickWrite, TypeInv, TypeOK, HandlesOK, Alive,
                            clients, streams, table, history
<1> QED BY <1>1, <1>2, <1>3, <1>4 DEF TimerSend

LEMMA TypeLogic ==
  ASSUME TypeInv, Logic
  PROVE  TypeInv'
<1>1. CASE GetRecvMessage
  <2> DEFINE m == Head(recvQ)
  <2>1. m \in RecvMsgs /\ recvQ' \in Seq(RecvMsgs)
    BY <1>1 DEF GetRecvMessage, TypeInv, TypeOK
  <2>2. m.conn \in Ids /\ m.from \in Sessions /\ m.buf \in 0..MaxChunks
    BY <2>1 DEF RecvMsgs
  <2> HIDE DEF m
  <2>3. /\ client' \in [Ids -> Sessions \cup {NoSession}]
        /\ heard' \in [Sessions -> 0..MaxChunks]
        /\ told' \subseteq Sessions
    BY <1>1, <2>2 DEF GetRecvMessage, TypeInv, TypeOK, m
  <2> QED
    BY <1>1, <2>1, <2>3 DEF GetRecvMessage, TypeInv, TypeOK, HandlesOK, Alive,
                            clients, streams, table
<1>2. ASSUME NEW conn \in Ids, NEW buf \in SendBufs, PushSendMessage(conn, buf)
      PROVE  TypeInv'
  <2>1. pushed' \in 0..MaxSends /\ pushed + 1 \in 1..MaxSends
    BY <1>2, BoundsAssumption DEF PushSendMessage, TypeInv, TypeOK
  <2>2. client[conn] \in Sessions
    BY <1>2 DEF PushSendMessage, TypeInv, TypeOK
  <2>3. [n |-> pushed + 1, conn |-> conn, buf |-> buf, to |-> client[conn]]
          \in SendMsgs
    BY <2>1, <2>2 DEF SendMsgs
  <2>4. sendQ' \in Seq(SendMsgs)
    BY <1>2, <2>3 DEF PushSendMessage, Enqueue, TypeInv, TypeOK
  <2> QED
    BY <1>2, <2>1, <2>4 DEF PushSendMessage, TypeInv, TypeOK, HandlesOK, Alive,
                            clients, streams, table, history
<1>3. CASE Close \/ Join
  BY <1>3 DEF Close, Join, TypeInv, TypeOK, HandlesOK, Alive, clients, streams,
              table, history
<1> QED BY <1>1, <1>2, <1>3 DEF Logic

LEMMA TypeStep == TypeInv /\ [Next]_vars => TypeInv'
<1> SUFFICES ASSUME TypeInv, [Next]_vars PROVE TypeInv'
  OBVIOUS
<1>1. CASE UNCHANGED vars
  BY <1>1 DEF vars, TypeInv, TypeOK, HandlesOK, Alive
<1>2. CASE Clients
  BY <1>2, TypeClients
<1>3. CASE Network
  BY <1>3, TypeStart, TypeConnection, TypeReading, TypeTimer DEF Network
<1>4. CASE Logic
  BY <1>4, TypeLogic
<1> QED BY <1>1, <1>2, <1>3, <1>4 DEF Next

LEMMA TypeAlways == Spec => []TypeInv
BY TypeInit, TypeStep, PTL DEF Spec

\* Every variable keeps its type.  In particular a disconnect notice and a
\* chunk always carry an id that was given out, whatever the logic thread
\* sends and whichever stale entries server-side disconnects leave behind.
THEOREM TypeCorrect == Spec => []TypeOK
<1>1. TypeInv => TypeOK
  BY DEF TypeInv
<1> QED BY <1>1, TypeAlways, PTL

-----------------------------------------------------------------------------
(* Close.                                                                  *)

\* A Close has been called, and Start is not about to store over it.
Closed == status = "CLOSE" /\ net # "checked"

\* timer_cb has begun its last run, or is past it.
Stopping == Closed /\ net \in {"tick", "stopping", "exited"}

LEMMA ClosedStep ==
  ASSUME [Next]_vars
  PROVE  /\ Closed => Closed'
         /\ Stopping => Stopping' /\ wire' = wire
<1> USE DEF Closed, Stopping
<1>1. CASE UNCHANGED vars
  BY <1>1 DEF vars
<1>2. CASE Clients
  BY <1>2 DEF Clients, Connect, PeerSend, PeerEnd
<1>3. CASE Logic
  BY <1>3 DEF Logic, GetRecvMessage, PushSendMessage, Close, Join
<1>4. ASSUME NEW h \in Handles, \/ AfterRead(h) \/ AfterReadEnd(h)
                                 \/ AfterShutdown(h) \/ OnClose(h)
      PROVE  UNCHANGED <<status, net, wire>>
  BY <1>4 DEF AfterRead, AfterReadEnd, AfterShutdown, OnClose
<1>5. ASSUME NEW s \in Sessions, NEW h \in Handles, OnConnection(s, h) \/ OnConnectionFail(s, h)
      PROVE  UNCHANGED <<status, net, wire>>
  BY <1>5 DEF OnConnection, OnConnectionFail
<1>6. CASE TimerSend
  BY <1>6 DEF TimerSend, TickIdle, TickDrop, TickShutdown, TickWrite, TickCrash,
              PopSendMessage
<1>7. CASE StartFail \/ StartListen \/ StartLoad \/ StartStore \/ TimerRearm \/ LoopExit
  BY <1>7 DEF StartFail, StartListen, StartLoad, StartStore, TimerRearm, LoopExit
<1> QED BY <1>1, <1>2, <1>3, <1>4, <1>5, <1>6, <1>7 DEF Next, Network

\* A Close is overwritten only if it falls between Start's load and its store
\* of the status (NetFrame.cpp:293-295).  At any other moment it lasts, and
\* the run of timer_cb that finds it writes nothing after it and is the last.
THEOREM CloseLasts ==
  Spec => [](/\ Closed => []Closed
             /\ Stopping => []Stopping /\ [][wire' = wire]_vars)
<1>1. Spec => [][Next]_vars
  BY PTL DEF Spec
<1>2. Stopping /\ [Next]_vars => [wire' = wire]_vars
  BY ClosedStep
<1> QED BY <1>1, <1>2, ClosedStep, PTL

-----------------------------------------------------------------------------
(* No id is lost.                                                          *)

\* Only a new connection and the end of one touch the tables.
LEMMA TableSteps ==
  ASSUME [Next]_vars
  PROVE  \/ UNCHANGED table
         \/ \E s \in Sessions, h \in Handles : OnConnection(s, h)
         \/ \E h \in Handles : AfterReadEnd(h)
<1>1. CASE UNCHANGED vars
  BY <1>1 DEF vars, table
<1>2. CASE Clients
  BY <1>2 DEF Clients, Connect, PeerSend, PeerEnd
<1>3. CASE Logic
  BY <1>3 DEF Logic, GetRecvMessage, PushSendMessage, Close, Join
<1>4. CASE Network
  BY <1>4 DEF Network, StartFail, StartListen, StartLoad, StartStore,
              OnConnectionFail, AfterRead, AfterShutdown, OnClose, TimerSend,
              TickIdle, TickDrop, TickShutdown, TickWrite, TickCrash, TimerRearm,
              LoopExit
<1> QED BY <1>1, <1>2, <1>3, <1>4 DEF Next

\* Taking an id out of m_ConnectionID, or a new one, and putting it online.
LEMMA IdsConnect ==
  ASSUME TypeInv, IdsAccounted, NEW conn \in Ids, NEW h \in Handles,
         GetConnectionID(conn), AddConnection(conn, h)
  PROVE  IdsAccounted' /\ onlineID[conn] = NoHandle
<1> USE DEF TypeInv, TypeOK, Ids
<1>0. /\ onlineID' = [onlineID EXCEPT ![conn] = h] /\ h # NoHandle
      /\ maxId \in Nat /\ freeIds \in Seq(Ids)
  BY NoHandleAssumption, BoundsAssumption DEF AddConnection
<1>1. CASE TakeReleasedID(conn)
  <2>1. /\ freeIds # <<>> /\ conn = freeIds[1] /\ maxId' = maxId
        /\ Len(freeIds') = Len(freeIds) - 1
        /\ \A i \in 1..Len(freeIds') : freeIds'[i] = freeIds[i + 1]
    BY <1>0, <1>1 DEF TakeReleasedID
  <2>2. \A i \in 1..Len(freeIds) : freeIds[i] = conn <=> i = 1
    BY <1>0, <2>1 DEF IdsAccounted
  <2>3. \A c \in Ids : (\E i \in 1..Len(freeIds) : freeIds[i] = c)
          <=> (c = conn \/ \E i \in 1..Len(freeIds') : freeIds'[i] = c)
    <3> SUFFICES ASSUME NEW c \in Ids
                 PROVE  (\E i \in 1..Len(freeIds) : freeIds[i] = c)
                   <=> (c = conn \/ \E i \in 1..Len(freeIds') : freeIds'[i] = c)
      OBVIOUS
    <3>1. ASSUME NEW i \in 1..Len(freeIds), freeIds[i] = c, i # 1
          PROVE  i - 1 \in 1..Len(freeIds') /\ freeIds'[i - 1] = c
      BY <1>0, <2>1, <3>1
    <3>2. ASSUME NEW i \in 1..Len(freeIds'), freeIds'[i] = c
          PROVE  i + 1 \in 1..Len(freeIds) /\ freeIds[i + 1] = c
      BY <1>0, <2>1, <3>2
    <3>3. 1 \in 1..Len(freeIds)
      BY <1>0, <2>1
    <3> QED BY <2>1, <3>1, <3>2, <3>3
  <2>4. onlineID[conn] = NoHandle
    BY <1>0, <2>1 DEF IdsAccounted
  <2>5. \A c \in Ids :
          (c <= maxId') <=> (onlineID'[c] # NoHandle
                             \/ \E i \in 1..Len(freeIds') : freeIds'[i] = c)
    <3> SUFFICES ASSUME NEW c \in Ids
                 PROVE  (c <= maxId) <=> (onlineID'[c] # NoHandle
                             \/ \E i \in 1..Len(freeIds') : freeIds'[i] = c)
      BY <2>1
    <3>1. (c <= maxId) <=> (onlineID[c] # NoHandle
                            \/ \E i \in 1..Len(freeIds) : freeIds[i] = c)
      BY DEF IdsAccounted
    <3>2. onlineID'[c] = IF c = conn THEN h ELSE onlineID[c]
      BY <1>0
    <3> HIDE DEF TypeInv, TypeOK, Ids
    <3> QED BY <1>0, <2>3, <3>1, <3>2
  <2>6. \A i \in 1..Len(freeIds') : onlineID'[freeIds'[i]] = NoHandle
    <3> SUFFICES ASSUME NEW i \in 1..Len(freeIds')
                 PROVE  onlineID'[freeIds'[i]] = NoHandle
      OBVIOUS
    <3>1. i + 1 \in 1..Len(freeIds) /\ freeIds'[i] = freeIds[i + 1]
      BY <1>0, <2>1
    <3>2. freeIds[i + 1] # conn /\ onlineID[freeIds[i + 1]] = NoHandle
      BY <2>2, <3>1 DEF IdsAccounted
    <3>3. freeIds[i + 1] \in Ids
      <4> HIDE DEF TypeInv, TypeOK, Ids
      <4> QED BY <1>0, <3>1, ElementType
    <3>4. onlineID'[freeIds[i + 1]] = onlineID[freeIds[i + 1]]
      BY <1>0, <3>2, <3>3
    <3> QED BY <3>1, <3>2, <3>4
  <2>7. \A i, j \in 1..Len(freeIds') : i # j => freeIds'[i] # freeIds'[j]
    BY <1>0, <2>1 DEF IdsAccounted
  <2> QED BY <2>4, <2>5, <2>6, <2>7 DEF IdsAccounted
<1>2. CASE ~TakeReleasedID(conn)
  <2>1. freeIds = <<>> /\ freeIds' = <<>> /\ conn = maxId + 1 /\ maxId' = conn
    BY <1>2 DEF GetConnectionID
  <2>2. Len(freeIds) = 0 /\ Len(freeIds') = 0
    BY <2>1
  <2>3. \A c \in Ids : (c <= maxId) <=> onlineID[c] # NoHandle
    BY <2>2 DEF IdsAccounted
  <2> QED BY <1>0, <2>1, <2>2, <2>3 DEF IdsAccounted
<1> QED BY <1>1, <1>2

\* Putting the id of a stream back.
LEMMA IdsRelease ==
  ASSUME TypeInv, IdsAccounted, NEW h \in Handles, ReleaseConnection(h)
  PROVE  IdsAccounted'
<1> USE DEF TypeInv, TypeOK
<1>1. CASE UNCHANGED <<onlineID, freeIds>>
  BY <1>1 DEF ReleaseConnection, IdsAccounted
<1>2. ASSUME NEW conn \in Ids, onlineID[conn] = h,
             onlineID' = [onlineID EXCEPT ![conn] = NoHandle],
             freeIds' = Append(freeIds, conn)
      PROVE  IdsAccounted'
  <2>1. /\ Len(freeIds') = Len(freeIds) + 1 /\ Len(freeIds) \in Nat
        /\ freeIds'[Len(freeIds) + 1] = conn
        /\ \A i \in 1..Len(freeIds) : freeIds'[i] = freeIds[i] /\ freeIds[i] \in Ids
    BY <1>2
  <2>2. /\ maxId' = maxId /\ h # NoHandle
        /\ \A c \in Ids : onlineID'[c] = IF c = conn THEN NoHandle ELSE onlineID[c]
    BY <1>2, NoHandleAssumption DEF ReleaseConnection
  <2>3. \A i \in 1..Len(freeIds) : freeIds[i] # conn
    BY <1>2, <2>2 DEF IdsAccounted
  <2>4. \A c \in Ids : (\E i \in 1..Len(freeIds') : freeIds'[i] = c)
          <=> (c = conn \/ \E i \in 1..Len(freeIds) : freeIds[i] = c)
    <3> SUFFICES ASSUME NEW c \in Ids
                 PROVE  (\E i \in 1..Len(freeIds') : freeIds'[i] = c)
                   <=> (c = conn \/ \E i \in 1..Len(freeIds) : freeIds[i] = c)
      OBVIOUS
    <3>1. \A i \in 1..Len(freeIds') : i = Len(freeIds) + 1 \/ i \in 1..Len(freeIds)
      BY <2>1
    <3>2. Len(freeIds) + 1 \in 1..Len(freeIds')
      BY <2>1
    <3>3. \A i \in 1..Len(freeIds) : i \in 1..Len(freeIds')
      BY <2>1
    <3> QED BY <2>1, <3>1, <3>2, <3>3
  <2> HIDE DEF TypeInv, TypeOK
  <2>5. \A c \in Ids :
          (c <= maxId') <=> (onlineID'[c] # NoHandle
                             \/ \E i \in 1..Len(freeIds') : freeIds'[i] = c)
    BY <1>2, <2>2, <2>4 DEF IdsAccounted
  <2>6. \A i \in 1..Len(freeIds') : onlineID'[freeIds'[i]] = NoHandle
    BY <2>1, <2>2, <2>3 DEF IdsAccounted
  <2>7. \A i, j \in 1..Len(freeIds') : i # j => freeIds'[i] # freeIds'[j]
    BY <2>1, <2>3 DEF IdsAccounted
  <2> QED BY <2>5, <2>6, <2>7 DEF IdsAccounted
<1> QED BY <1>1, <1>2 DEF ReleaseConnection, ReleaseID

LEMMA IdsStep ==
  ASSUME TypeInv, IdsAccounted, [Next]_vars
  PROVE  IdsAccounted'
<1>1. CASE UNCHANGED table
  BY <1>1 DEF table, IdsAccounted
<1>2. ASSUME NEW s \in Sessions, NEW h \in Handles, OnConnection(s, h)
      PROVE  IdsAccounted'
  BY <1>2, IdsConnect DEF OnConnection
<1>3. ASSUME NEW h \in Handles, AfterReadEnd(h)
      PROVE  IdsAccounted'
  BY <1>3, IdsRelease DEF AfterReadEnd, Disconnect
<1> QED BY <1>1, <1>2, <1>3, TableSteps

LEMMA IdsInit == Init => IdsAccounted
  BY BoundsAssumption DEF Init, IdsAccounted, Ids

\* Every id ever issued is online or waits in m_ConnectionID exactly once,
\* even when server-side disconnects leave stale entries behind.
THEOREM NoIdLost == Spec => []IdsAccounted
<1>1. TypeInv /\ IdsAccounted /\ [Next]_vars => IdsAccounted'
  BY IdsStep
<1> QED BY <1>1, IdsInit, TypeAlways, PTL DEF Spec

-----------------------------------------------------------------------------
(* The invariants of the connection tables when the logic thread never     *)
(* sends a null buffer.                                                    *)

\* Streams: a shutdown is under way only on one no longer read, the streams
\* being read are those of m_OnlineStream, and no client has two streams.
StreamsOK ==
  /\ \A h \in Handles : shut[h] => handle[h] = "done"
  /\ \A h \in Handles : handle[h] = "open" <=> onlineStream[h] # 0
  /\ \A h \in Handles : handle[h] # "free" => owner[h] \in accepted
  /\ \A g, h \in Handles :
       handle[g] # "free" /\ handle[h] # "free" /\ owner[g] = owner[h] => g = h

\* Clients reported as gone, to the logic thread or in the queue to it, were
\* accepted and are not read any more.
GoneOK ==
  /\ told \subseteq accepted
  /\ \A i \in 1..Len(recvQ) : recvQ[i].from \in accepted
  /\ \A h \in Handles : handle[h] = "open" =>
       /\ owner[h] \notin told
       /\ \A i \in 1..Len(recvQ) : recvQ[i].buf = 0 => recvQ[i].from # owner[h]

TableInv == TypeInv /\ IdsAccounted /\ TablesAgree /\ StreamsOK /\ GoneOK

\* The disconnect notices of id c that lie between the places a and b of the
\* receive queue.
NoticeBetween(c, a, b) ==
  \E k \in 1..Len(recvQ) : a < k /\ k < b /\ recvQ[k].conn = c /\ recvQ[k].buf = 0

Holds(c, s) == onlineID[c] # NoHandle /\ owner[onlineID[c]] = s

\* Messages of different clients under one id have a notice between them; a
\* chunk, or a client the logic thread knows, that no notice in the queue
\* follows is one of the client that holds the id.
QueueInv ==
  /\ \A i, j \in 1..Len(recvQ) :
       /\ i < j /\ recvQ[i].buf # 0
       /\ recvQ[i].conn = recvQ[j].conn /\ recvQ[i].from # recvQ[j].from
       => NoticeBetween(recvQ[i].conn, i, j)
  /\ \A j \in 1..Len(recvQ) :
       client[recvQ[j].conn] \notin {NoSession, recvQ[j].from}
       => NoticeBetween(recvQ[j].conn, 0, j)
  /\ \A i \in 1..Len(recvQ) :
       recvQ[i].buf # 0 /\ ~NoticeBetween(recvQ[i].conn, i, Len(recvQ) + 1)
       => Holds(recvQ[i].conn, recvQ[i].from)
  /\ \A c \in Ids :
       client[c] # NoSession /\ ~NoticeBetween(c, 0, Len(recvQ) + 1)
       => Holds(c, client[c])

NoNull == "null" \notin SendBufs

\* The steps that touch streams, tables, receive queue or what the logic
\* thread knows of the clients.
LEMMA RelevantSteps ==
  ASSUME NoNull, TypeInv, [Next]_vars
  PROVE  \/ UNCHANGED <<streams, table, recvQ, client, told>>
         \/ \E s \in Sessions, h \in Handles :
              OnConnection(s, h) \/ OnConnectionFail(s, h)
         \/ \E h \in Handles :
              AfterRead(h) \/ AfterReadEnd(h) \/ AfterShutdown(h) \/ OnClose(h)
         \/ GetRecvMessage
<1>1. CASE UNCHANGED vars
  BY <1>1 DEF vars, table, streams
<1>2. CASE Clients
  BY <1>2 DEF Clients, Connect, PeerSend, PeerEnd, history
<1>3. CASE Logic
  BY <1>3 DEF Logic, PushSendMessage, Close, Join, history
<1>4. CASE TimerSend
  <2>1. ~TickShutdown
    BY MsgType DEF TickShutdown, SendMsgs, NoNull
  <2> QED
    BY <1>4, <2>1 DEF TimerSend, TickIdle, TickDrop, TickWrite, TickCrash, history
<1>5. CASE Network /\ ~TimerSend
  BY <1>5 DEF Network, StartFail, StartListen, StartLoad, StartStore, TimerRearm,
              LoopExit, history
<1> QED BY <1>1, <1>2, <1>3, <1>4, <1>5 DEF Next

\* The id ReleaseConnection erases is the one the stream was known by.
LEMMA ReleaseEffect ==
  ASSUME TypeInv, TablesAgree, NEW h \in Handles, onlineStream[h] # 0,
         ReleaseConnection(h)
  PROVE  /\ onlineStream[h] \in Ids
         /\ onlineID[onlineStream[h]] = h
         /\ onlineID' = [onlineID EXCEPT ![onlineStream[h]] = NoHandle]
         /\ onlineStream' = [onlineStream EXCEPT ![h] = 0]
<1>1. onlineStream[h] \in Ids
  BY BoundsAssumption DEF TypeInv, TypeOK, Ids
<1>2. onlineID[onlineStream[h]] = h
  BY DEF TablesAgree
<1>3. \A c \in Ids : onlineID[c] = h => c = onlineStream[h]
  BY NoHandleAssumption DEF TablesAgree
<1> QED BY <1>1, <1>2, <1>3 DEF ReleaseConnection, ReleaseID

LEMMA TablesAgreeStep ==
  ASSUME NoNull, TableInv, [Next]_vars
  PROVE  TablesAgree'
<1> USE DEF TableInv
<1>1. CASE UNCHANGED table
  BY <1>1 DEF table, TablesAgree
<1>2. ASSUME NEW s \in Sessions, NEW h \in Handles, OnConnection(s, h)
      PROVE  TablesAgree'
  <2> PICK conn \in Ids : GetConnectionID(conn) /\ AddConnection(conn, h)
    BY <1>2 DEF OnConnection
  <2>1. onlineID[conn] = NoHandle
    BY IdsConnect
  <2>2. onlineStream[h] = 0
    BY <1>2 DEF OnConnection, StreamsOK
  <2>3. conn # 0 /\ 0 \notin Ids
    BY BoundsAssumption DEF Ids
  <2> QED
    BY <2>1, <2>2, <2>3, NoHandleAssumption
    DEF AddConnection, TablesAgree, TypeInv, TypeOK
<1>3. ASSUME NEW h \in Handles, AfterReadEnd(h)
      PROVE  TablesAgree'
  <2>1. onlineStream[h] # 0 /\ ReleaseConnection(h)
    BY <1>3 DEF AfterReadEnd, Disconnect, StreamsOK
  <2>2. /\ onlineStream[h] \in Ids
        /\ onlineID[onlineStream[h]] = h
        /\ onlineID' = [onlineID EXCEPT ![onlineStream[h]] = NoHandle]
        /\ onlineStream' = [onlineStream EXCEPT ![h] = 0]
    BY <2>1, ReleaseEffect
  <2>3. /\ onlineStream \in [Handles -> 0..MaxConn]
        /\ onlineID \in [Ids -> Handles \cup {NoHandle}]
    BY DEF TypeInv, TypeOK
  <2> HIDE DEF TableInv
  <2>4. TablesAgree
    BY DEF TableInv
  <2>5. ASSUME NEW g \in Handles, onlineStream'[g] # 0
        PROVE  onlineID'[onlineStream'[g]] = g
    <3>1. g # h /\ onlineStream'[g] = onlineStream[g] /\ onlineStream[g] # 0
      BY <2>2, <2>3, <2>5
    <3>2. onlineStream[g] \in Ids
      BY <2>3, <3>1, BoundsAssumption DEF Ids
    <3>3. onlineID[onlineStream[g]] = g /\ onlineStream[g] # onlineStream[h]
      BY <2>2, <2>4, <3>1 DEF TablesAgree
    <3> QED BY <2>2, <2>3, <3>1, <3>2, <3>3
  <2>6. ASSUME NEW c \in Ids, onlineID'[c] # NoHandle
        PROVE  onlineStream'[onlineID'[c]] = c
    <3>1. onlineID'[c] = onlineID[c] /\ onlineID[c] \in Handles /\ c # onlineStream[h]
      BY <2>2, <2>3, <2>6
    <3>2. onlineStream[onlineID[c]] = c
      BY <2>4, <2>6, <3>1 DEF TablesAgree
    <3> QED BY <2>2, <2>3, <3>1, <3>2
  <2> QED BY <2>5, <2>6 DEF TablesAgree
<1> QED BY <1>1, <1>2, <1>3, TableSteps

\* A stream object for a client that had none, read or given up at once.
LEMMA NewStream ==
  ASSUME TableInv, NEW s \in Sessions, NEW h \in Handles, NEW state, NEW conn,
         s \notin accepted, accepted' = accepted \cup {s},
         handle[h] = "free", handle' = [handle EXCEPT ![h] = state],
         owner' = [owner EXCEPT ![h] = s], shut' = shut,
         \/ /\ state = "open" /\ conn # 0
            /\ onlineStream' = [onlineStream EXCEPT ![h] = conn]
         \/ state = "done" /\ onlineStream' = onlineStream
  PROVE  StreamsOK'
<1>1. /\ handle \in [Handles -> {"free", "open", "done", "closing"}]
      /\ owner \in [Handles -> Sessions \cup {NoSession}]
      /\ onlineStream \in [Handles -> 0..MaxConn]
  BY DEF TableInv, TypeInv, TypeOK
<1>2. StreamsOK
  BY DEF TableInv
<1>3. \A g \in Handles :
        /\ handle'[g] = IF g = h THEN state ELSE handle[g]
        /\ owner'[g] = IF g = h THEN s ELSE owner[g]
        /\ g # h => onlineStream'[g] = onlineStream[g]
        /\ g = h => onlineStream'[g] = IF state = "open" THEN conn ELSE onlineStream[g]
  BY <1>1
<1>4. ~shut[h] /\ onlineStream[h] = 0
  BY <1>2 DEF StreamsOK
<1>5. (\A g \in Handles : shut[g] => handle[g] = "done")'
  BY <1>2, <1>3, <1>4 DEF StreamsOK
<1>6. (\A g \in Handles : handle[g] = "open" <=> onlineStream[g] # 0)'
  BY <1>2, <1>3, <1>4 DEF StreamsOK
<1>7. (\A g \in Handles : handle[g] # "free" => owner[g] \in accepted)'
  BY <1>2, <1>3 DEF StreamsOK
<1>8. (\A g, k \in Handles :
         handle[g] # "free" /\ handle[k] # "free" /\ owner[g] = owner[k] => g = k)'
  BY <1>2, <1>3 DEF StreamsOK
<1> QED BY <1>5, <1>6, <1>7, <1>8 DEF StreamsOK

LEMMA StreamsStep ==
  ASSUME NoNull, TableInv, [Next]_vars
  PROVE  StreamsOK'
<1> USE DEF TableInv, TypeInv, TypeOK
<1>1. CASE UNCHANGED <<streams, table, recvQ, client, told>>
  BY <1>1 DEF streams, table, StreamsOK
<1>2. ASSUME NEW s \in Sessions, NEW h \in Handles, OnConnection(s, h)
      PROVE  StreamsOK'
  <2> PICK conn \in Ids : GetConnectionID(conn) /\ AddConnection(conn, h)
    BY <1>2 DEF OnConnection
  <2>1. conn # 0 /\ ~shut[h]
    BY <1>2, BoundsAssumption DEF Ids, OnConnection, StreamsOK
  <2>2. /\ s \notin accepted /\ accepted' = accepted \cup {s}
        /\ handle[h] = "free" /\ handle' = [handle EXCEPT ![h] = "open"]
        /\ owner' = [owner EXCEPT ![h] = s]
        /\ onlineStream' = [onlineStream EXCEPT ![h] = conn] /\ shut' = shut
    BY <1>2 DEF OnConnection, AddConnection
  <2> QED BY <2>1, <2>2, NewStream
<1>3. ASSUME NEW s \in Sessions, NEW h \in Handles, OnConnectionFail(s, h)
      PROVE  StreamsOK'
  <2>1. /\ s \notin accepted /\ accepted' = accepted \cup {s}
        /\ handle[h] = "free" /\ handle' = [handle EXCEPT ![h] = "done"]
        /\ owner' = [owner EXCEPT ![h] = s]
        /\ onlineStream' = onlineStream /\ shut' = shut
    BY <1>3 DEF OnConnectionFail, table
  <2> QED BY <2>1, NewStream
<1>4. ASSUME NEW h \in Handles, AfterReadEnd(h)
      PROVE  StreamsOK'
  <2>1. /\ handle[h] = "open" /\ handle' = [handle EXCEPT ![h] = "done"]
        /\ shut' = [shut EXCEPT ![h] = TRUE] \/ shut' = shut
        /\ onlineStream' = [onlineStream EXCEPT ![h] = 0]
        /\ UNCHANGED <<accepted, owner>>
    BY <1>4 DEF AfterReadEnd, Disconnect, ReleaseConnection
  <2> QED BY <2>1 DEF StreamsOK
<1>5. ASSUME NEW h \in Handles, AfterRead(h) \/ AfterShutdown(h) \/ OnClose(h)
      PROVE  StreamsOK'
  <2>1. CASE AfterRead(h)
    BY <2>1 DEF AfterRead, streams, table, StreamsOK
  <2>2. CASE AfterShutdown(h)
    BY <2>2 DEF AfterShutdown, table, StreamsOK
  <2>3. CASE OnClose(h)
    BY <2>3 DEF OnClose, table, StreamsOK
  <2> QED BY <1>5, <2>1, <2>2, <2>3
<1>6. CASE GetRecvMessage
  BY <1>6 DEF GetRecvMessage, streams, table, StreamsOK
<1> QED BY <1>1, <1>2, <1>3, <1>4, <1>5, <1>6, RelevantSteps

LEMMA GoneStep ==
  ASSUME NoNull, TableInv, [Next]_vars
  PROVE  GoneOK'
<1> USE DEF TableInv, TypeInv, TypeOK
<1>1. CASE UNCHANGED <<streams, table, recvQ, client, told>>
  BY <1>1 DEF streams, GoneOK
<1>2. ASSUME NEW s \in Sessions, NEW h \in Handles,
             OnConnection(s, h) \/ OnConnectionFail(s, h)
      PROVE  GoneOK'
  <2>1. /\ s \notin accepted /\ accepted' = accepted \cup {s}
        /\ handle' \in [Handles -> {"free", "open", "done", "closing"}]
        /\ \A g \in Handles : handle'[g] = "open" => g = h \/ handle[g] = "open"
        /\ owner' = [owner EXCEPT ![h] = s]
        /\ UNCHANGED <<recvQ, told>>
    BY <1>2 DEF OnConnection, OnConnectionFail, history
  <2> QED BY <2>1 DEF GoneOK
<1>3. ASSUME NEW h \in Handles, AfterRead(h)
      PROVE  GoneOK'
  <2>1. /\ handle[h] = "open" /\ owner[h] \in accepted
        /\ recvQ' = Append(recvQ, RecvMsg(h, got[owner[h]] + 1))
        /\ got[owner[h]] + 1 # 0
        /\ UNCHANGED <<accepted, handle, owner, told>>
    BY <1>3 DEF AfterRead, PushRecvMessage, StreamsOK, streams, history, HandlesOK
  <2>2. /\ Len(recvQ') = Len(recvQ) + 1 /\ Len(recvQ) \in Nat
        /\ recvQ'[Len(recvQ) + 1] = RecvMsg(h, got[owner[h]] + 1)
        /\ \A i \in 1..Len(recvQ) : recvQ'[i] = recvQ[i]
    BY <2>1
  <2> HIDE DEF TypeInv, TypeOK
  <2> QED BY <2>1, <2>2 DEF GoneOK, RecvMsg
<1>4. ASSUME NEW h \in Handles, AfterReadEnd(h)
      PROVE  GoneOK'
  <2>1. /\ handle[h] = "open" /\ owner[h] \in accepted
        /\ handle' = [handle EXCEPT ![h] = "done"]
        /\ recvQ' = Append(recvQ, RecvMsg(h, 0))
        /\ UNCHANGED <<accepted, owner, told>>
    BY <1>4 DEF AfterReadEnd, Disconnect, PushRecvMessage, StreamsOK, history
  <2>2. /\ Len(recvQ') = Len(recvQ) + 1 /\ Len(recvQ) \in Nat
        /\ recvQ'[Len(recvQ) + 1] = RecvMsg(h, 0)
        /\ \A i \in 1..Len(recvQ) : recvQ'[i] = recvQ[i]
    BY <2>1
  <2>3. \A g \in Handles : handle'[g] = "open" =>
          g # h /\ handle[g] = "open" /\ owner[g] # owner[h]
    BY <2>1 DEF StreamsOK
  <2> HIDE DEF TypeInv, TypeOK
  <2> QED BY <2>1, <2>2, <2>3 DEF GoneOK, RecvMsg
<1>5. ASSUME NEW h \in Handles, AfterShutdown(h) \/ OnClose(h)
      PROVE  GoneOK'
  <2>1. /\ \A g \in Handles : handle'[g] = "open" =>
             handle[g] = "open" /\ owner'[g] = owner[g]
        /\ UNCHANGED <<accepted, recvQ, told>>
    BY <1>5 DEF AfterShutdown, OnClose, StreamsOK, history
  <2> QED BY <2>1 DEF GoneOK
<1>6. CASE GetRecvMessage
  <2>1. /\ recvQ # <<>> /\ recvQ' = Tail(recvQ)
        /\ told' = told \/ (Head(recvQ).buf = 0 /\ told' = told \cup {Head(recvQ).from})
        /\ UNCHANGED <<accepted, handle, owner>>
    BY <1>6 DEF GetRecvMessage, streams
  <2>2. /\ Len(recvQ') = Len(recvQ) - 1 /\ Len(recvQ) \in Nat
        /\ Head(recvQ) = recvQ[1] /\ 1 \in 1..Len(recvQ)
        /\ \A i \in 1..Len(recvQ') : recvQ'[i] = recvQ[i + 1] /\ i + 1 \in 1..Len(recvQ)
    BY <2>1
  <2> HIDE DEF TypeInv, TypeOK
  <2> QED BY <2>1, <2>2 DEF GoneOK
<1> QED BY <1>1, <1>2, <1>3, <1>4, <1>5, <1>6, RelevantSteps

LEMMA TableInit == Init => TableInv
<1>1. Init => TablesAgree /\ StreamsOK /\ GoneOK
  BY BoundsAssumption DEF Init, TablesAgree, StreamsOK, GoneOK, Ids
<1> QED BY <1>1, TypeInit, IdsInit DEF TableInv

LEMMA TableAlways == NoNull => (Spec => []TableInv)
<1> SUFFICES ASSUME NoNull PROVE Spec => []TableInv
  OBVIOUS
<1>1. TableInv /\ [Next]_vars => TableInv'
  BY TypeStep, IdsStep, TablesAgreeStep, StreamsStep, GoneStep DEF TableInv
<1> QED BY <1>1, TableInit, PTL DEF Spec

\* As long as the logic thread sends no null buffer, the two tables of
\* online connections are inverse to each other.
THEOREM TablesInverse == NoNull => (Spec => []TablesAgree)
<1> SUFFICES ASSUME NoNull PROVE Spec => []TablesAgree
  OBVIOUS
<1>1. TableInv => TablesAgree
  BY DEF TableInv
<1> QED BY <1>1, TableAlways, PTL

\* As long as the logic thread sends no null buffer, an entry of m_OnlineID
\* names a stream that is open, of a client not reported as gone: no answer
\* is ever written to a closed or freed stream.
THEOREM OnlineStreamsOpen == NoNull => (Spec => []OnlineIsOnline)
<1> SUFFICES ASSUME NoNull PROVE Spec => []OnlineIsOnline
  OBVIOUS
<1>1. ASSUME TableInv, NEW c \in Ids, onlineID[c] # NoHandle
      PROVE  handle[onlineID[c]] = "open" /\ owner[onlineID[c]] \notin told
  <2>1. onlineID[c] \in Handles /\ onlineStream[onlineID[c]] = c /\ c # 0
    BY <1>1, BoundsAssumption DEF TableInv, TypeInv, TypeOK, TablesAgree, Ids
  <2> QED BY <1>1, <2>1 DEF TableInv, StreamsOK, GoneOK
<1>2. TableInv => OnlineIsOnline
  BY <1>1 DEF OnlineIsOnline
<1> QED BY <1>2, TableAlways, PTL

-----------------------------------------------------------------------------
(* The end of a client is on its way to the logic thread until it is told. *)

Reading(s) == \E h \in Handles : handle[h] = "open" /\ owner[h] = s

NoticeAt(s, k) == k \in 1..Len(recvQ) /\ recvQ[k].from = s /\ recvQ[k].buf = 0

EndMovesOn(s) ==
  /\ Reading(s) => Reading(s)' \/ (\E k \in Nat : NoticeAt(s, k))'
  /\ \A k \in Nat : NoticeAt(s, k) =>
       NoticeAt(s, k)' \/ NoticeAt(s, k - 1)' \/ (k = 1 /\ s \in told')
  /\ s \in told => s \in told'

\* As long as the logic thread sends no null buffer, after_read alone takes a
\* client off reading, with a notice in the queue (NetFrame.cpp:42-64); the
\* notice loses its turn to nobody, and the logic thread hears it.
THEOREM EndsMoveOn ==
  NoNull => (Spec => [][\A s \in Sessions : EndMovesOn(s)]_vars)
<1> SUFFICES ASSUME NoNull
             PROVE  Spec => [][\A s \in Sessions : EndMovesOn(s)]_vars
  OBVIOUS
<1>1. ASSUME TableInv, Next, NEW s \in Sessions
      PROVE  EndMovesOn(s)
  <2> USE <1>1 DEF EndMovesOn, Reading, NoticeAt
  <2>0. recvQ \in Seq(RecvMsgs)
    BY DEF TableInv, TypeInv, TypeOK
  <2>1. CASE UNCHANGED <<streams, table, recvQ, client, told>>
    BY <2>1 DEF streams
  <2>2. ASSUME NEW r \in Sessions, NEW h \in Handles,
               OnConnection(r, h) \/ OnConnectionFail(r, h)
        PROVE  EndMovesOn(s)
    <3>1. handle[h] = "free" /\ UNCHANGED <<recvQ, told>>
      BY <2>2 DEF OnConnection, OnConnectionFail, history
    <3>2. \A g \in Handles \ {h} : handle'[g] = handle[g] /\ owner'[g] = owner[g]
      BY <2>2 DEF OnConnection, OnConnectionFail, TableInv, TypeInv, TypeOK
    <3> QED BY <3>1, <3>2
  <2>3. ASSUME NEW h \in Handles, AfterRead(h) PROVE EndMovesOn(s)
    <3>1. UNCHANGED <<handle, owner, told>> /\ \E m : recvQ' = Append(recvQ, m)
      BY <2>3 DEF AfterRead, PushRecvMessage, streams, history
    <3> QED BY <2>0, <3>1
  <2>4. ASSUME NEW h \in Handles, AfterReadEnd(h) PROVE EndMovesOn(s)
    <3> DEFINE m == RecvMsg(h, 0)
    <3>1. recvQ' = Append(recvQ, m) /\ m.from = owner[h] /\ m.buf = 0
      BY <2>4 DEF AfterReadEnd, Disconnect, PushRecvMessage, RecvMsg
    <3>2. UNCHANGED <<owner, told>>
      BY <2>4 DEF AfterReadEnd, history
    <3>3. \A g \in Handles \ {h} : handle'[g] = handle[g]
      BY <2>4 DEF AfterReadEnd, TableInv, TypeInv, TypeOK
    <3> HIDE DEF m
    <3>4. Len(recvQ') = Len(recvQ) + 1 /\ recvQ'[Len(recvQ) + 1] = m
      BY <2>0, <3>1
    <3>5. \A k \in 1..Len(recvQ) : recvQ'[k] = recvQ[k]
      BY <2>0, <3>1
    <3>6. Len(recvQ) \in Nat
      BY <2>0
    <3>7. owner[h] = s => (\E k \in Nat : NoticeAt(s, k))'
      BY <3>1, <3>4, <3>6
    <3>8. Reading(s) => Reading(s)' \/ owner[h] = s
      BY <3>2, <3>3
    <3> QED BY <3>2, <3>4, <3>5, <3>6, <3>7, <3>8
  <2>5. ASSUME NEW h \in Handles, AfterShutdown(h) \/ OnClose(h)
        PROVE  EndMovesOn(s)
    <3>1. handle[h] # "open" /\ UNCHANGED <<recvQ, told>>
      BY <2>5 DEF AfterShutdown, OnClose, TableInv, StreamsOK, history
    <3>2. \A g \in Handles \ {h} : handle'[g] = handle[g] /\ owner'[g] = owner[g]
      BY <2>5 DEF AfterShutdown, OnClose, TableInv, TypeInv, TypeOK
    <3> QED BY <3>1, <3>2
  <2>6. CASE GetRecvMessage
    <3>1. /\ recvQ # <<>> /\ recvQ' = Tail(recvQ)
          /\ UNCHANGED <<handle, owner>>
          /\ told' = IF recvQ[1].buf = 0 THEN told \cup {recvQ[1].from} ELSE told
      BY <2>6, <2>0 DEF GetRecvMessage, streams
    <3>2. /\ Len(recvQ') = Len(recvQ) - 1 /\ Len(recvQ) \in Nat
          /\ \A k \in 1..Len(recvQ) : k # 1 => recvQ'[k - 1] = recvQ[k]
      BY <2>0, <3>1
    <3>3. ASSUME NEW k \in Nat, NoticeAt(s, k)
          PROVE  NoticeAt(s, k - 1)' \/ (k = 1 /\ s \in told')
      BY <3>1, <3>2, <3>3
    <3> QED BY <3>1, <3>3
  <2> QED BY <2>1, <2>2, <2>3, <2>4, <2>5, <2>6, RelevantSteps DEF TableInv
<1>2. TableInv /\ [Next]_vars => [\A s \in Sessions : EndMovesOn(s)]_vars
  BY <1>1
<1> QED BY <1>2, TableAlways, PTL DEF Spec

-----------------------------------------------------------------------------
(* The receive queue separates the holders of an id.                       *)

\* An id that is online names a stream being read.
LEMMA OnlineEntry ==
  ASSUME TableInv, NEW c \in Ids, onlineID[c] # NoHandle
  PROVE  /\ onlineID[c] \in Handles
         /\ handle[onlineID[c]] = "open"
         /\ onlineStream[onlineID[c]] = c
<1>1. onlineID[c] \in Handles /\ onlineStream[onlineID[c]] = c /\ c # 0
  BY BoundsAssumption DEF TableInv, TypeInv, TypeOK, TablesAgree, Ids
<1> QED BY <1>1 DEF TableInv, StreamsOK

\* Steps that leave the queue and the clients alone take no id from its holder.
LEMMA HoldsKept ==
  ASSUME NoNull, TableInv,
         \/ UNCHANGED <<streams, table, recvQ, client, told>>
         \/ \E s \in Sessions, h \in Handles :
              OnConnection(s, h) \/ OnConnectionFail(s, h)
         \/ \E h \in Handles : AfterShutdown(h) \/ OnClose(h)
  PROVE  /\ UNCHANGED <<recvQ, client>>
         /\ \A c \in Ids, s \in Sessions : Holds(c, s) => Holds(c, s)'
<1> USE DEF Holds
<1>1. CASE UNCHANGED <<streams, table, recvQ, client, told>>
  BY <1>1 DEF streams, table
<1>2. ASSUME NEW s \in Sessions, NEW h \in Handles, OnConnection(s, h)
      PROVE  /\ UNCHANGED <<recvQ, client>>
             /\ \A c \in Ids, z \in Sessions : Holds(c, z) => Holds(c, z)'
  <2> PICK conn \in Ids : GetConnectionID(conn) /\ AddConnection(conn, h)
    BY <1>2 DEF OnConnection
  <2>1. onlineID[conn] = NoHandle /\ onlineID' = [onlineID EXCEPT ![conn] = h]
    BY IdsConnect DEF TableInv, AddConnection
  <2>2. /\ handle[h] = "free" /\ owner' = [owner EXCEPT ![h] = s]
        /\ UNCHANGED <<recvQ, client>>
    BY <1>2 DEF OnConnection, history
  <2>3. ASSUME NEW c \in Ids, NEW z \in Sessions, Holds(c, z)
        PROVE  Holds(c, z)'
    BY <2>1, <2>2, <2>3, OnlineEntry DEF TableInv, TypeInv, TypeOK
  <2> QED BY <2>2, <2>3
<1>3. ASSUME NEW s \in Sessions, NEW h \in Handles, OnConnectionFail(s, h)
      PROVE  /\ UNCHANGED <<recvQ, client>>
             /\ \A c \in Ids, z \in Sessions : Holds(c, z) => Holds(c, z)'
  <2>1. /\ handle[h] = "free" /\ owner' = [owner EXCEPT ![h] = s]
        /\ UNCHANGED <<onlineID, recvQ, client>>
    BY <1>3 DEF OnConnectionFail, table, history
  <2>2. ASSUME NEW c \in Ids, NEW z \in Sessions, Holds(c, z)
        PROVE  Holds(c, z)'
    BY <2>1, <2>2, OnlineEntry DEF TableInv, TypeInv, TypeOK
  <2> QED BY <2>1, <2>2
<1>4. ASSUME NEW h \in Handles, AfterShutdown(h) \/ OnClose(h)
      PROVE  /\ UNCHANGED <<recvQ, client>>
             /\ \A c \in Ids, z \in Sessions : Holds(c, z) => Holds(c, z)'
  <2>1. /\ handle[h] # "open"
        /\ owner' = owner \/ owner' = [owner EXCEPT ![h] = NoSession]
        /\ UNCHANGED <<onlineID, recvQ, client>>
    BY <1>4 DEF AfterShutdown, OnClose, table, history, TableInv, StreamsOK
  <2>2. ASSUME NEW c \in Ids, NEW z \in Sessions, Holds(c, z)
        PROVE  Holds(c, z)'
    <3>1. onlineID[c] \in Handles \ {h}
      BY <2>1, <2>2, OnlineEntry DEF Holds
    <3>2. owner'[onlineID[c]] = owner[onlineID[c]]
      BY <2>1, <3>1 DEF TableInv, TypeInv, TypeOK
    <3> QED BY <2>1, <2>2, <3>2 DEF Holds
  <2> QED BY <2>1, <2>2
<1> QED BY <1>1, <1>2, <1>3, <1>4

\* The elements of the queue, one by one.
LEMMA QueueTypes ==
  ASSUME TableInv
  PROVE  /\ Len(recvQ) \in Nat
         /\ \A i \in 1..Len(recvQ) : /\ recvQ[i].conn \in Ids
                                     /\ recvQ[i].from \in Sessions
                                     /\ recvQ[i].buf \in 0..MaxChunks
<1>1. recvQ \in Seq(RecvMsgs)
  BY DEF TableInv, TypeInv, TypeOK
<1>2. \A i \in 1..Len(recvQ) : recvQ[i] \in RecvMsgs
  BY <1>1, ElementType
<1> QED BY <1>1, <1>2 DEF RecvMsgs

LEMMA QueueOther ==
  ASSUME TableInv, QueueInv, UNCHANGED <<recvQ, client>>,
         \A c \in Ids, s \in Sessions : Holds(c, s) => Holds(c, s)'
  PROVE  QueueInv'
<1>1. \A c \in Ids : client[c] # NoSession => client[c] \in Sessions
  BY DEF TableInv, TypeInv, TypeOK
<1>2. \A c, a, b : NoticeBetween(c, a, b)' <=> NoticeBetween(c, a, b)
  BY DEF NoticeBetween
<1> HIDE DEF Holds, NoticeBetween
<1> QED BY <1>1, <1>2, QueueTypes DEF QueueInv

\* What QueueInv says of the queue, client by client: for a proof that takes
\* it apart, and puts it together for the next state.
LEMMA QueueInvParts ==
  ASSUME TableInv, QueueInv
  PROVE  /\ \A i, j \in 1..Len(recvQ), c \in Ids :
              /\ i < j /\ recvQ[i].buf # 0 /\ recvQ[i].conn = c
              /\ recvQ[j].conn = c /\ recvQ[i].from # recvQ[j].from
              => NoticeBetween(c, i, j)
         /\ \A j \in 1..Len(recvQ), c \in Ids :
              recvQ[j].conn = c /\ client[c] \notin {NoSession, recvQ[j].from}
              => NoticeBetween(c, 0, j)
         /\ \A i \in 1..Len(recvQ), c \in Ids :
              /\ recvQ[i].conn = c /\ recvQ[i].buf # 0
              /\ ~NoticeBetween(c, i, Len(recvQ) + 1)
              => Holds(c, recvQ[i].from)
         /\ \A c \in Ids :
              client[c] # NoSession /\ ~NoticeBetween(c, 0, Len(recvQ) + 1)
              => Holds(c, client[c])
BY QueueTypes DEF QueueInv

LEMMA QueueInvPrimed ==
  ASSUME TypeInv', NEW q, q = recvQ', NEW n \in Nat, n = Len(recvQ'),
         \A i, j \in 1..n, c \in Ids :
           /\ i < j /\ q[i].buf # 0 /\ q[i].conn = c
           /\ q[j].conn = c /\ q[i].from # q[j].from
           => NoticeBetween(c, i, j)',
         \A j \in 1..n, c \in Ids :
           q[j].conn = c /\ client'[c] \notin {NoSession, q[j].from}
           => NoticeBetween(c, 0, j)',
         \A i \in 1..n, c \in Ids, s \in Sessions :
           q[i].conn = c /\ q[i].buf # 0 /\ q[i].from = s
             /\ ~NoticeBetween(c, i, n + 1)'
           => Holds(c, s)',
         \A c \in Ids, s \in Sessions :
           client'[c] = s /\ ~NoticeBetween(c, 0, n + 1)' => Holds(c, s)'
  PROVE  QueueInv'
<1>1. recvQ' \in Seq(RecvMsgs)
  BY DEF TypeInv, TypeOK
<1>2. \A i \in 1..n : q[i].conn \in Ids /\ q[i].from \in Sessions
  <2>1. q \in Seq(RecvMsgs) /\ n = Len(q)
    BY <1>1
  <2>2. \A i \in 1..n : q[i] \in RecvMsgs
    BY <2>1, ElementType
  <2> QED BY <2>2 DEF RecvMsgs
<1>3. \A c \in Ids : client'[c] # NoSession => client'[c] \in Sessions
  BY DEF TypeInv, TypeOK
<1> USE DEF NoticeBetween, Holds
<1>4. (\A i, j \in 1..Len(recvQ) :
         /\ i < j /\ recvQ[i].buf # 0
         /\ recvQ[i].conn = recvQ[j].conn /\ recvQ[i].from # recvQ[j].from
         => NoticeBetween(recvQ[i].conn, i, j))'
  BY <1>2
<1>5. (\A j \in 1..Len(recvQ) :
         client[recvQ[j].conn] \notin {NoSession, recvQ[j].from}
         => NoticeBetween(recvQ[j].conn, 0, j))'
  BY <1>2
<1>6. (\A i \in 1..Len(recvQ) :
         recvQ[i].buf # 0 /\ ~NoticeBetween(recvQ[i].conn, i, Len(recvQ) + 1)
         => Holds(recvQ[i].conn, recvQ[i].from))'
  BY <1>2
<1>7. (\A c \in Ids :
         client[c] # NoSession /\ ~NoticeBetween(c, 0, Len(recvQ) + 1)
         => Holds(c, client[c]))'
  BY <1>3
<1> QED BY <1>4, <1>5, <1>6, <1>7 DEF QueueInv

\* A chunk joins the queue: it is of the client that holds its id.
LEMMA QueueChunk ==
  ASSUME TableInv, TypeInv', QueueInv, NEW h \in Handles, AfterRead(h)
  PROVE  QueueInv'
<1> PICK q, n, m, p : q = recvQ' /\ n = Len(recvQ) /\ p = recvQ
                      /\ m = RecvMsg(h, got[owner[h]] + 1)
  OBVIOUS
<1>1. /\ handle[h] = "open" /\ got[owner[h]] + 1 # 0 /\ owner[h] \in Sessions
      /\ recvQ' = Append(recvQ, m)
      /\ UNCHANGED <<owner, onlineID, client>>
  BY DEF AfterRead, PushRecvMessage, streams, table, history, TableInv, TypeInv,
         TypeOK, HandlesOK
<1>2. /\ n \in Nat /\ Len(recvQ') = n + 1 /\ q[n + 1] = m
      /\ \A i \in 1..n : q[i] = p[i]
  <2>1. recvQ \in Seq(RecvMsgs)
    BY DEF TableInv, TypeInv, TypeOK
  <2> QED BY <1>1, <2>1
<1>3. m.conn \in Ids /\ m.from = owner[h] /\ m.buf # 0 /\ onlineID[m.conn] = h
  BY <1>1 DEF RecvMsg, TableInv, TypeInv, HandlesOK, StreamsOK, TablesAgree
<1>4. \A s \in Sessions : Holds(m.conn, s) <=> s = m.from
  BY <1>3, NoHandleAssumption DEF Holds
<1>5. \A c \in Ids, a, b \in Nat :
        b <= n + 1 => (NoticeBetween(c, a, b)' <=> NoticeBetween(c, a, b))
  BY <1>2 DEF NoticeBetween
<1>6. \A c \in Ids, a \in Nat :
        NoticeBetween(c, a, n + 2)' <=> NoticeBetween(c, a, n + 1)
  BY <1>2, <1>3 DEF NoticeBetween
<1>7. \A c \in Ids, s \in Sessions : Holds(c, s)' <=> Holds(c, s)
  BY <1>1 DEF Holds
<1>8. /\ \A i \in 1..n : p[i].conn \in Ids /\ p[i].from \in Sessions
      /\ \A i \in 1..n : i \in Nat /\ i <= n
      /\ client' = client
      /\ \A c \in Ids : client[c] # NoSession => client[c] \in Sessions
  <2>1. \A i \in 1..n : p[i].conn \in Ids /\ p[i].from \in Sessions
    BY QueueTypes
  <2>2. \A i \in 1..n : i \in Nat /\ i <= n
    BY <1>2
  <2>3. \A c \in Ids : client[c] # NoSession => client[c] \in Sessions
    BY DEF TableInv, TypeInv, TypeOK
  <2> QED BY <1>1, <2>1, <2>2, <2>3
<1>9. \A i \in 1..(n + 1) : i \in 1..n \/ i = n + 1
  BY <1>2
<1>10. /\ \A i, j \in 1..n, c \in Ids :
            /\ i < j /\ p[i].buf # 0 /\ p[i].conn = c
            /\ p[j].conn = c /\ p[i].from # p[j].from
            => NoticeBetween(c, i, j)
       /\ \A j \in 1..n, c \in Ids :
            p[j].conn = c /\ client[c] \notin {NoSession, p[j].from}
            => NoticeBetween(c, 0, j)
       /\ \A i \in 1..n, c \in Ids :
            /\ p[i].conn = c /\ p[i].buf # 0
            /\ ~NoticeBetween(c, i, n + 1)
            => Holds(c, p[i].from)
       /\ \A c \in Ids :
            client[c] # NoSession /\ ~NoticeBetween(c, 0, n + 1)
            => Holds(c, client[c])
  BY QueueInvParts
<1>11. ASSUME NEW i \in 1..(n + 1), NEW j \in 1..(n + 1), NEW c \in Ids,
              i < j, q[i].buf # 0, q[i].conn = c, q[j].conn = c,
              q[i].from # q[j].from
       PROVE  NoticeBetween(c, i, j)'
  <2>1. i \in 1..n /\ i \in Nat /\ j \in Nat /\ j <= n + 1
    BY <1>2, <1>11
  <2>2. CASE j \in 1..n
    BY <1>2, <1>5, <1>10, <1>11, <2>1, <2>2
  <2>3. CASE j = n + 1
    <3>1. ~Holds(c, p[i].from)
      BY <1>2, <1>4, <1>8, <1>11, <2>1, <2>3
    <3>2. NoticeBetween(c, i, n + 1)
      BY <1>2, <1>10, <1>11, <2>1, <3>1
    <3> QED BY <1>2, <1>5, <2>1, <2>3, <3>2
  <2> QED BY <1>9, <2>2, <2>3
<1>12. ASSUME NEW j \in 1..(n + 1), NEW c \in Ids, q[j].conn = c,
              client'[c] \notin {NoSession, q[j].from}
       PROVE  NoticeBetween(c, 0, j)'
  <2>1. j \in Nat /\ j <= n + 1 /\ 0 \in Nat
    BY <1>2, <1>12
  <2>2. NoticeBetween(c, 0, j)
    <3>1. CASE j \in 1..n
      BY <1>2, <1>8, <1>10, <1>12, <3>1
    <3>2. CASE j = n + 1
      BY <1>2, <1>4, <1>8, <1>10, <1>12, <3>2
    <3> QED BY <1>9, <3>1, <3>2
  <2> QED BY <1>5, <2>1, <2>2
<1>13. ASSUME NEW i \in 1..(n + 1), NEW c \in Ids, NEW s \in Sessions,
              q[i].conn = c, q[i].buf # 0, q[i].from = s,
              ~NoticeBetween(c, i, n + 2)'
       PROVE  Holds(c, s)'
  <2>1. CASE i \in 1..n
    BY <1>2, <1>6, <1>7, <1>8, <1>10, <1>13, <2>1
  <2>2. CASE i = n + 1
    BY <1>2, <1>4, <1>7, <1>13, <2>2
  <2> QED BY <1>9, <2>1, <2>2
<1>14. ASSUME NEW c \in Ids, NEW s \in Sessions, client'[c] = s,
              ~NoticeBetween(c, 0, n + 2)'
       PROVE  Holds(c, s)'
  BY <1>6, <1>7, <1>8, <1>10, <1>14, NoSessionAssumption
<1>15. n + 1 \in Nat /\ (n + 1) + 1 = n + 2
  BY <1>2
<1> QED BY <1>2, <1>11, <1>12, <1>13, <1>14, <1>15, QueueInvPrimed

\* A notice joins the queue and its id loses its holder.
LEMMA QueueNotice ==
  ASSUME TableInv, TypeInv', QueueInv, NEW h \in Handles, AfterReadEnd(h)
  PROVE  QueueInv'
<1> PICK q, n, m, p : q = recvQ' /\ n = Len(recvQ) /\ p = recvQ
                      /\ m = RecvMsg(h, 0)
  OBVIOUS
<1>1. /\ handle[h] = "open" /\ owner[h] \in Sessions
      /\ onlineStream[h] # 0 /\ ReleaseConnection(h)
      /\ recvQ' = Append(recvQ, m)
      /\ UNCHANGED <<owner, client>>
  BY DEF AfterReadEnd, Disconnect, PushRecvMessage, history, TableInv, TypeInv,
         HandlesOK, StreamsOK
<1>2. /\ n \in Nat /\ Len(recvQ') = n + 1 /\ q[n + 1] = m
      /\ \A i \in 1..n : q[i] = p[i]
  <2>1. recvQ \in Seq(RecvMsgs)
    BY DEF TableInv, TypeInv, TypeOK
  <2> QED BY <1>1, <2>1
<1>3. /\ m.conn \in Ids /\ m.from = owner[h] /\ m.buf = 0 /\ onlineID[m.conn] = h
      /\ onlineID' = [onlineID EXCEPT ![m.conn] = NoHandle]
  BY <1>1, ReleaseEffect DEF RecvMsg, TableInv
<1>4. \A s \in Sessions : Holds(m.conn, s) <=> s = m.from
  BY <1>3, NoHandleAssumption DEF Holds
<1>5. \A c \in Ids, a, b \in Nat :
        b <= n + 1 => (NoticeBetween(c, a, b)' <=> NoticeBetween(c, a, b))
  BY <1>2 DEF NoticeBetween
<1>6. /\ \A c \in Ids \ {m.conn}, a \in Nat :
           NoticeBetween(c, a, n + 2)' <=> NoticeBetween(c, a, n + 1)
      /\ \A a \in Nat : a <= n => NoticeBetween(m.conn, a, n + 2)'
  BY <1>2, <1>3 DEF NoticeBetween
<1>7. \A c \in Ids \ {m.conn}, s \in Sessions : Holds(c, s)' <=> Holds(c, s)
  BY <1>1, <1>3 DEF Holds, TableInv, TypeInv, TypeOK
<1>8. /\ \A i \in 1..n : p[i].conn \in Ids /\ p[i].from \in Sessions
      /\ \A i \in 1..n : i \in Nat /\ i <= n
      /\ client' = client
      /\ \A c \in Ids : client[c] # NoSession => client[c] \in Sessions
  <2>1. \A i \in 1..n : p[i].conn \in Ids /\ p[i].from \in Sessions
    BY QueueTypes
  <2>2. \A i \in 1..n : i \in Nat /\ i <= n
    BY <1>2
  <2>3. \A c \in Ids : client[c] # NoSession => client[c] \in Sessions
    BY DEF TableInv, TypeInv, TypeOK
  <2> QED BY <1>1, <2>1, <2>2, <2>3
<1>9. \A i \in 1..(n + 1) : i \in 1..n \/ i = n + 1
  BY <1>2
<1>10. /\ \A i, j \in 1..n, c \in Ids :
            /\ i < j /\ p[i].buf # 0 /\ p[i].conn = c
            /\ p[j].conn = c /\ p[i].from # p[j].from
            => NoticeBetween(c, i, j)
       /\ \A j \in 1..n, c \in Ids :
            p[j].conn = c /\ client[c] \notin {NoSession, p[j].from}
            => NoticeBetween(c, 0, j)
       /\ \A i \in 1..n, c \in Ids :
            /\ p[i].conn = c /\ p[i].buf # 0
            /\ ~NoticeBetween(c, i, n + 1)
            => Holds(c, p[i].from)
       /\ \A c \in Ids :
            client[c] # NoSession /\ ~NoticeBetween(c, 0, n + 1)
            => Holds(c, client[c])
  BY QueueInvParts
<1>11. ASSUME NEW i \in 1..(n + 1), NEW j \in 1..(n + 1), NEW c \in Ids,
              i < j, q[i].buf # 0, q[i].conn = c, q[j].conn = c,
              q[i].from # q[j].from
       PROVE  NoticeBetween(c, i, j)'
  <2>1. i \in 1..n /\ i \in Nat /\ j \in Nat /\ j <= n + 1
    BY <1>2, <1>11
  <2>2. CASE j \in 1..n
    BY <1>2, <1>5, <1>10, <1>11, <2>1, <2>2
  <2>3. CASE j = n + 1
    <3>1. ~Holds(c, p[i].from)
      BY <1>2, <1>4, <1>8, <1>11, <2>1, <2>3
    <3>2. NoticeBetween(c, i, n + 1)
      BY <1>2, <1>10, <1>11, <2>1, <3>1
    <3> QED BY <1>2, <1>5, <2>1, <2>3, <3>2
  <2> QED BY <1>9, <2>2, <2>3
<1>12. ASSUME NEW j \in 1..(n + 1), NEW c \in Ids, q[j].conn = c,
              client'[c] \notin {NoSession, q[j].from}
       PROVE  NoticeBetween(c, 0, j)'
  <2>1. j \in Nat /\ j <= n + 1 /\ 0 \in Nat
    BY <1>2, <1>12
  <2>2. NoticeBetween(c, 0, j)
    <3>1. CASE j \in 1..n
      BY <1>2, <1>8, <1>10, <1>12, <3>1
    <3>2. CASE j = n + 1
      BY <1>2, <1>4, <1>8, <1>10, <1>12, <3>2
    <3> QED BY <1>9, <3>1, <3>2
  <2> QED BY <1>5, <2>1, <2>2
<1>13. ASSUME NEW i \in 1..(n + 1), NEW c \in Ids, NEW s \in Sessions,
              q[i].conn = c, q[i].buf # 0, q[i].from = s,
              ~NoticeBetween(c, i, n + 2)'
       PROVE  Holds(c, s)'
  <2>1. i \in 1..n
    BY <1>2, <1>3, <1>9, <1>13
  <2>2. c \in Ids \ {m.conn}
    BY <1>6, <1>8, <1>13, <2>1
  <2> QED BY <1>2, <1>6, <1>7, <1>8, <1>10, <1>13, <2>1, <2>2
<1>14. ASSUME NEW c \in Ids, NEW s \in Sessions, client'[c] = s,
              ~NoticeBetween(c, 0, n + 2)'
       PROVE  Holds(c, s)'
  <2>1. c \in Ids \ {m.conn} /\ 0 \in Nat
    BY <1>2, <1>6, <1>14
  <2> QED BY <1>6, <1>7, <1>8, <1>10, <1>14, <2>1, NoSessionAssumption
<1>15. n + 1 \in Nat /\ (n + 1) + 1 = n + 2
  BY <1>2
<1> QED BY <1>2, <1>11, <1>12, <1>13, <1>14, <1>15, QueueInvPrimed

\* The head of the queue is popped: every place moves down by one.
LEMMA QueuePop ==
  ASSUME TableInv, TypeInv', QueueInv, GetRecvMessage
  PROVE  QueueInv'
<1> PICK q, n, m, p : q = recvQ' /\ n = Len(recvQ) - 1 /\ p = recvQ
                      /\ m = Head(recvQ)
  OBVIOUS
<1>1. /\ recvQ # <<>> /\ recvQ' = Tail(recvQ)
      /\ UNCHANGED <<owner, onlineID>>
      /\ client' = [client EXCEPT ![m.conn] =
                      IF m.buf = 0 THEN NoSession ELSE m.from]
  BY DEF GetRecvMessage, streams, table
<1>2. /\ n \in Nat /\ Len(recvQ) = n + 1 /\ Len(recvQ') = n /\ p[1] = m
      /\ \A i \in 1..n : q[i] = p[i + 1] /\ i + 1 \in 1..(n + 1)
      /\ \A k \in 1..(n + 1) : k = 1 \/ (k - 1 \in 1..n /\ q[k - 1] = p[k])
  <2>1. recvQ \in Seq(RecvMsgs)
    BY DEF TableInv, TypeInv, TypeOK
  <2>2. Len(recvQ) \in Nat /\ Len(recvQ) # 0 /\ Len(recvQ') = Len(recvQ) - 1
    BY <1>1, <2>1
  <2>3. \A i \in 1..n : q[i] = p[i + 1]
    BY <1>1, <2>1, <2>2
  <2>4. p[1] = m
    BY <1>1, <2>1
  <2> QED BY <2>2, <2>3, <2>4
<1>3. /\ \A i \in 1..(n + 1) : p[i].conn \in Ids /\ p[i].from \in Sessions
      /\ \A c \in Ids : client[c] # NoSession => client[c] \in Sessions
      /\ 1 \in 1..(n + 1)
  <2>1. \A i \in 1..(n + 1) : p[i].conn \in Ids /\ p[i].from \in Sessions
    BY <1>2, QueueTypes
  <2>2. \A c \in Ids : client[c] # NoSession => client[c] \in Sessions
    BY DEF TableInv, TypeInv, TypeOK
  <2> QED BY <1>2, <2>1, <2>2
<1>4. \A c \in Ids : client'[c] = IF c # m.conn THEN client[c]
                                  ELSE IF m.buf = 0 THEN NoSession ELSE m.from
  BY <1>1 DEF TableInv, TypeInv, TypeOK
<1>5. \A c \in Ids, a, b \in Nat :
        NoticeBetween(c, a, b)' <=> NoticeBetween(c, a + 1, b + 1)
  <2>1. ASSUME NEW c \in Ids, NEW a \in Nat, NEW b \in Nat, NoticeBetween(c, a, b)'
        PROVE  NoticeBetween(c, a + 1, b + 1)
    BY <1>2, <2>1 DEF NoticeBetween
  <2>2. ASSUME NEW c \in Ids, NEW a \in Nat, NEW b \in Nat,
               NoticeBetween(c, a + 1, b + 1)
        PROVE  NoticeBetween(c, a, b)'
    <3> PICK k \in 1..(n + 1) : /\ a + 1 < k /\ k < b + 1
                                /\ p[k].conn = c /\ p[k].buf = 0
      BY <1>2, <2>2 DEF NoticeBetween
    <3>1. k - 1 \in 1..n /\ q[k - 1] = p[k] /\ a < k - 1 /\ k - 1 < b
      BY <1>2
    <3> QED BY <1>2, <3>1 DEF NoticeBetween
  <2> QED BY <2>1, <2>2
<1>6. \A c \in Ids, b \in Nat :
        c # m.conn \/ m.buf # 0
        => (NoticeBetween(c, 0, b) <=> NoticeBetween(c, 1, b))
  BY <1>2 DEF NoticeBetween
<1>7. \A c \in Ids, s \in Sessions : Holds(c, s)' <=> Holds(c, s)
  BY <1>1 DEF Holds
<1>8. /\ \A i, j \in 1..(n + 1), c \in Ids :
            /\ i < j /\ p[i].buf # 0 /\ p[i].conn = c
            /\ p[j].conn = c /\ p[i].from # p[j].from
            => NoticeBetween(c, i, j)
      /\ \A j \in 1..(n + 1), c \in Ids :
            p[j].conn = c /\ client[c] \notin {NoSession, p[j].from}
            => NoticeBetween(c, 0, j)
      /\ \A i \in 1..(n + 1), c \in Ids :
            /\ p[i].conn = c /\ p[i].buf # 0
            /\ ~NoticeBetween(c, i, n + 2)
            => Holds(c, p[i].from)
      /\ \A c \in Ids :
            client[c] # NoSession /\ ~NoticeBetween(c, 0, n + 2)
            => Holds(c, client[c])
  <2>1. Len(p) = n + 1 /\ Len(p) + 1 = n + 2 /\ recvQ = p
    BY <1>2
  <2> QED BY <2>1, QueueInvParts
<1>9. ASSUME NEW i \in 1..n, NEW j \in 1..n, NEW c \in Ids,
             i < j, q[i].buf # 0, q[i].conn = c, q[j].conn = c,
             q[i].from # q[j].from
      PROVE  NoticeBetween(c, i, j)'
  <2>1. /\ i + 1 \in 1..(n + 1) /\ j + 1 \in 1..(n + 1) /\ i + 1 < j + 1
        /\ q[i] = p[i + 1] /\ q[j] = p[j + 1] /\ i \in Nat /\ j \in Nat
    <3>1. i \in Nat /\ j \in Nat /\ i + 1 < j + 1
      BY <1>9
    <3> QED BY <1>2, <3>1
  <2>2. NoticeBetween(c, i + 1, j + 1)
    BY <1>8, <1>9, <2>1
  <2> QED BY <1>5, <2>1, <2>2
<1>10. ASSUME NEW j \in 1..n, NEW c \in Ids, q[j].conn = c,
              client'[c] \notin {NoSession, q[j].from}
       PROVE  NoticeBetween(c, 0, j)'
  <2>1. /\ j + 1 \in 1..(n + 1) /\ q[j] = p[j + 1] /\ 1 < j + 1
        /\ j \in Nat /\ j + 1 \in Nat /\ 0 \in Nat /\ 0 + 1 = 1
    BY <1>2
  <2>2. NoticeBetween(c, 1, j + 1)
    <3>1. CASE c # m.conn
      <4>1. client[c] \notin {NoSession, p[j + 1].from}
        BY <1>4, <1>10, <2>1, <3>1
      <4> QED BY <1>6, <1>8, <1>10, <2>1, <3>1, <4>1
    <3>2. CASE c = m.conn
      <4>1. m.buf # 0 /\ m.from # p[j + 1].from
        BY <1>4, <1>10, <2>1, <3>2
      <4> QED BY <1>2, <1>3, <1>8, <1>10, <2>1, <3>2, <4>1
    <3> QED BY <3>1, <3>2
  <2> QED BY <1>5, <2>1, <2>2
<1>11. ASSUME NEW i \in 1..n, NEW c \in Ids, NEW s \in Sessions,
              q[i].conn = c, q[i].buf # 0, q[i].from = s,
              ~NoticeBetween(c, i, n + 1)'
       PROVE  Holds(c, s)'
  <2>1. /\ i + 1 \in 1..(n + 1) /\ q[i] = p[i + 1]
        /\ i \in Nat /\ n + 1 \in Nat /\ (n + 1) + 1 = n + 2
    BY <1>2
  <2>2. ~NoticeBetween(c, i + 1, n + 2)
    BY <1>5, <1>11, <2>1
  <2> QED BY <1>7, <1>8, <1>11, <2>1, <2>2
<1>12. ASSUME NEW c \in Ids, NEW s \in Sessions, client'[c] = s,
              ~NoticeBetween(c, 0, n + 1)'
       PROVE  Holds(c, s)'
  <2>1. 0 \in Nat /\ 0 + 1 = 1 /\ n + 1 \in Nat /\ n + 2 \in Nat /\ (n + 1) + 1 = n + 2
    BY <1>2
  <2>2. ~NoticeBetween(c, 1, n + 2)
    BY <1>5, <1>12, <2>1
  <2>3. CASE c # m.conn
    <3>1. client[c] = s /\ s # NoSession
      BY <1>4, <1>12, <2>3, NoSessionAssumption
    <3> QED BY <1>6, <1>7, <1>8, <2>1, <2>2, <2>3, <3>1
  <2>4. CASE c = m.conn
    <3>1. m.buf # 0 /\ m.from = s
      BY <1>4, <1>12, <2>4, NoSessionAssumption
    <3> QED BY <1>2, <1>3, <1>7, <1>8, <2>2, <2>4, <3>1
  <2> QED BY <2>3, <2>4
<1> QED BY <1>2, <1>9, <1>10, <1>11, <1>12, QueueInvPrimed

LEMMA QueueStep ==
  ASSUME NoNull, TableInv, TypeInv', QueueInv, [Next]_vars
  PROVE  QueueInv'
<1>1. CASE UNCHANGED <<streams, table, recvQ, client, told>>
  BY <1>1, HoldsKept, QueueOther
<1>2. CASE \E s \in Sessions, h \in Handles :
             OnConnection(s, h) \/ OnConnectionFail(s, h)
  BY <1>2, HoldsKept, QueueOther
<1>3. CASE \E h \in Handles : AfterShutdown(h) \/ OnClose(h)
  BY <1>3, HoldsKept, QueueOther
<1>4. CASE \E h \in Handles : AfterRead(h) \/ AfterReadEnd(h)
  BY <1>4, QueueChunk, QueueNotice
<1>5. CASE GetRecvMessage
  BY <1>5, QueuePop
<1> QED
  BY <1>1, <1>2, <1>3, <1>4, <1>5, RelevantSteps DEF TableInv

LEMMA QueueInit == Init => QueueInv
  BY DEF Init, QueueInv, Ids

LEMMA QueueAlways == NoNull => (Spec => [](TableInv /\ QueueInv))
<1> SUFFICES ASSUME NoNull PROVE Spec => [](TableInv /\ QueueInv)
  OBVIOUS
<1>1. TableInv /\ QueueInv /\ [Next]_vars => QueueInv'
  BY TypeStep, QueueStep DEF TableInv
<1> QED BY <1>1, QueueInit, TableAlways, PTL DEF Spec

\* What a step does to the client the logic thread knows under an id.
LEMMA TakeoverStep ==
  ASSUME NoNull, TableInv, QueueInv, [Next]_vars, NEW c \in Ids,
         client[c] # NoSession, client'[c] # NoSession
  PROVE  client'[c] = client[c]
<1>1. CASE GetRecvMessage
  <2>1. recvQ \in Seq(RecvMsgs) /\ recvQ # <<>>
    BY <1>1 DEF GetRecvMessage, TableInv, TypeInv, TypeOK
  <2>2. Len(recvQ) \in Nat /\ 1 \in 1..Len(recvQ) /\ Head(recvQ) = recvQ[1]
    BY <2>1
  <2>3. ~NoticeBetween(recvQ[1].conn, 0, 1)
    BY <2>2 DEF NoticeBetween
  <2>4. client[recvQ[1].conn] \in {NoSession, recvQ[1].from}
    BY <2>2, <2>3 DEF QueueInv
  <2>5. client \in [Ids -> Sessions \cup {NoSession}]
    BY DEF TableInv, TypeInv, TypeOK
  <2>6. \/ client' = [client EXCEPT ![recvQ[1].conn] = NoSession]
        \/ client' = [client EXCEPT ![recvQ[1].conn] = recvQ[1].from]
    BY <1>1, <2>2 DEF GetRecvMessage
  <2> QED BY <2>4, <2>5, <2>6
<1>2. CASE \E h \in Handles : AfterRead(h) \/ AfterReadEnd(h)
  BY <1>2 DEF AfterRead, AfterReadEnd, history
<1>3. CASE \/ UNCHANGED <<streams, table, recvQ, client, told>>
           \/ \E s \in Sessions, h \in Handles :
                OnConnection(s, h) \/ OnConnectionFail(s, h)
           \/ \E h \in Handles : AfterShutdown(h) \/ OnClose(h)
  BY <1>3, HoldsKept
<1> QED BY <1>1, <1>2, <1>3, RelevantSteps DEF TableInv

\* As long as the logic thread sends no null buffer, it never hears a client
\* under an id it still holds for another one: after_read's notice always
\* comes first.
THEOREM NoTakeover == NoNull => (Spec => NoSilentTakeover)
<1> SUFFICES ASSUME NoNull PROVE Spec => NoSilentTakeover
  OBVIOUS
<1>1. TableInv /\ QueueInv /\ [Next]_vars
      => [\A c \in Ids : client[c] # NoSession /\ client'[c] # NoSession
            => client'[c] = client[c]]_vars
  BY TakeoverStep
<1> QED BY <1>1, QueueAlways, PTL DEF Spec, NoSilentTakeover
=============================================================================
