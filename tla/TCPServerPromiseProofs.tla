----------------------- MODULE TCPServerPromiseProofs -----------------------
(***************************************************************************)
(* TCPServer implements ClientSessions when the logic thread sends no null *)
(* buffer, and what that rests on: chunks are heard in order, answers are  *)
(* written in order, and astray only to the next holder of an id.          *)
(***************************************************************************)
EXTENDS TCPServerProofs

-----------------------------------------------------------------------------
(* The invariants.                                                         *)

\* Only clients that have connected are accepted.
PeerOK == \A s \in accepted : peer[s] # "idle"

\* The client has ended and its stream is out of use for good.
Left(s) ==
  /\ s \in accepted /\ peer[s] \in PeerEnds
  /\ \A h \in Handles : owner[h] = s => handle[h] # "open"

\* What is sent under the id c goes to s, or s has left.
Reaches(c, s) == Holds(c, s) \/ Left(s)

\* So it is for all messages on their way and all clients that are known, and
\* what went astray was for one that has left.
ReachInv ==
  /\ \A i \in 1..Len(recvQ) : Reaches(recvQ[i].conn, recvQ[i].from)
  /\ \A c \in Ids : client[c] # NoSession => Reaches(c, client[c])
  /\ \A i \in 1..Len(sendQ) : Reaches(sendQ[i].conn, sendQ[i].to)
  /\ \A s \in Sessions : \A i \in 1..Len(wire[s]) :
       wire[s][i].to # s => Left(wire[s][i].to)

\* The queue holds the chunks of a client that are read and not yet heard, in
\* order, and nothing of it after its notice.
ChunkInv ==
  /\ \A s \in Sessions : heard[s] <= got[s] /\ got[s] <= sent[s]
  /\ \A i, j \in 1..Len(recvQ) : i < j /\ recvQ[i].from = recvQ[j].from =>
       /\ recvQ[i].buf # 0
       /\ recvQ[j].buf # 0 => recvQ[i].buf < recvQ[j].buf
  /\ \A i \in 1..Len(recvQ) : recvQ[i].buf # 0 =>
       /\ heard[recvQ[i].from] < recvQ[i].buf
       /\ recvQ[i].buf <= got[recvQ[i].from]
  /\ \A s \in Sessions, n \in 1..MaxChunks : heard[s] < n /\ n <= got[s] =>
       \E i \in 1..Len(recvQ) : recvQ[i].from = s /\ recvQ[i].buf = n

\* A client in a notice has ended, and one that closed in good order has been
\* read to its end; nothing of a client follows the notice that was heard.
Ended(s) == peer[s] \in PeerEnds /\ (peer[s] = "eof" => got[s] = sent[s])

EndInv ==
  /\ \A i \in 1..Len(recvQ) : recvQ[i].buf = 0 => Ended(recvQ[i].from)
  /\ \A i \in 1..Len(recvQ) : recvQ[i].from \notin told

\* A client has one id, for the logic thread, in the queue and in the table;
\* one that was heard is known until it is told.
OneIdInv ==
  /\ \A c \in Ids : client[c] # NoSession => client[c] \in accepted
  /\ \A c, d \in Ids : client[c] = client[d] /\ client[c] # NoSession => c = d
  /\ \A i \in 1..Len(recvQ), c \in Ids :
       client[c] = recvQ[i].from => c = recvQ[i].conn
  /\ \A i, j \in 1..Len(recvQ) :
       recvQ[i].from = recvQ[j].from => recvQ[i].conn = recvQ[j].conn
  /\ \A h \in Handles : handle[h] = "open" =>
       /\ \A i \in 1..Len(recvQ) :
            recvQ[i].from = owner[h] => recvQ[i].conn = onlineStream[h]
       /\ \A c \in Ids : client[c] = owner[h] => c = onlineStream[h]
  /\ \A s \in Sessions : heard[s] > 0 /\ s \notin told =>
       \E c \in Ids : client[c] = s

SessionInv == PeerOK /\ ChunkInv /\ EndInv /\ OneIdInv

-----------------------------------------------------------------------------
(* Sequences.                                                              *)

LEMMA AppendFacts ==
  ASSUME NEW S, NEW q \in Seq(S), NEW e \in S
  PROVE  /\ Append(q, e) \in Seq(S)
         /\ Len(q) \in Nat /\ Len(Append(q, e)) = Len(q) + 1
         /\ \A i \in 1..Len(q) : Append(q, e)[i] = q[i]
         /\ Append(q, e)[Len(q) + 1] = e
         /\ \A i \in 1..(Len(q) + 1) : i \in 1..Len(q) \/ i = Len(q) + 1
OBVIOUS

LEMMA TailFacts ==
  ASSUME NEW S, NEW q \in Seq(S), q # <<>>
  PROVE  /\ Head(q) \in S /\ Head(q) = q[1] /\ 1 \in 1..Len(q)
         /\ Tail(q) \in Seq(S) /\ Len(q) \in Nat /\ Len(Tail(q)) = Len(q) - 1
         /\ \A i \in 1..Len(Tail(q)) : Tail(q)[i] = q[i + 1] /\ i + 1 \in 1..Len(q)
         /\ \A i \in 1..Len(q) : i = 1 \/ (i - 1 \in 1..Len(Tail(q)) /\ Tail(q)[i - 1] = q[i])
<1>1. /\ Head(q) \in S /\ Head(q) = q[1] /\ Len(q) \in Nat /\ Len(q) # 0
      /\ Tail(q) \in Seq(S) /\ Len(Tail(q)) = Len(q) - 1
      /\ \A i \in 1..Len(Tail(q)) : Tail(q)[i] = q[i + 1]
  OBVIOUS
<1>2. \A i \in 1..Len(q) : i = 1 \/ i - 1 \in 1..Len(Tail(q))
  BY <1>1
<1>3. \A i \in 1..Len(q) : i # 1 => Tail(q)[i - 1] = q[i]
  BY <1>1, <1>2
<1> QED BY <1>1, <1>2, <1>3

-----------------------------------------------------------------------------
(* The messages to send.                                                   *)

\* The oldest message is written to the client its id stands for.
Written ==
  /\ Stream \in Handles /\ Alive(Stream) /\ Msg.buf = "text"
  /\ owner[Stream] \in Sessions
  /\ wire' = [wire EXCEPT ![owner[Stream]] = Append(@, [n |-> Msg.n, to |-> Msg.to])]

\* A step leaves them alone, adds one, or takes the oldest.
LEMMA SendSteps ==
  ASSUME TypeInv, [Next]_vars
  PROVE  \/ UNCHANGED <<sendQ, pushed, wire>>
         \/ \E conn \in Ids, buf \in SendBufs : PushSendMessage(conn, buf)
         \/ /\ PopSendMessage /\ UNCHANGED pushed
            /\ UNCHANGED wire \/ (TickWrite /\ Written)
<1>1. CASE UNCHANGED vars
  BY <1>1 DEF vars
<1>2. CASE Clients
  BY <1>2 DEF Clients, Connect, PeerSend, PeerEnd
<1>3. CASE Logic
  BY <1>3 DEF Logic, GetRecvMessage, Close, Join
<1>4. CASE TickIdle
  BY <1>4 DEF TickIdle
<1>5. CASE TickDrop \/ TickShutdown \/ TickCrash
  BY <1>5 DEF TickDrop, TickShutdown, TickCrash
<1>6. CASE TickWrite
  <2>1. CASE UNCHANGED wire
    BY <1>6, <2>1 DEF TickWrite
  <2>2. CASE wire' # wire
    <3>1. Stream \in Handles /\ Alive(Stream) /\ Msg.buf = "text"
      BY <1>6, <2>2, MsgType DEF TickWrite
    <3>2. owner[Stream] \in Sessions
      BY <3>1 DEF TypeInv, HandlesOK, Alive
    <3> QED BY <1>6, <2>2, <3>1, <3>2 DEF TickWrite, Written
  <2> QED BY <2>1, <2>2
<1>7. CASE Network /\ ~TimerSend
  BY <1>7 DEF Network, StartFail, StartListen, StartLoad, StartStore, OnConnection,
              OnConnectionFail, AfterRead, AfterReadEnd, AfterShutdown, OnClose,
              TimerRearm, LoopExit
<1> QED BY <1>1, <1>2, <1>3, <1>4, <1>5, <1>6, <1>7 DEF Next, TimerSend

\* What the message pushed, and the one popped, does to the queue.
LEMMA SendPushed ==
  ASSUME TypeInv, NEW conn \in Ids, NEW buf \in SendBufs, PushSendMessage(conn, buf)
  PROVE  /\ sendQ \in Seq(SendMsgs) /\ Len(sendQ) \in Nat /\ Len(sendQ') = Len(sendQ) + 1
         /\ \A i \in 1..Len(sendQ) : sendQ'[i] = sendQ[i]
         /\ \A i \in 1..Len(sendQ') : i \in 1..Len(sendQ) \/ i = Len(sendQ) + 1
         /\ sendQ'[Len(sendQ) + 1].n = pushed + 1
         /\ sendQ'[Len(sendQ) + 1].conn = conn
         /\ sendQ'[Len(sendQ) + 1].to = client[conn]
<1> DEFINE m == [n |-> pushed + 1, conn |-> conn, buf |-> buf, to |-> client[conn]]
<1>1. sendQ \in Seq(SendMsgs) /\ sendQ' = Append(sendQ, m)
  BY DEF TypeInv, TypeOK, PushSendMessage, Enqueue
<1>2. m \in SendMsgs
  <2>1. pushed + 1 \in 1..MaxSends
    BY BoundsAssumption DEF TypeInv, TypeOK, PushSendMessage
  <2>2. client[conn] \in Sessions
    BY DEF TypeInv, TypeOK, PushSendMessage
  <2> QED BY <2>1, <2>2 DEF SendMsgs
<1>3. m.n = pushed + 1 /\ m.conn = conn /\ m.to = client[conn]
  OBVIOUS
<1> HIDE DEF m
<1> QED BY <1>1, <1>2, <1>3, AppendFacts

LEMMA SendPopped ==
  ASSUME TypeInv, PopSendMessage
  PROVE  /\ sendQ \in Seq(SendMsgs) /\ Len(sendQ) \in Nat /\ Len(sendQ') = Len(sendQ) - 1
         /\ Msg = sendQ[1] /\ 1 \in 1..Len(sendQ) /\ Msg \in SendMsgs
         /\ \A i \in 1..Len(sendQ') : sendQ'[i] = sendQ[i + 1] /\ i + 1 \in 1..Len(sendQ)
<1>1. sendQ \in Seq(SendMsgs) /\ sendQ # <<>> /\ sendQ' = Tail(sendQ)
  BY DEF TypeInv, TypeOK, PopSendMessage
<1> QED BY <1>1, TailFacts DEF Msg

\* What is written to a client, message by message.
LEMMA WireWritten ==
  ASSUME TypeInv, PopSendMessage, Written
  PROVE  /\ \A s \in Sessions : Len(wire[s]) \in Nat
         /\ \A s \in Sessions : \A i \in 1..Len(wire'[s]) :
              \/ i \in 1..Len(wire[s]) /\ wire'[s][i] = wire[s][i]
              \/ /\ s = owner[Stream] /\ i = Len(wire[s]) + 1
                 /\ wire'[s][i].n = Msg.n /\ wire'[s][i].to = Msg.to
<1> DEFINE W == [n : 1..MaxSends, to : Sessions]
           r == [n |-> Msg.n, to |-> Msg.to]
           t == owner[Stream]
<1>1. r \in W
  BY MsgType DEF SendMsgs
<1>2. /\ wire \in [Sessions -> Seq(W)] /\ t \in Sessions
      /\ wire' = [wire EXCEPT ![t] = Append(wire[t], r)]
  BY DEF TypeInv, TypeOK, Written
<1>3. r.n = Msg.n /\ r.to = Msg.to
  OBVIOUS
<1> HIDE DEF W, r, t
<1>4. \A s \in Sessions : wire[s] \in Seq(W) /\ Len(wire[s]) \in Nat
  BY <1>2
<1>5. \A s \in Sessions : wire'[s] = IF s = t THEN Append(wire[s], r) ELSE wire[s]
  BY <1>2
<1>6. ASSUME NEW i \in 1..Len(wire'[t])
      PROVE  \/ i \in 1..Len(wire[t]) /\ wire'[t][i] = wire[t][i]
             \/ i = Len(wire[t]) + 1 /\ wire'[t][i] = r
  <2>1. wire'[t] = Append(wire[t], r)
    BY <1>2, <1>5
  <2> QED BY <1>1, <1>2, <1>4, <2>1, AppendFacts
<1> QED BY <1>3, <1>4, <1>5, <1>6 DEF t

\* Messages are numbered by the calls; those on their way are newer than those
\* written.
SendInv ==
  /\ \A i \in 1..Len(sendQ) : sendQ[i].n <= pushed
  /\ \A i, j \in 1..Len(sendQ) : i < j => sendQ[i].n < sendQ[j].n
  /\ \A s \in Sessions : \A i \in 1..Len(wire[s]) :
       /\ wire[s][i].n <= pushed
       /\ \A j \in 1..Len(sendQ) : wire[s][i].n < sendQ[j].n
  /\ SendsInOrder

LEMMA SendInit == Init => SendInv
  BY DEF Init, SendInv, SendsInOrder

LEMMA SendNumbers ==
  ASSUME TypeInv
  PROVE  /\ pushed \in Nat
         /\ \A i \in 1..Len(sendQ) : sendQ[i].n \in Nat
         /\ \A s \in Sessions : Len(wire[s]) \in Nat /\ \A i \in 1..Len(wire[s]) : wire[s][i].n \in Nat
<1>1. pushed \in Nat
  BY BoundsAssumption DEF TypeInv, TypeOK
<1>2. \A i \in 1..Len(sendQ) : sendQ[i].n \in Nat
  <2>1. sendQ \in Seq(SendMsgs)
    BY DEF TypeInv, TypeOK
  <2>2. \A m \in SendMsgs : m.n \in Nat
    BY BoundsAssumption DEF SendMsgs
  <2> QED BY <2>1, <2>2, ElementType
<1>3. ASSUME NEW s \in Sessions
      PROVE  Len(wire[s]) \in Nat /\ \A i \in 1..Len(wire[s]) : wire[s][i].n \in Nat
  <2> DEFINE W == [n : 1..MaxSends, to : Sessions]
  <2>1. wire[s] \in Seq(W)
    BY DEF TypeInv, TypeOK
  <2>2. \A r \in W : r.n \in Nat
    BY BoundsAssumption
  <2> HIDE DEF W
  <2> QED BY <2>1, <2>2, ElementType
<1> QED BY <1>1, <1>2, <1>3

LEMMA SendStep ==
  ASSUME TypeInv, TypeInv', SendInv, [Next]_vars
  PROVE  SendInv'
<1> USE SendNumbers
<1>1. CASE UNCHANGED <<sendQ, pushed, wire>>
  BY <1>1 DEF SendInv, SendsInOrder
<1>2. ASSUME NEW conn \in Ids, NEW buf \in SendBufs, PushSendMessage(conn, buf)
      PROVE  SendInv'
  <2>1. pushed' = pushed + 1 /\ wire' = wire
    BY <1>2 DEF PushSendMessage
  <2>0. /\ Len(sendQ) \in Nat /\ Len(sendQ') = Len(sendQ) + 1
        /\ \A i \in 1..Len(sendQ) :
             sendQ'[i] = sendQ[i] /\ sendQ[i].n \in Nat /\ sendQ[i].n <= pushed
        /\ \A i \in 1..Len(sendQ') : i \in 1..Len(sendQ) \/ i = Len(sendQ) + 1
        /\ sendQ'[Len(sendQ) + 1].n = pushed + 1
        /\ \A i, j \in 1..Len(sendQ) : i < j => sendQ[i].n < sendQ[j].n
    BY <1>2, SendPushed DEF SendInv
  <2>2. \A i \in 1..Len(sendQ') : sendQ'[i].n <= pushed'
    BY <2>0, <2>1
  <2>3. ASSUME NEW i \in 1..Len(sendQ'), NEW j \in 1..Len(sendQ'), i < j
        PROVE  sendQ'[i].n < sendQ'[j].n
    <3>1. i \in 1..Len(sendQ)
      BY <2>0, <2>3
    <3>2. CASE j \in 1..Len(sendQ)
      BY <2>0, <2>3, <3>1, <3>2
    <3>3. CASE j = Len(sendQ) + 1
      BY <2>0, <3>1, <3>3
    <3> QED BY <2>0, <3>2, <3>3
  <2>4. \A s \in Sessions : \A i \in 1..Len(wire[s]) :
          /\ wire[s][i].n <= pushed'
          /\ \A j \in 1..Len(sendQ') : wire[s][i].n < sendQ'[j].n
    <3> SUFFICES ASSUME NEW s \in Sessions, NEW i \in 1..Len(wire[s])
                 PROVE  /\ wire[s][i].n <= pushed'
                        /\ \A j \in 1..Len(sendQ') : wire[s][i].n < sendQ'[j].n
      OBVIOUS
    <3>1. /\ wire[s][i].n \in Nat /\ pushed \in Nat /\ wire[s][i].n <= pushed
          /\ \A j \in 1..Len(sendQ) : wire[s][i].n < sendQ[j].n
      BY DEF SendInv
    <3> QED BY <2>0, <2>1, <3>1
  <2> QED BY <2>1, <2>2, <2>3, <2>4 DEF SendInv, SendsInOrder
<1>3. CASE PopSendMessage /\ UNCHANGED pushed /\ UNCHANGED wire
  <2>1. \A i, j \in 1..Len(sendQ') : i < j =>
          i + 1 < j + 1 /\ sendQ'[i] = sendQ[i + 1] /\ sendQ'[j] = sendQ[j + 1]
    BY <1>3, SendPopped
  <2> QED BY <1>3, <2>1, SendPopped DEF SendInv, SendsInOrder
<1>4. CASE PopSendMessage /\ UNCHANGED pushed /\ Written
  <2>1. \A i, j \in 1..Len(sendQ') : i < j =>
          i + 1 < j + 1 /\ sendQ'[i] = sendQ[i + 1] /\ sendQ'[j] = sendQ[j + 1]
    BY <1>4, SendPopped
  <2>2. \A j \in 1..Len(sendQ') : Msg.n < sendQ'[j].n
    BY <1>4, SendPopped DEF SendInv
  <2>3. /\ \A i \in 1..Len(sendQ') : sendQ'[i].n <= pushed'
        /\ \A i, j \in 1..Len(sendQ') : i < j => sendQ'[i].n < sendQ'[j].n
    BY <1>4, <2>1, SendPopped DEF SendInv
  <2>4. ASSUME NEW s \in Sessions, NEW i \in 1..Len(wire'[s])
        PROVE  /\ wire'[s][i].n <= pushed'
               /\ \A j \in 1..Len(sendQ') : wire'[s][i].n < sendQ'[j].n
    <3>1. Msg.n <= pushed
      BY <1>4, SendPopped DEF SendInv
    <3>2. \A j \in 1..Len(sendQ'), k \in 1..Len(wire[s]) : wire[s][k].n < sendQ'[j].n
      BY <1>4, SendPopped DEF SendInv
    <3> QED BY <1>4, <2>2, <3>1, <3>2, WireWritten DEF SendInv
  <2>5. ASSUME NEW s \in Sessions, NEW i \in 1..Len(wire'[s]), NEW j \in 1..Len(wire'[s]),
               i < j
        PROVE  wire'[s][i].n < wire'[s][j].n
    <3>1. \A k \in 1..Len(wire[s]) : wire[s][k].n < Msg.n
      BY <1>4, SendPopped DEF SendInv
    <3>2. \/ j \in 1..Len(wire[s]) /\ wire'[s][j] = wire[s][j]
          \/ j = Len(wire[s]) + 1 /\ wire'[s][j].n = Msg.n
      BY <1>4, WireWritten
    <3>3. i \in 1..Len(wire[s]) /\ wire'[s][i] = wire[s][i]
      <4>1. i \in Nat /\ j \in Nat /\ i <= Len(wire[s])
        BY <2>5, <3>2
      <4> QED BY <1>4, <4>1, WireWritten
    <3> QED BY <2>5, <3>1, <3>2, <3>3 DEF SendInv, SendsInOrder
  <2> QED BY <2>3, <2>4, <2>5 DEF SendInv, SendsInOrder
<1> QED BY <1>1, <1>2, <1>3, <1>4, SendSteps

\* What timer_cb writes to one client keeps the order of the calls of
\* PushSendMessage, whatever the logic thread sends and whoever gets an id.
THEOREM WritesKeepOrder == Spec => []SendsInOrder
<1>1. TypeInv /\ SendInv /\ [Next]_vars => SendInv'
  BY TypeStep, SendStep
<1>2. SendInv => SendsInOrder
  BY DEF SendInv
<1> QED BY <1>1, <1>2, SendInit, TypeAlways, PTL DEF Spec

-----------------------------------------------------------------------------
(* New ids.                                                                *)

\* GetConnectionID counts up only when every id issued is online, whatever
\* the logic thread sends.
THEOREM IdsFollowClients == Spec => IdsGrowOnlyWhenAllOnline
<1>1. ASSUME TypeInv, IdsAccounted, [Next]_vars, maxId' > maxId, NEW c \in 1..maxId
      PROVE  onlineID[c] # NoHandle
  <2>1. maxId \in 0..MaxConn /\ MaxConn \in Nat
    BY <1>1, BoundsAssumption DEF TypeInv, TypeOK
  <2>2. CASE UNCHANGED table
    BY <1>1, <2>1, <2>2 DEF table
  <2>3. ASSUME NEW s \in Sessions, NEW h \in Handles, OnConnection(s, h)
        PROVE  onlineID[c] # NoHandle
    <3>1. freeIds = <<>>
      BY <1>1, <2>1, <2>3 DEF OnConnection, GetConnectionID, TakeReleasedID
    <3>2. c \in Ids /\ c <= maxId
      BY <2>1 DEF Ids
    <3> QED BY <1>1, <3>1, <3>2 DEF IdsAccounted
  <2>4. ASSUME NEW h \in Handles, AfterReadEnd(h)
        PROVE  onlineID[c] # NoHandle
    BY <1>1, <2>1, <2>4 DEF AfterReadEnd, Disconnect, ReleaseConnection
  <2> QED BY <1>1, <2>2, <2>3, <2>4, TableSteps
<1>2. TypeInv /\ IdsAccounted /\ [Next]_vars
      => [maxId' > maxId => \A c \in 1..maxId : onlineID[c] # NoHandle]_vars
  BY <1>1
<1> QED BY <1>2, TypeAlways, NoIdLost, PTL DEF Spec, IdsGrowOnlyWhenAllOnline

-----------------------------------------------------------------------------
(* Clients that have left, and messages that go astray.                    *)

\* A client's end is final, and a connected one stays so until it ends.
LEMMA PeerSteps ==
  ASSUME TypeInv, [Next]_vars, NEW s \in Sessions
  PROVE  /\ peer[s] \in PeerEnds => peer'[s] = peer[s] /\ sent'[s] = sent[s]
         /\ peer[s] # "idle" => peer'[s] # "idle"
<1>1. CASE UNCHANGED clients
  BY <1>1 DEF clients
<1>2. CASE Clients
  BY <1>2 DEF Clients, Connect, PeerSend, PeerEnd, PeerEnds, TypeInv, TypeOK
<1>3. CASE Network \/ Logic
  BY <1>1, <1>3 DEF Network, StartFail, StartListen, StartLoad, StartStore, OnConnection,
     OnConnectionFail, AfterRead, AfterReadEnd, AfterShutdown, OnClose, TimerSend, TickIdle,
     TickDrop, TickShutdown, TickWrite, TickCrash, TimerRearm, LoopExit,
     Logic, GetRecvMessage, PushSendMessage, Close, Join
<1> QED BY <1>1, <1>2, <1>3 DEF Next, vars, clients

\* A stream that is read carries the client it did before, or a new one.
LEMMA StreamSteps ==
  ASSUME NoNull, TableInv, [Next]_vars
  PROVE  /\ accepted \subseteq accepted'
         /\ \A s \in accepted' : s \in accepted \/ peer[s] # "idle"
         /\ \A h \in Handles : handle'[h] = "open" =>
              \/ /\ handle[h] = "open" /\ owner'[h] = owner[h]
                 /\ onlineStream'[h] = onlineStream[h]
              \/ owner'[h] \notin accepted /\ recvQ' = recvQ /\ client' = client
<1> USE DEF TableInv, TypeInv, TypeOK
<1>1. CASE UNCHANGED <<streams, table>>
  BY <1>1 DEF streams, table
<1>2. ASSUME NEW s \in Sessions, NEW h \in Handles, OnConnection(s, h) \/ OnConnectionFail(s, h)
      PROVE  /\ accepted \subseteq accepted'
             /\ \A z \in accepted' : z \in accepted \/ peer[z] # "idle"
             /\ \A g \in Handles : handle'[g] = "open" =>
                  \/ /\ handle[g] = "open" /\ owner'[g] = owner[g]
                     /\ onlineStream'[g] = onlineStream[g]
                  \/ owner'[g] \notin accepted /\ recvQ' = recvQ /\ client' = client
  <2>1. CASE OnConnection(s, h)
    <3>1. PICK conn \in Ids : onlineStream' = [onlineStream EXCEPT ![h] = conn]
      BY <2>1 DEF OnConnection, AddConnection
    <3> QED BY <2>1, <3>1 DEF OnConnection, history
  <2>2. CASE OnConnectionFail(s, h)
    BY <2>2 DEF OnConnectionFail, table
  <2> QED BY <1>2, <2>1, <2>2
<1>3. ASSUME NEW h \in Handles, AfterRead(h) \/ AfterReadEnd(h) \/ AfterShutdown(h) \/ OnClose(h)
      PROVE  /\ accepted' = accepted
             /\ \A g \in Handles : handle'[g] = "open" =>
                  /\ handle[g] = "open" /\ owner'[g] = owner[g]
                  /\ onlineStream'[g] = onlineStream[g]
  <2>1. CASE AfterReadEnd(h)
    BY <2>1 DEF AfterReadEnd, Disconnect, ReleaseConnection
  <2>2. CASE AfterRead(h) \/ AfterShutdown(h) \/ OnClose(h)
    BY <2>2 DEF AfterRead, AfterShutdown, OnClose, streams, table
  <2> QED BY <1>3, <2>1, <2>2
<1>4. CASE GetRecvMessage
  BY <1>1, <1>4 DEF GetRecvMessage
<1> QED BY <1>1, <1>2, <1>3, <1>4, RelevantSteps

LEMMA LeftKept ==
  ASSUME NoNull, TableInv, [Next]_vars, NEW s \in Sessions, Left(s)
  PROVE  Left(s)'
BY StreamSteps, PeerSteps DEF Left, TableInv

\* An id is taken from its holder at its end only.
LEMMA ReachesKept ==
  ASSUME NoNull, TableInv, [Next]_vars, NEW c \in Ids, NEW s \in Sessions, Reaches(c, s)
  PROVE  Reaches(c, s)'
<1>1. CASE Left(s)
  BY <1>1, LeftKept DEF Reaches
<1>2. CASE Holds(c, s)
  <2>1. CASE UNCHANGED <<owner, onlineID>>
    BY <1>2, <2>1 DEF Holds, Reaches
  <2>2. ASSUME NEW h \in Handles, AfterReadEnd(h) PROVE Reaches(c, s)'
    <3>1. /\ handle[h] = "open" /\ owner' = owner /\ ReleaseConnection(h)
          /\ peer[owner[h]] \in PeerEnds /\ peer' = peer /\ accepted' = accepted
          /\ handle' = [handle EXCEPT ![h] = "done"]
      BY <2>2 DEF AfterReadEnd, Disconnect, clients
    <3>2. onlineID' = [onlineID EXCEPT ![onlineStream[h]] = NoHandle]
          /\ onlineID[onlineStream[h]] = h
      BY <3>1, ReleaseEffect DEF TableInv, StreamsOK
    <3>3. CASE onlineID[c] = h
      <4>1. /\ s = owner[h] /\ s \in accepted
            /\ \A g \in Handles : owner[g] = s /\ handle[g] = "open" => g = h
        BY <1>2, <3>1, <3>3 DEF Holds, TableInv, StreamsOK
      <4>2. handle'[h] = "done" /\ \A g \in Handles : g # h => handle'[g] = handle[g]
        BY <3>1 DEF TableInv, TypeInv, TypeOK
      <4> QED BY <3>1, <4>1, <4>2 DEF Reaches, Left
    <3>4. CASE onlineID[c] # h
      <4>1. onlineID'[c] = onlineID[c]
        BY <3>2, <3>4 DEF TableInv, TypeInv, TypeOK
      <4> QED BY <1>2, <3>1, <4>1 DEF Holds, Reaches
    <3> QED BY <3>3, <3>4
  <2>3. ASSUME NEW h \in Handles, AfterRead(h) PROVE Reaches(c, s)'
    BY <2>1, <2>3 DEF AfterRead, streams, table
  <2>4. CASE GetRecvMessage
    BY <2>1, <2>4 DEF GetRecvMessage, streams, table
  <2> QED BY <1>2, <2>2, <2>3, <2>4, RelevantSteps, HoldsKept DEF Reaches, TableInv
<1> QED BY <1>1, <1>2 DEF Reaches

\* What is queued for the logic thread is of the holder of the id.
LEMMA RecvPushed ==
  ASSUME TableInv, NEW h \in Handles, AfterRead(h) \/ AfterReadEnd(h)
  PROVE  LET k == Len(recvQ) + 1 IN
         /\ Len(recvQ) \in Nat /\ Len(recvQ') = k
         /\ \A i \in 1..Len(recvQ) : recvQ'[i] = recvQ[i]
         /\ \A i \in 1..Len(recvQ') : i \in 1..Len(recvQ) \/ i = k
         /\ recvQ'[k].conn = onlineStream[h] /\ recvQ'[k].from = owner[h]
         /\ recvQ'[k].buf = IF AfterRead(h) THEN got[owner[h]] + 1 ELSE 0
         /\ onlineStream[h] \in Ids /\ owner[h] \in Sessions
         /\ Holds(onlineStream[h], owner[h]) /\ handle[h] = "open"
<1> DEFINE buf == IF AfterRead(h) THEN got[owner[h]] + 1 ELSE 0
           m == RecvMsg(h, buf)
<1>1. handle[h] = "open" /\ onlineStream[h] # 0
  BY DEF AfterRead, AfterReadEnd, TableInv, StreamsOK
<1>2. owner[h] \in Sessions /\ onlineStream[h] \in Ids
  BY <1>1 DEF TableInv, TypeInv, HandlesOK
<1>3. Holds(onlineStream[h], owner[h])
  BY <1>1, NoHandleAssumption DEF TableInv, TablesAgree, Holds
<1>4. recvQ' = Append(recvQ, m)
  <2>1. CASE AfterRead(h)
    BY <2>1 DEF AfterRead, PushRecvMessage
  <2>2. CASE ~AfterRead(h)
    BY <2>2 DEF AfterReadEnd, Disconnect, PushRecvMessage
  <2> QED BY <2>1, <2>2
<1>5. m \in RecvMsgs /\ recvQ \in Seq(RecvMsgs)
  <2>1. buf \in 0..MaxChunks
    <3>1. CASE AfterRead(h)
      <4>1. got[owner[h]] < sent[owner[h]]
        BY <3>1 DEF AfterRead
      <4>2. got[owner[h]] \in 0..MaxChunks /\ sent[owner[h]] \in 0..MaxChunks
        BY <1>2 DEF TableInv, TypeInv, TypeOK
      <4> QED BY <3>1, <4>1, <4>2, BoundsAssumption
    <3>2. CASE ~AfterRead(h)
      BY <3>2, BoundsAssumption
    <3> QED BY <3>1, <3>2
  <2> HIDE DEF buf
  <2> QED BY <1>1, <2>1, RecvMsgType DEF TableInv, TypeInv, TypeOK
<1>6. m.conn = onlineStream[h] /\ m.from = owner[h] /\ m.buf = buf
  BY DEF RecvMsg
<1> HIDE DEF m
<1> QED BY <1>1, <1>2, <1>3, <1>4, <1>5, <1>6, AppendFacts

LEMMA RecvPopped ==
  ASSUME TableInv, GetRecvMessage
  PROVE  LET m == recvQ[1] IN
         /\ Len(recvQ) \in Nat /\ Len(recvQ') = Len(recvQ) - 1 /\ 1 \in 1..Len(recvQ)
         /\ \A i \in 1..Len(recvQ') : recvQ'[i] = recvQ[i + 1] /\ i + 1 \in 1..Len(recvQ)
         /\ \A i \in 1..Len(recvQ) : i = 1 \/ (i - 1 \in 1..Len(recvQ') /\ recvQ'[i - 1] = recvQ[i])
         /\ m.conn \in Ids /\ m.from \in Sessions /\ m.buf \in 0..MaxChunks
         /\ m.from # NoSession /\ NoSession \notin Sessions
         /\ UNCHANGED <<clients, got, streams, table, sendQ, pushed, wire>>
         /\ \A c \in Ids : client'[c] = IF c # m.conn THEN client[c]
                                        ELSE IF m.buf = 0 THEN NoSession ELSE m.from
         /\ \A s \in Sessions : heard'[s] = IF s = m.from /\ m.buf # 0 THEN m.buf ELSE heard[s]
         /\ told' = IF m.buf = 0 THEN told \cup {m.from} ELSE told
<1>1. recvQ \in Seq(RecvMsgs) /\ recvQ # <<>> /\ recvQ' = Tail(recvQ)
  BY DEF TableInv, TypeInv, TypeOK, GetRecvMessage
<1>2. Head(recvQ) = recvQ[1] /\ 1 \in 1..Len(recvQ)
  BY <1>1, TailFacts
<1> DEFINE m == recvQ[1]
<1>3. m.conn \in Ids /\ m.from \in Sessions /\ m.buf \in 0..MaxChunks
  BY <1>2, QueueTypes
<1>4. m.from # NoSession /\ NoSession \notin Sessions
  BY <1>3, NoSessionAssumption
<1>5. /\ UNCHANGED <<clients, got, streams, table, sendQ, pushed, wire>>
      /\ IF m.buf = 0
         THEN /\ client' = [client EXCEPT ![m.conn] = NoSession]
              /\ told' = told \cup {m.from} /\ heard' = heard
         ELSE /\ client' = [client EXCEPT ![m.conn] = m.from]
              /\ heard' = [heard EXCEPT ![m.from] = m.buf] /\ told' = told
  BY <1>2 DEF GetRecvMessage
<1>6. client \in [Ids -> Sessions \cup {NoSession}] /\ heard \in [Sessions -> 0..MaxChunks]
  BY DEF TableInv, TypeInv, TypeOK
<1>7. \A c \in Ids : client'[c] = IF c # m.conn THEN client[c]
                                  ELSE IF m.buf = 0 THEN NoSession ELSE m.from
  BY <1>3, <1>5, <1>6
<1>8. \A s \in Sessions : heard'[s] = IF s = m.from /\ m.buf # 0 THEN m.buf ELSE heard[s]
  BY <1>3, <1>5, <1>6
<1>9. told' = IF m.buf = 0 THEN told \cup {m.from} ELSE told
  BY <1>5
<1> HIDE DEF m
<1>10. /\ Len(recvQ) \in Nat /\ Len(recvQ') = Len(recvQ) - 1
       /\ \A i \in 1..Len(recvQ') : recvQ'[i] = recvQ[i + 1] /\ i + 1 \in 1..Len(recvQ)
       /\ \A i \in 1..Len(recvQ) : i = 1 \/ (i - 1 \in 1..Len(recvQ') /\ recvQ'[i - 1] = recvQ[i])
  BY <1>1, TailFacts
<1> QED BY <1>2, <1>3, <1>4, <1>5, <1>7, <1>8, <1>9, <1>10 DEF m

\* The receive queue, and what the logic thread knows, in a step.
LEMMA RecvSteps ==
  ASSUME NoNull, TableInv, [Next]_vars
  PROVE  \/ UNCHANGED <<recvQ, client, heard, told>>
         \/ \E h \in Handles : AfterRead(h) \/ AfterReadEnd(h)
         \/ GetRecvMessage
<1>1. CASE Clients
  BY <1>1 DEF Clients, Connect, PeerSend, PeerEnd, history
<1>2. CASE Network
  BY <1>2 DEF Network, StartFail, StartListen, StartLoad, StartStore, OnConnection,
     OnConnectionFail, AfterShutdown, OnClose, TimerSend, TickIdle,
     TickDrop, TickShutdown, TickWrite, TickCrash, TimerRearm, LoopExit, history
<1>3. CASE Logic
  BY <1>3 DEF Logic, PushSendMessage, Close, Join, history
<1> QED BY <1>1, <1>2, <1>3 DEF Next, vars

LEMMA ReachStep ==
  ASSUME NoNull, TableInv, TypeInv', ReachInv, [Next]_vars
  PROVE  ReachInv'
<1> USE ReachesKept, LeftKept
<1>1. ASSUME NEW i \in 1..Len(recvQ'), NEW c \in Ids, NEW s \in Sessions,
             c = recvQ'[i].conn, s = recvQ'[i].from
      PROVE  Reaches(c, s)'
  <2>1. ASSUME NEW k \in 1..Len(recvQ), recvQ'[i] = recvQ[k]
        PROVE  Reaches(c, s)'
    <3>1. Reaches(c, s)
      BY <1>1, <2>1 DEF ReachInv
    <3> QED BY <3>1
  <2>2. CASE UNCHANGED recvQ
    BY <1>1, <2>1, <2>2
  <2>3. ASSUME NEW h \in Handles, AfterRead(h) \/ AfterReadEnd(h)
        PROVE  Reaches(c, s)'
    <3>1. CASE i \in 1..Len(recvQ)
      BY <2>1, <2>3, <3>1, RecvPushed
    <3>2. CASE i = Len(recvQ) + 1
      <4>1. c = onlineStream[h] /\ s = owner[h]
        BY <1>1, <2>3, <3>2, RecvPushed
      <4>2. Holds(c, s)
        BY <2>3, <4>1, RecvPushed
      <4> QED BY <4>2 DEF Reaches
    <3> QED BY <1>1, <2>3, <3>1, <3>2, RecvPushed
  <2>4. CASE GetRecvMessage
    BY <1>1, <2>1, <2>4, RecvPopped
  <2> QED BY <2>2, <2>3, <2>4, RecvSteps
<1>2. ASSUME NEW c \in Ids, NEW s \in Sessions, client'[c] = s
      PROVE  Reaches(c, s)'
  <2>1. s # NoSession
    BY NoSessionAssumption
  <2>2. CASE client[c] = s
    <3>1. Reaches(c, s)
      BY <2>1, <2>2 DEF ReachInv
    <3> QED BY <3>1
  <2>3. CASE GetRecvMessage /\ client[c] # s
    <3>1. c = recvQ[1].conn /\ s = recvQ[1].from /\ 1 \in 1..Len(recvQ)
      BY <1>2, <2>1, <2>3, RecvPopped
    <3>2. Reaches(c, s)
      BY <3>1 DEF ReachInv
    <3> QED BY <3>2
  <2> QED BY <1>2, <2>2, <2>3, RecvSteps DEF AfterRead, AfterReadEnd, history
<1>3. TypeInv
  BY DEF TableInv
<1>4. ASSUME NEW i \in 1..Len(sendQ'), NEW c \in Ids, NEW s \in Sessions,
             c = sendQ'[i].conn, s = sendQ'[i].to
      PROVE  Reaches(c, s)'
  <2>1. ASSUME NEW k \in 1..Len(sendQ), sendQ'[i] = sendQ[k]
        PROVE  Reaches(c, s)'
    <3>1. Reaches(c, s)
      BY <1>4, <2>1 DEF ReachInv
    <3> QED BY <3>1
  <2>2. ASSUME NEW conn \in Ids, NEW buf \in SendBufs, PushSendMessage(conn, buf)
        PROVE  Reaches(c, s)'
    <3>1. CASE i \in 1..Len(sendQ)
      BY <1>3, <2>1, <2>2, <3>1, SendPushed
    <3>2. CASE i = Len(sendQ) + 1
      <4>1. c = conn /\ s = client[c] /\ s # NoSession
        BY <1>3, <1>4, <2>2, <3>2, SendPushed, NoSessionAssumption
      <4>2. Reaches(c, s)
        BY <4>1 DEF ReachInv
      <4> QED BY <4>2
    <3> QED BY <1>3, <1>4, <2>2, <3>1, <3>2, SendPushed
  <2>3. CASE PopSendMessage
    BY <1>3, <1>4, <2>1, <2>3, SendPopped
  <2> QED BY <1>3, <1>4, <2>1, <2>2, <2>3, SendSteps
<1>5. ASSUME NEW z \in Sessions, NEW i \in 1..Len(wire'[z]), NEW s \in Sessions,
             s = wire'[z][i].to, s # z
      PROVE  Left(s)'
  <2>1. CASE i \in 1..Len(wire[z]) /\ wire'[z][i] = wire[z][i]
    <3>1. Left(s)
      BY <1>5, <2>1 DEF ReachInv
    <3> QED BY <3>1
  <2>2. CASE PopSendMessage /\ Written
    <3>1. CASE z = owner[Stream] /\ s = Msg.to
      <4>1. Msg.conn \in Ids /\ Reaches(Msg.conn, s)
        BY <1>3, <2>2, <3>1, SendPopped DEF ReachInv, SendMsgs
      <4>2. ~Holds(Msg.conn, s)
        BY <1>5, <3>1 DEF Holds, Stream
      <4>3. Left(s)
        BY <4>1, <4>2 DEF Reaches
      <4> QED BY <4>3
    <3> QED BY <1>3, <1>5, <2>1, <2>2, <3>1, WireWritten
  <2> QED BY <1>3, <1>5, <2>1, <2>2, SendSteps DEF PushSendMessage
<1>6. \A i \in 1..Len(recvQ') : recvQ'[i].conn \in Ids /\ recvQ'[i].from \in Sessions
  <2>1. recvQ' \in Seq(RecvMsgs)
    BY DEF TypeInv, TypeOK
  <2>2. \A i \in 1..Len(recvQ') : recvQ'[i] \in RecvMsgs
    BY <2>1, ElementType
  <2> QED BY <2>2 DEF RecvMsgs
<1>7. \A i \in 1..Len(sendQ') : sendQ'[i].conn \in Ids /\ sendQ'[i].to \in Sessions
  <2>1. sendQ' \in Seq(SendMsgs)
    BY DEF TypeInv, TypeOK
  <2>2. \A i \in 1..Len(sendQ') : sendQ'[i] \in SendMsgs
    BY <2>1, ElementType
  <2> QED BY <2>2 DEF SendMsgs
<1>8. ASSUME NEW z \in Sessions, NEW i \in 1..Len(wire'[z])
      PROVE  wire'[z][i].to \in Sessions
  <2> DEFINE W == [n : 1..MaxSends, to : Sessions]
  <2>1. wire'[z] \in Seq(W)
    BY DEF TypeInv, TypeOK
  <2>2. \A r \in W : r.to \in Sessions
    OBVIOUS
  <2> HIDE DEF W
  <2> QED BY <2>1, <2>2, ElementType
<1>9. \A c \in Ids : client'[c] # NoSession => client'[c] \in Sessions
  BY DEF TypeInv, TypeOK
<1> QED BY <1>1, <1>2, <1>4, <1>5, <1>6, <1>7, <1>8, <1>9 DEF ReachInv, Reaches, Left, Holds

LEMMA ReachInit == Init => ReachInv
  BY DEF Init, ReachInv

LEMMA ReachAlways == NoNull => (Spec => [](TableInv /\ QueueInv /\ ReachInv))
<1> SUFFICES ASSUME NoNull PROVE Spec => [](TableInv /\ QueueInv /\ ReachInv)
  OBVIOUS
<1>1. TableInv /\ QueueInv /\ ReachInv /\ [Next]_vars => ReachInv'
  BY TypeStep, ReachStep DEF TableInv
<1> QED BY <1>1, ReachInit, QueueAlways, PTL DEF Spec

\* As long as the logic thread sends no null buffer, a message reaches another
\* client than the one it was meant for only when the stream of that one is
\* out of use (an id is released before what is queued for it is written).
THEOREM StrayMeansEnded == NoNull => (Spec => []StrayOnlyAfterEnd)
<1> SUFFICES ASSUME NoNull PROVE Spec => []StrayOnlyAfterEnd
  OBVIOUS
<1>1. ReachInv => StrayOnlyAfterEnd
  BY DEF ReachInv, Left, StrayOnlyAfterEnd
<1> QED BY <1>1, ReachAlways, PTL

-----------------------------------------------------------------------------
(* What the logic thread hears of a client.                                *)

LEMMA PeerStep ==
  ASSUME NoNull, TableInv, PeerOK, [Next]_vars
  PROVE  PeerOK'
<1>1. accepted' \subseteq Sessions
  BY TypeStep DEF TableInv, TypeInv, TypeOK
<1> QED BY <1>1, StreamSteps, PeerSteps DEF PeerOK, TableInv

\* Only a chunk read from a stream counts as got; a client sends no less.
LEMMA ChunkSteps ==
  ASSUME TypeInv, [Next]_vars
  PROVE  /\ \A s \in Sessions : sent[s] <= sent'[s]
         /\ \A s \in Sessions : got'[s] # got[s] =>
              \E h \in Handles : AfterRead(h) /\ s = owner[h]
<1> USE DEF TypeInv, TypeOK
<1>1. CASE UNCHANGED <<sent, got>>
  BY <1>1, BoundsAssumption
<1>2. ASSUME NEW h \in Handles, AfterRead(h)
      PROVE  /\ \A s \in Sessions : sent[s] <= sent'[s]
             /\ \A s \in Sessions : got'[s] # got[s] => s = owner[h]
  BY <1>2, BoundsAssumption DEF AfterRead, clients
<1>3. CASE Clients
  <2>1. got' = got
    BY <1>3 DEF Clients, Connect, PeerSend, PeerEnd
  <2>2. \A s \in Sessions : sent[s] <= sent'[s]
    <3>1. PICK z \in Sessions :
            sent' = sent \/ sent' = [sent EXCEPT ![z] = sent[z] + 1]
      BY <1>3 DEF Clients, Connect, PeerSend, PeerEnd
    <3>2. \A s \in Sessions : sent[s] \in Nat
      BY BoundsAssumption
    <3>3. \A s \in Sessions : sent'[s] = sent[s] \/ sent'[s] = sent[s] + 1
      BY <3>1
    <3> HIDE DEF TypeInv, TypeOK
    <3>4. \A k \in Nat : k <= k /\ k <= k + 1
      OBVIOUS
    <3> QED BY <3>2, <3>3, <3>4
  <2> QED BY <2>1, <2>2
<1>4. CASE (Network /\ \A h \in Handles : ~AfterRead(h)) \/ Logic
  BY <1>1, <1>4 DEF Network, StartFail, StartListen, StartLoad, StartStore, OnConnection,
     OnConnectionFail, AfterReadEnd, AfterShutdown, OnClose, TimerSend, TickIdle,
     TickDrop, TickShutdown, TickWrite, TickCrash, TimerRearm, LoopExit,
     Logic, GetRecvMessage, PushSendMessage, Close, Join, clients
<1> QED BY <1>1, <1>2, <1>3, <1>4 DEF Next, vars

\* The end of a client stays its end.
LEMMA EndedKept ==
  ASSUME TypeInv, [Next]_vars, NEW s \in Sessions, Ended(s)
  PROVE  Ended(s)'
<1>1. peer[s] \in PeerEnds /\ peer'[s] = peer[s] /\ sent'[s] = sent[s]
  BY PeerSteps DEF Ended
<1>2. CASE got'[s] = got[s]
  BY <1>1, <1>2 DEF Ended
<1>3. ASSUME NEW h \in Handles, AfterRead(h), s = owner[h]
      PROVE  peer[s] # "eof"
  <2>1. got[s] < sent[s] /\ got[s] \in 0..MaxChunks /\ sent[s] \in 0..MaxChunks
    BY <1>3 DEF AfterRead, TypeInv, TypeOK
  <2>2. got[s] # sent[s]
    BY <2>1, BoundsAssumption
  <2> QED BY <2>2 DEF Ended
<1> QED BY <1>1, <1>2, <1>3, ChunkSteps DEF Ended

LEMMA EndStep ==
  ASSUME NoNull, TableInv, TypeInv', ChunkInv, EndInv, [Next]_vars
  PROVE  EndInv'
<1>1. TypeInv
  BY DEF TableInv
<1> USE EndedKept
<1>2. ASSUME NEW i \in 1..Len(recvQ'), NEW s \in Sessions, s = recvQ'[i].from
      PROVE  (recvQ'[i].buf = 0 => Ended(s)') /\ s \notin told'
  <2>1. ASSUME NEW k \in 1..Len(recvQ), recvQ'[i] = recvQ[k]
        PROVE  (recvQ'[i].buf = 0 => Ended(s)') /\ s \notin told
    BY <1>1, <1>2, <2>1 DEF EndInv
  <2>2. CASE UNCHANGED <<recvQ, told>>
    BY <1>2, <2>1, <2>2
  <2>3. ASSUME NEW h \in Handles, AfterRead(h) \/ AfterReadEnd(h)
        PROVE  (recvQ'[i].buf = 0 => Ended(s)') /\ s \notin told'
    <3>1. told' = told
      BY <2>3 DEF AfterRead, AfterReadEnd, history
    <3>2. CASE i \in 1..Len(recvQ)
      BY <2>1, <2>3, <3>1, <3>2, RecvPushed
    <3>3. CASE i = Len(recvQ) + 1
      <4>1. s = owner[h] /\ handle[h] = "open" /\ s \notin told
        BY <1>2, <2>3, <3>3, RecvPushed DEF TableInv, GoneOK
      <4>2. CASE AfterReadEnd(h)
        BY <1>1, <3>1, <4>1, <4>2 DEF AfterReadEnd, Ended
      <4>3. CASE AfterRead(h)
        <5>1. recvQ'[i].buf = got[s] + 1
          BY <2>3, <3>3, <4>1, <4>3, RecvPushed
        <5>2. got[s] \in 0..MaxChunks
          BY <1>1 DEF TypeInv, TypeOK
        <5>3. recvQ'[i].buf # 0
          BY <5>1, <5>2, BoundsAssumption
        <5> QED BY <3>1, <4>1, <5>3
      <4> QED BY <2>3, <4>2, <4>3
    <3> QED BY <1>2, <2>3, <3>2, <3>3, RecvPushed
  <2>4. CASE GetRecvMessage
    <3>1. /\ recvQ'[i] = recvQ[i + 1] /\ i + 1 \in 1..Len(recvQ)
          /\ 1 \in 1..Len(recvQ) /\ 1 < i + 1
          /\ told' = IF recvQ[1].buf = 0 THEN told \cup {recvQ[1].from} ELSE told
      BY <1>2, <2>4, RecvPopped
    <3>2. recvQ[1].buf = 0 => recvQ[1].from # s
      BY <1>2, <3>1 DEF ChunkInv
    <3> QED BY <2>1, <3>1, <3>2
  <2> QED BY <2>2, <2>3, <2>4, RecvSteps
<1>3. \A i \in 1..Len(recvQ') : recvQ'[i].from \in Sessions
  <2>1. recvQ' \in Seq(RecvMsgs)
    BY DEF TypeInv, TypeOK
  <2>2. \A i \in 1..Len(recvQ') : recvQ'[i] \in RecvMsgs
    BY <2>1, ElementType
  <2> QED BY <2>2 DEF RecvMsgs
<1> QED BY <1>2, <1>3 DEF EndInv, Ended

LEMMA Counts ==
  ASSUME TypeInv
  PROVE  \A s \in Sessions : sent[s] \in Nat /\ got[s] \in Nat /\ heard[s] \in Nat
BY BoundsAssumption DEF TypeInv, TypeOK

\* The parts of ChunkInv after a step, from those before: the queue loses its
\* first element, gains one, or stays.
LEMMA ChunkStay ==
  ASSUME TableInv, ChunkInv, [Next]_vars, UNCHANGED <<recvQ, heard, got>>
  PROVE  ChunkInv'
<1>1. \A s \in Sessions : sent[s] <= sent'[s] /\ sent'[s] \in Nat /\ sent[s] \in Nat /\ got[s] \in Nat
  <2>1. TypeInv'
    BY TypeStep DEF TableInv
  <2>2. \A s \in Sessions : sent'[s] \in Nat
    BY <2>1, BoundsAssumption DEF TypeInv, TypeOK
  <2> QED BY <2>2, ChunkSteps, Counts DEF TableInv
<1>2. \A s \in Sessions : got[s] <= sent'[s]
  BY <1>1 DEF ChunkInv
<1> QED BY <1>2 DEF ChunkInv

LEMMA ChunkPush ==
  ASSUME TableInv, TypeInv', ChunkInv, NEW h \in Handles, AfterRead(h)
  PROVE  ChunkInv'
<1> PICK q, n, p, z, b : q = recvQ' /\ n = Len(recvQ) /\ p = recvQ /\ z = owner[h] /\ b = got[z] + 1
  OBVIOUS
<1>1. /\ n \in Nat /\ Len(q) = n + 1 /\ \A i \in 1..n : q[i] = p[i]
      /\ \A i \in 1..Len(q) : i \in 1..n \/ i = n + 1
      /\ q[n + 1].from = z /\ q[n + 1].buf = b
      /\ z \in Sessions /\ handle[h] = "open"
  BY RecvPushed
<1>2. /\ heard' = heard /\ sent' = sent /\ got' = [got EXCEPT ![z] = b] /\ got[z] < sent[z]
  BY DEF AfterRead, history, clients
<1>3. /\ \A s \in Sessions : got[s] \in Nat /\ heard[s] \in Nat /\ sent[s] \in Nat
      /\ \A s \in Sessions : got'[s] = IF s = z THEN b ELSE got[s]
      /\ got[z] \in Nat
  BY <1>1, <1>2, Counts DEF TableInv, TypeInv, TypeOK
<1>4. \A i \in 1..n : p[i].from \in Sessions /\ p[i].buf \in Nat
  BY QueueTypes, BoundsAssumption
<1>5. \A i \in 1..n : p[i].from = z => p[i].buf # 0
  BY <1>1 DEF TableInv, GoneOK
<1>6. /\ \A s \in Sessions : heard[s] <= got[s] /\ got[s] <= sent[s]
      /\ \A i, j \in 1..n : i < j /\ p[i].from = p[j].from =>
           p[i].buf # 0 /\ (p[j].buf # 0 => p[i].buf < p[j].buf)
      /\ \A i \in 1..n : p[i].buf # 0 => heard[p[i].from] < p[i].buf /\ p[i].buf <= got[p[i].from]
      /\ \A s \in Sessions, m \in 1..MaxChunks : heard[s] < m /\ m <= got[s] =>
           \E i \in 1..n : p[i].from = s /\ p[i].buf = m
  BY DEF ChunkInv
<1>7. ASSUME NEW s \in Sessions
      PROVE  heard'[s] <= got'[s] /\ got'[s] <= sent'[s]
  BY <1>2, <1>3, <1>6
<1>8. ASSUME NEW i \in 1..Len(q), NEW j \in 1..Len(q), i < j, q[i].from = q[j].from
      PROVE  q[i].buf # 0 /\ (q[j].buf # 0 => q[i].buf < q[j].buf)
  <2>1. i \in 1..n /\ q[i] = p[i]
    <3>1. i \in Nat /\ j \in Nat /\ i >= 1 /\ j <= n + 1
      BY <1>1, <1>8
    <3> QED BY <1>1, <1>8, <3>1
  <2>2. CASE j \in 1..n
    BY <1>1, <1>6, <1>8, <2>1, <2>2
  <2>3. CASE j = n + 1
    <3>1. p[i].from = z /\ p[i].buf # 0
      BY <1>1, <1>5, <1>8, <2>1, <2>3
    <3>2. p[i].buf <= got[z]
      BY <1>6, <2>1, <3>1
    <3> QED BY <1>1, <1>3, <1>4, <2>1, <2>3, <3>1, <3>2
  <2> QED BY <1>1, <2>2, <2>3
<1>9. ASSUME NEW i \in 1..Len(q), q[i].buf # 0
      PROVE  heard'[q[i].from] < q[i].buf /\ q[i].buf <= got'[q[i].from]
  <2>1. CASE i \in 1..n
    <3>1. q[i] = p[i] /\ p[i].from \in Sessions /\ p[i].buf \in Nat
      BY <1>1, <1>4, <2>1
    <3>2. heard[p[i].from] < p[i].buf /\ p[i].buf <= got[p[i].from]
      BY <1>6, <1>9, <2>1, <3>1
    <3> QED BY <1>2, <1>3, <3>1, <3>2
  <2>2. CASE i = n + 1
    BY <1>1, <1>2, <1>3, <1>6, <2>2
  <2> QED BY <1>1, <2>1, <2>2
<1>10. ASSUME NEW s \in Sessions, NEW m \in 1..MaxChunks, heard'[s] < m, m <= got'[s]
       PROVE  \E i \in 1..Len(q) : q[i].from = s /\ q[i].buf = m
  <2>1. m \in Nat /\ heard[s] < m
    BY <1>2, <1>10, BoundsAssumption
  <2>2. CASE m <= got[s]
    <3>1. PICK i \in 1..n : p[i].from = s /\ p[i].buf = m
      BY <1>6, <2>1, <2>2
    <3>2. i \in 1..Len(q)
      BY <1>1
    <3> QED BY <1>1, <3>1, <3>2
  <2>3. CASE ~(m <= got[s])
    <3>1. s = z /\ m = b
      BY <1>3, <1>10, <2>1, <2>3
    <3>2. n + 1 \in 1..Len(q)
      BY <1>1
    <3> QED BY <1>1, <3>1, <3>2
  <2> QED BY <2>2, <2>3
<1> QED BY <1>7, <1>8, <1>9, <1>10 DEF ChunkInv

LEMMA ChunkNotice ==
  ASSUME TableInv, TypeInv', ChunkInv, NEW h \in Handles, AfterReadEnd(h)
  PROVE  ChunkInv'
<1> PICK q, n, p, z : q = recvQ' /\ n = Len(recvQ) /\ p = recvQ /\ z = owner[h]
  OBVIOUS
<1>1. ~AfterRead(h)
  <2>1. handle[h] = "open" /\ handle'[h] = "done"
    BY DEF AfterReadEnd, TableInv, TypeInv, TypeOK
  <2>2. AfterRead(h) => handle' = handle
    BY DEF AfterRead, streams
  <2> QED BY <2>1, <2>2
<1>2. /\ n \in Nat /\ Len(q) = n + 1 /\ \A i \in 1..n : q[i] = p[i]
      /\ \A i \in 1..Len(q) : i \in 1..n \/ i = n + 1
      /\ q[n + 1].from = z /\ q[n + 1].buf = 0
      /\ z \in Sessions /\ handle[h] = "open"
  BY <1>1, RecvPushed
<1>3. heard' = heard /\ sent' = sent /\ got' = got
  BY DEF AfterReadEnd, history, clients
<1>5. \A i \in 1..n : p[i].from = z => p[i].buf # 0
  BY <1>2 DEF TableInv, GoneOK
<1>6. /\ \A s \in Sessions : heard[s] <= got[s] /\ got[s] <= sent[s]
      /\ \A i, j \in 1..n : i < j /\ p[i].from = p[j].from =>
           p[i].buf # 0 /\ (p[j].buf # 0 => p[i].buf < p[j].buf)
      /\ \A i \in 1..n : p[i].buf # 0 => heard[p[i].from] < p[i].buf /\ p[i].buf <= got[p[i].from]
      /\ \A s \in Sessions, m \in 1..MaxChunks : heard[s] < m /\ m <= got[s] =>
           \E i \in 1..n : p[i].from = s /\ p[i].buf = m
  BY DEF ChunkInv
<1>8. ASSUME NEW i \in 1..Len(q), NEW j \in 1..Len(q), i < j, q[i].from = q[j].from
      PROVE  q[i].buf # 0 /\ (q[j].buf # 0 => q[i].buf < q[j].buf)
  <2>1. i \in 1..n /\ q[i] = p[i]
    <3>1. i \in Nat /\ j \in Nat /\ i >= 1 /\ j <= n + 1
      BY <1>2, <1>8
    <3> QED BY <1>2, <1>8, <3>1
  <2>2. CASE j \in 1..n
    BY <1>2, <1>6, <1>8, <2>1, <2>2
  <2>3. CASE j = n + 1
    BY <1>2, <1>5, <1>8, <2>1, <2>3
  <2> QED BY <1>2, <2>2, <2>3
<1>9. ASSUME NEW i \in 1..Len(q), q[i].buf # 0
      PROVE  heard[q[i].from] < q[i].buf /\ q[i].buf <= got[q[i].from]
  BY <1>2, <1>6, <1>9
<1>10. ASSUME NEW s \in Sessions, NEW m \in 1..MaxChunks, heard[s] < m, m <= got[s]
       PROVE  \E i \in 1..Len(q) : q[i].from = s /\ q[i].buf = m
  <2>1. PICK i \in 1..n : p[i].from = s /\ p[i].buf = m
    BY <1>6, <1>10
  <2>2. i \in 1..Len(q)
    BY <1>2
  <2> QED BY <1>2, <2>1, <2>2
<1> QED BY <1>3, <1>6, <1>8, <1>9, <1>10 DEF ChunkInv

LEMMA ChunkPop ==
  ASSUME TableInv, TypeInv', ChunkInv, GetRecvMessage
  PROVE  ChunkInv'
<1> PICK q, n, p, z, b : q = recvQ' /\ n = Len(recvQ) /\ p = recvQ /\ z = p[1].from /\ b = p[1].buf
  OBVIOUS
<1>1. /\ n \in Nat /\ Len(q) = n - 1 /\ 1 \in 1..n
      /\ \A i \in 1..Len(q) : q[i] = p[i + 1] /\ i + 1 \in 1..n
      /\ \A i \in 1..n : i = 1 \/ (i - 1 \in 1..Len(q) /\ q[i - 1] = p[i])
      /\ z \in Sessions /\ b \in 0..MaxChunks
      /\ \A s \in Sessions : heard'[s] = IF s = z /\ b # 0 THEN b ELSE heard[s]
      /\ UNCHANGED <<sent, got>>
  BY RecvPopped DEF clients
<1>2. \A s \in Sessions : got[s] \in Nat /\ heard[s] \in Nat /\ sent[s] \in Nat
  BY Counts DEF TableInv
<1>3. b \in Nat
  BY <1>1, BoundsAssumption
<1>4. \A i \in 1..n : p[i].from \in Sessions /\ p[i].buf \in Nat
  BY QueueTypes, BoundsAssumption
<1>6. /\ \A s \in Sessions : heard[s] <= got[s] /\ got[s] <= sent[s]
      /\ \A i, j \in 1..n : i < j /\ p[i].from = p[j].from =>
           p[i].buf # 0 /\ (p[j].buf # 0 => p[i].buf < p[j].buf)
      /\ \A i \in 1..n : p[i].buf # 0 => heard[p[i].from] < p[i].buf /\ p[i].buf <= got[p[i].from]
      /\ \A s \in Sessions, m \in 1..MaxChunks : heard[s] < m /\ m <= got[s] =>
           \E i \in 1..n : p[i].from = s /\ p[i].buf = m
  BY DEF ChunkInv
<1>7. ASSUME NEW s \in Sessions
      PROVE  heard'[s] <= got[s] /\ got[s] <= sent[s]
  BY <1>1, <1>6
<1>8. ASSUME NEW i \in 1..Len(q), NEW j \in 1..Len(q), i < j, q[i].from = q[j].from
      PROVE  q[i].buf # 0 /\ (q[j].buf # 0 => q[i].buf < q[j].buf)
  <2>1. q[i] = p[i + 1] /\ q[j] = p[j + 1] /\ i + 1 \in 1..n /\ j + 1 \in 1..n /\ i + 1 < j + 1
    BY <1>1, <1>8
  <2> QED BY <1>6, <1>8, <2>1
<1>9. ASSUME NEW i \in 1..Len(q), q[i].buf # 0
      PROVE  heard'[q[i].from] < q[i].buf /\ q[i].buf <= got[q[i].from]
  <2>1. q[i] = p[i + 1] /\ i + 1 \in 1..n /\ 1 < i + 1
    BY <1>1
  <2>2. heard[q[i].from] < q[i].buf /\ q[i].buf <= got[q[i].from] /\ q[i].from \in Sessions
    BY <1>4, <1>6, <1>9, <2>1
  <2>3. q[i].from = z => b < q[i].buf
    BY <1>1, <1>6, <1>9, <2>1
  <2> QED BY <1>1, <2>2, <2>3
<1>10. ASSUME NEW s \in Sessions, NEW m \in 1..MaxChunks, heard'[s] < m, m <= got[s]
       PROVE  \E i \in 1..Len(q) : q[i].from = s /\ q[i].buf = m
  <2>1. m \in Nat /\ m # 0 /\ heard[s] < m /\ ~(s = z /\ b = m)
    <3>1. m \in Nat /\ m # 0
      BY BoundsAssumption
    <3>2. CASE s = z /\ b # 0
      <4>1. heard'[s] = b /\ heard[s] < b
        BY <1>1, <1>6, <3>2
      <4> QED BY <1>2, <1>3, <1>10, <3>1, <4>1
    <3>3. CASE ~(s = z /\ b # 0)
      BY <1>1, <1>10, <3>1, <3>3
    <3> QED BY <3>2, <3>3
  <2>2. PICK i \in 1..n : p[i].from = s /\ p[i].buf = m
    BY <1>6, <1>10, <2>1
  <2>3. i # 1
    BY <2>1, <2>2
  <2> QED BY <1>1, <2>2, <2>3
<1>11. \A s \in Sessions : heard'[s] <= got'[s] /\ got'[s] <= sent'[s]
  BY <1>1, <1>7
<1>12. \A s \in Sessions, m \in 1..MaxChunks : heard'[s] < m /\ m <= got'[s] =>
         \E i \in 1..Len(q) : q[i].from = s /\ q[i].buf = m
  BY <1>1, <1>10
<1>13. \A i \in 1..Len(q) : q[i].buf # 0 =>
         heard'[q[i].from] < q[i].buf /\ q[i].buf <= got'[q[i].from]
  BY <1>1, <1>9
<1> QED BY <1>8, <1>11, <1>12, <1>13 DEF ChunkInv

LEMMA ChunkStep ==
  ASSUME NoNull, TableInv, TypeInv', ChunkInv, [Next]_vars
  PROVE  ChunkInv'
<1>1. ASSUME UNCHANGED <<recvQ, heard>>, \A h \in Handles : ~AfterRead(h)
      PROVE  ChunkInv'
  <2>1. got' = got
    <3>1. \A s \in Sessions : got'[s] = got[s]
      BY <1>1, ChunkSteps DEF TableInv
    <3>2. got \in [Sessions -> 0..MaxChunks] /\ got' \in [Sessions -> 0..MaxChunks]
      BY DEF TableInv, TypeInv, TypeOK
    <3> QED BY <3>1, <3>2
  <2> QED BY <1>1, <2>1, ChunkStay
<1> QED BY <1>1, ChunkPush, ChunkNotice, ChunkPop, RecvSteps

\* The logic thread knows the client of the oldest message by its id, or
\* nobody.
LEMMA HeadKnown ==
  ASSUME TableInv, QueueInv, GetRecvMessage
  PROVE  client[recvQ[1].conn] \in {NoSession, recvQ[1].from}
<1>1. 1 \in 1..Len(recvQ) /\ recvQ[1].conn \in Ids
  BY RecvPopped
<1>2. ~NoticeBetween(recvQ[1].conn, 0, 1)
  <2>1. \A k \in 1..Len(recvQ) : ~(0 < k /\ k < 1)
    BY QueueTypes
  <2> QED BY <2>1 DEF NoticeBetween
<1> QED BY <1>1, <1>2, QueueInvParts

\* A queue that gains one element, and one that loses the first.
LEMMA OneIdPush ==
  ASSUME NoNull, TableInv, TypeInv', OneIdInv, [Next]_vars,
         NEW h \in Handles, AfterRead(h) \/ AfterReadEnd(h)
  PROVE  OneIdInv'
<1> PICK q, n, p, z, e : q = recvQ' /\ n = Len(recvQ) /\ p = recvQ /\ z = owner[h]
                         /\ e = onlineStream[h]
  OBVIOUS
<1>1. /\ n \in Nat /\ Len(q) = n + 1 /\ \A i \in 1..n : q[i] = p[i]
      /\ \A i \in 1..Len(q) : i \in 1..n \/ i = n + 1
      /\ q[n + 1].from = z /\ q[n + 1].conn = e
      /\ z \in Sessions /\ handle[h] = "open" /\ e \in Ids
  BY RecvPushed
<1>2. client' = client /\ told' = told /\ owner' = owner /\ accepted' = accepted
  BY DEF AfterRead, AfterReadEnd, history, streams
<1>3. \A s \in Sessions : heard'[s] = heard[s]
  BY DEF AfterRead, AfterReadEnd, history
<1>4. /\ \A i \in 1..n : p[i].from = z => p[i].conn = e
      /\ \A c \in Ids : client[c] = z => c = e
  BY <1>1 DEF OneIdInv
<1>5. ASSUME NEW i \in 1..Len(q), NEW c \in Ids, client[c] = q[i].from
      PROVE  c = q[i].conn
  <2>1. CASE i \in 1..n
    <3>1. client[c] = p[i].from /\ q[i] = p[i]
      BY <1>1, <1>5, <2>1
    <3> QED BY <2>1, <3>1 DEF OneIdInv
  <2>2. CASE i = n + 1
    BY <1>1, <1>4, <1>5, <2>2
  <2> QED BY <1>1, <2>1, <2>2
<1>6. ASSUME NEW i \in 1..Len(q), NEW j \in 1..Len(q), q[i].from = q[j].from
      PROVE  q[i].conn = q[j].conn
  <2>1. CASE i \in 1..n /\ j \in 1..n
    <3>1. q[i] = p[i] /\ q[j] = p[j]
      BY <1>1, <2>1
    <3> QED BY <1>6, <2>1, <3>1 DEF OneIdInv
  <2>2. CASE i = n + 1 \/ j = n + 1
    BY <1>1, <1>4, <1>6, <2>2
  <2> QED BY <1>1, <2>1, <2>2
<1>7. ASSUME NEW g \in Handles, handle'[g] = "open"
      PROVE  /\ \A i \in 1..Len(q) : q[i].from = owner[g] => q[i].conn = onlineStream'[g]
             /\ \A c \in Ids : client[c] = owner[g] => c = onlineStream'[g]
  <2>1. handle[g] = "open" /\ onlineStream'[g] = onlineStream[g]
    <3>1. owner[g] \in accepted \/ handle[g] # "open"
      BY DEF TableInv, StreamsOK
    <3>2. handle'[g] = "open" => handle[g] = "open"
      BY DEF AfterRead, AfterReadEnd, streams, TableInv, TypeInv, TypeOK
    <3> QED BY <1>2, <1>7, <3>1, <3>2, StreamSteps
  <2>2. owner[g] = z => g = h
    BY <1>1, <2>1 DEF TableInv, StreamsOK
  <2>3. /\ \A i \in 1..n : p[i].from = owner[g] => p[i].conn = onlineStream[g]
        /\ \A c \in Ids : client[c] = owner[g] => c = onlineStream[g]
    BY <2>1 DEF OneIdInv
  <2>4. ASSUME NEW i \in 1..Len(q), q[i].from = owner[g] PROVE q[i].conn = onlineStream[g]
    <3>1. CASE i \in 1..n
      BY <1>1, <2>3, <2>4, <3>1
    <3>2. CASE i = n + 1
      BY <1>1, <2>2, <2>4, <3>2
    <3> QED BY <1>1, <3>1, <3>2
  <2> QED BY <2>1, <2>3, <2>4
<1> QED BY <1>2, <1>3, <1>5, <1>6, <1>7 DEF OneIdInv

LEMMA OneIdPop ==
  ASSUME TableInv, TypeInv', QueueInv, OneIdInv, GetRecvMessage
  PROVE  OneIdInv'
<1> PICK q, n, p, z, e, b : q = recvQ' /\ n = Len(recvQ) /\ p = recvQ /\ z = p[1].from
                            /\ e = p[1].conn /\ b = p[1].buf
  OBVIOUS
<1>1. /\ n \in Nat /\ 1 \in 1..n
      /\ \A i \in 1..Len(q) : q[i] = p[i + 1] /\ i + 1 \in 1..n
      /\ z \in Sessions /\ e \in Ids /\ z # NoSession
      /\ \A c \in Ids : client'[c] = IF c # e THEN client[c] ELSE IF b = 0 THEN NoSession ELSE z
      /\ \A s \in Sessions : heard'[s] = IF s = z /\ b # 0 THEN b ELSE heard[s]
      /\ told' = IF b = 0 THEN told \cup {z} ELSE told
      /\ UNCHANGED <<streams, table>>
  BY RecvPopped
<1>2. UNCHANGED <<owner, handle, onlineStream, accepted>>
  BY <1>1 DEF streams, table
<1>3. z \in accepted
  BY <1>1 DEF TableInv, GoneOK
<1>4. /\ \A c \in Ids : client[c] # NoSession => client[c] \in accepted
      /\ \A c, d \in Ids : client[c] = client[d] /\ client[c] # NoSession => c = d
      /\ \A i \in 1..n, c \in Ids : client[c] = p[i].from => c = p[i].conn
      /\ \A i, j \in 1..n : p[i].from = p[j].from => p[i].conn = p[j].conn
      /\ \A h \in Handles : handle[h] = "open" =>
           /\ \A i \in 1..n : p[i].from = owner[h] => p[i].conn = onlineStream[h]
           /\ \A c \in Ids : client[c] = owner[h] => c = onlineStream[h]
      /\ \A s \in Sessions : heard[s] > 0 /\ s \notin told => \E c \in Ids : client[c] = s
  BY DEF OneIdInv
<1>5. \A i \in 1..n : p[i].from \in Sessions /\ p[i].from # NoSession
  BY QueueTypes, NoSessionAssumption
<1>6. client[e] \in {NoSession, z}
  BY HeadKnown
<1>7. \A c \in Ids : client[c] = z => c = e
  BY <1>1, <1>4
<1>8. \A c \in Ids : client'[c] # NoSession => client'[c] \in accepted
  BY <1>1, <1>3, <1>4
<1>9. \A c, d \in Ids : client'[c] = client'[d] /\ client'[c] # NoSession => c = d
  BY <1>1, <1>4, <1>7
<1>10. \A i \in 1..Len(q), c \in Ids : client'[c] = q[i].from => c = q[i].conn
  <2> SUFFICES ASSUME NEW i \in 1..n, NEW c \in Ids, client'[c] = p[i].from PROVE c = p[i].conn
    BY <1>1
  <2>1. CASE c # e
    BY <1>1, <1>4, <2>1
  <2>2. CASE c = e
    <3>1. p[i].from = z
      BY <1>1, <1>5, <2>2
    <3> QED BY <1>1, <1>4, <2>2, <3>1
  <2> QED BY <2>1, <2>2
<1>11. \A i, j \in 1..Len(q) : q[i].from = q[j].from => q[i].conn = q[j].conn
  BY <1>1, <1>4
<1>12. ASSUME NEW h \in Handles, handle[h] = "open"
       PROVE  /\ \A i \in 1..Len(q) : q[i].from = owner[h] => q[i].conn = onlineStream[h]
              /\ \A c \in Ids : client'[c] = owner[h] => c = onlineStream[h]
  <2>1. \A i \in 1..Len(q) : q[i].from = owner[h] => q[i].conn = onlineStream[h]
    BY <1>1, <1>4, <1>12
  <2>2. owner[h] # NoSession
    BY <1>12, NoSessionAssumption DEF TableInv, TypeInv, HandlesOK
  <2>3. \A c \in Ids : client'[c] = owner[h] => c = onlineStream[h]
    BY <1>1, <1>4, <1>12, <2>2
  <2> QED BY <2>1, <2>3
<1>13. ASSUME NEW s \in Sessions, heard'[s] > 0, s \notin told' PROVE \E c \in Ids : client'[c] = s
  <2>1. CASE s = z
    BY <1>1, <1>13, <2>1
  <2>2. CASE s # z
    <3>1. PICK c \in Ids : client[c] = s
      BY <1>1, <1>4, <1>13, <2>2
    <3>2. c # e
      BY <1>6, <2>2, <3>1, NoSessionAssumption
    <3> QED BY <1>1, <3>1, <3>2
  <2> QED BY <2>1, <2>2
<1> QED BY <1>2, <1>8, <1>9, <1>10, <1>11, <1>12, <1>13 DEF OneIdInv

LEMMA OneIdStep ==
  ASSUME NoNull, TableInv, TypeInv', QueueInv, OneIdInv, [Next]_vars
  PROVE  OneIdInv'
<1>1. CASE UNCHANGED <<recvQ, client, heard, told>>
  <2>1. /\ \A c \in Ids : client[c] # NoSession => client[c] \in accepted'
        /\ \A c, d \in Ids : client[c] = client[d] /\ client[c] # NoSession => c = d
        /\ \A i \in 1..Len(recvQ), c \in Ids : client[c] = recvQ[i].from => c = recvQ[i].conn
        /\ \A i, j \in 1..Len(recvQ) : recvQ[i].from = recvQ[j].from => recvQ[i].conn = recvQ[j].conn
        /\ \A s \in Sessions : heard[s] > 0 /\ s \notin told => \E c \in Ids : client[c] = s
    BY StreamSteps DEF OneIdInv
  <2>2. ASSUME NEW h \in Handles, handle'[h] = "open"
        PROVE  /\ \A i \in 1..Len(recvQ) : recvQ[i].from = owner'[h] => recvQ[i].conn = onlineStream'[h]
               /\ \A c \in Ids : client[c] = owner'[h] => c = onlineStream'[h]
    <3>1. CASE handle[h] = "open" /\ owner'[h] = owner[h] /\ onlineStream'[h] = onlineStream[h]
      BY <3>1 DEF OneIdInv
    <3>2. CASE owner'[h] \notin accepted
      <4>1. \A i \in 1..Len(recvQ) : recvQ[i].from \in accepted
        BY DEF TableInv, GoneOK
      <4>2. owner'[h] # NoSession
        BY <2>2, NoSessionAssumption DEF TypeInv, HandlesOK
      <4> QED BY <3>2, <4>1, <4>2 DEF OneIdInv
    <3> QED BY <2>2, <3>1, <3>2, StreamSteps
  <2> QED BY <1>1, <2>1, <2>2 DEF OneIdInv
<1> QED BY <1>1, OneIdPush, OneIdPop, RecvSteps

LEMMA SessionInit == Init => SessionInv
  BY BoundsAssumption DEF Init, SessionInv, PeerOK, ChunkInv, EndInv, OneIdInv

\* The inductive invariant of the server as a whole.
ServerInv == TableInv /\ QueueInv /\ ReachInv /\ SessionInv

LEMMA ServerInvInit == Init => ServerInv
  BY TableInit, QueueInit, ReachInit, SessionInit DEF ServerInv

LEMMA ServerInvStep == ASSUME NoNull, ServerInv, [Next]_vars PROVE ServerInv'
<1>1. TypeInv'
  BY TypeStep DEF ServerInv, TableInv
<1>2. TableInv'
  BY <1>1, IdsStep, TablesAgreeStep, StreamsStep, GoneStep DEF ServerInv, TableInv
<1>3. QueueInv' /\ ReachInv'
  BY <1>1, QueueStep, ReachStep DEF ServerInv
<1>4. SessionInv'
  BY <1>1, PeerStep, ChunkStep, EndStep, OneIdStep DEF ServerInv, SessionInv
<1> QED BY <1>2, <1>3, <1>4 DEF ServerInv

LEMMA SessionAlways == NoNull => (Spec => []ServerInv)
<1> SUFFICES ASSUME NoNull PROVE Spec => []ServerInv
  OBVIOUS
<1>1. ServerInv /\ [Next]_vars => ServerInv'
  BY ServerInvStep
<1> QED BY <1>1, ServerInvInit, PTL DEF Spec

\* The oldest message is the next chunk of its client, or the notice after
\* its last one.
LEMMA HeadNext ==
  ASSUME TableInv, ChunkInv, GetRecvMessage
  PROVE  LET m == recvQ[1] IN
         /\ m.buf # 0 => m.buf = heard[m.from] + 1 /\ m.buf <= got[m.from]
         /\ m.buf = 0 => heard[m.from] = got[m.from]
<1> PICK n, p, z, b : n = Len(recvQ) /\ p = recvQ /\ z = p[1].from /\ b = p[1].buf
  OBVIOUS
<1>1. n \in Nat /\ 1 \in 1..n /\ z \in Sessions /\ b \in 0..MaxChunks
  BY RecvPopped
<1>2. b \in Nat /\ heard[z] \in Nat /\ got[z] \in Nat /\ got[z] <= MaxChunks
  <2>1. b \in Nat
    BY <1>1, BoundsAssumption
  <2>2. heard[z] \in Nat /\ got[z] \in Nat
    BY <1>1, Counts DEF TableInv
  <2>3. got[z] \in 0..MaxChunks
    BY <1>1 DEF TableInv, TypeInv, TypeOK
  <2> QED BY <2>1, <2>2, <2>3, BoundsAssumption
<1>3. heard[z] <= got[z]
  BY <1>1 DEF ChunkInv
<1>4. ASSUME heard[z] < got[z]
      PROVE  b # 0 /\ b <= heard[z] + 1
  <2>1. heard[z] + 1 \in 1..MaxChunks /\ heard[z] < heard[z] + 1 /\ heard[z] + 1 <= got[z]
    BY <1>2, <1>4, BoundsAssumption
  <2>2. PICK i \in 1..n : p[i].from = z /\ p[i].buf = heard[z] + 1
    BY <1>1, <2>1 DEF ChunkInv
  <2>3. CASE i = 1
    BY <1>2, <2>2, <2>3
  <2>4. CASE i # 1
    <3>1. 1 < i
      BY <1>1, <2>4
    <3>2. b # 0 /\ b < heard[z] + 1
      BY <1>1, <1>2, <2>2, <3>1 DEF ChunkInv
    <3> QED BY <1>2, <3>2
  <2> QED BY <2>3, <2>4
<1>5. b # 0 => heard[z] < b /\ b <= got[z]
  BY <1>1 DEF ChunkInv
<1> QED BY <1>2, <1>3, <1>4, <1>5

\* As long as the logic thread sends no null buffer, it hears the chunks of a
\* client in order, none missing, and nothing after the disconnect notice.
THEOREM ChunksInOrder == NoNull => (Spec => HeardInOrder)
<1> SUFFICES ASSUME NoNull PROVE Spec => HeardInOrder
  OBVIOUS
<1>1. ASSUME TableInv, SessionInv, [Next]_vars, NEW s \in Sessions, heard'[s] # heard[s]
      PROVE  heard'[s] = heard[s] + 1 /\ s \notin told
  <2>1. CASE GetRecvMessage
    <3>1. s = recvQ[1].from /\ recvQ[1].buf # 0 /\ heard'[s] = recvQ[1].buf /\ 1 \in 1..Len(recvQ)
      BY <1>1, <2>1, RecvPopped
    <3> QED BY <1>1, <2>1, <3>1, HeadNext DEF SessionInv, EndInv
  <2> QED BY <1>1, <2>1, RecvSteps DEF AfterRead, AfterReadEnd, history
<1>2. TableInv /\ SessionInv /\ [Next]_vars
      => [\A s \in Sessions : heard'[s] # heard[s] => heard'[s] = heard[s] + 1 /\ s \notin told]_vars
  BY <1>1
<1>3. ServerInv => TableInv /\ SessionInv
  BY DEF ServerInv
<1> QED BY <1>2, <1>3, SessionAlways, PTL DEF Spec, HeardInOrder

-----------------------------------------------------------------------------
(* The refinement.                                                         *)

LEMMA PromiseInit == Init => Promise!LinkInit
  BY DEF Init, Promise!LinkInit, Ids, Promise!Ids

\* The oldest message is what the logic thread may hear next: a chunk, or a
\* notice in the shape of a null buffer.
LEMMA PromiseHear ==
  ASSUME TableInv, QueueInv, SessionInv, GetRecvMessage
  PROVE  LET m == Head(recvQ) IN
         /\ m.from \in Sessions /\ m.conn \in Ids
         /\ m.buf # 0 => Promise!HearChunk(m.from, m.conn)
         /\ m.buf = 0 => Promise!HearEnd(m.from, m.conn)
<1> PICK z, e, b : z = recvQ[1].from /\ e = recvQ[1].conn /\ b = recvQ[1].buf
  OBVIOUS
<1>1. /\ 1 \in 1..Len(recvQ) /\ z \in Sessions /\ e \in Ids /\ z # NoSession
      /\ b \in 0..MaxChunks
      /\ UNCHANGED <<peer, sent, sendQ, pushed, wire>>
  BY RecvPopped DEF clients
<1>2. Head(recvQ) = recvQ[1]
  BY <1>1, TailFacts DEF TableInv, TypeInv, TypeOK, GetRecvMessage
<1>3. IF b = 0
      THEN /\ client' = [client EXCEPT ![e] = NoSession]
           /\ told' = told \cup {z} /\ UNCHANGED heard
      ELSE /\ client' = [client EXCEPT ![e] = z]
           /\ heard' = [heard EXCEPT ![z] = b] /\ UNCHANGED told
  BY <1>2 DEF GetRecvMessage
<1>4. Promise!KnownAs(z, e)
  <2>1. client[e] \in {NoSession, z}
    BY HeadKnown
  <2>2. \A d \in Ids : client[d] = z => d = e
    BY <1>1 DEF SessionInv, OneIdInv
  <2>3. z \notin told
    BY <1>1 DEF SessionInv, EndInv
  <2>4. heard[z] > 0 => client[e] = z
    BY <1>1, <2>2, <2>3 DEF SessionInv, OneIdInv
  <2> QED BY <2>1, <2>2, <2>4 DEF Promise!KnownAs, Promise!Ids, Ids
<1>5. z \notin told
  BY <1>1 DEF SessionInv, EndInv
<1>6. ASSUME b # 0 PROVE Promise!HearChunk(z, e)
  <2>1. b = heard[z] + 1 /\ b <= got[z] /\ got[z] <= sent[z]
    BY <1>1, <1>6, HeadNext DEF SessionInv, ChunkInv
  <2>2. heard[z] < sent[z]
    BY <1>1, <2>1, Counts DEF TableInv
  <2>3. heard' = [heard EXCEPT ![z] = heard[z] + 1]
    BY <1>3, <1>6, <2>1
  <2> QED BY <1>1, <1>3, <1>4, <1>5, <1>6, <2>2, <2>3
          DEF Promise!HearChunk, Promise!clients, Promise!sending
<1>7. ASSUME b = 0 PROVE Promise!HearEnd(z, e)
  <2>1. peer[z] \in PeerEnds /\ (peer[z] = "eof" => got[z] = sent[z])
    BY <1>1, <1>7 DEF SessionInv, EndInv, Ended
  <2>2. heard[z] = got[z]
    BY <1>7, HeadNext DEF SessionInv
  <2> QED BY <1>1, <1>3, <1>4, <1>5, <1>7, <2>1, <2>2
          DEF Promise!HearEnd, Promise!clients, Promise!sending
<1> QED BY <1>1, <1>2, <1>6, <1>7

LEMMA PromiseSend ==
  ASSUME NoNull, TableInv, QueueInv, ReachInv, SessionInv, [Next]_vars,
         PopSendMessage, UNCHANGED <<clients, client, heard, told>>
  PROVE  Promise!Outside
<1>1. TypeInv /\ sendQ # <<>> /\ sendQ' = Tail(sendQ) /\ UNCHANGED <<peer, sent>>
  BY DEF TableInv, PopSendMessage, clients
<1>2. /\ Msg = sendQ[1] /\ 1 \in 1..Len(sendQ) /\ Msg.conn \in Ids /\ Msg.to \in Sessions
      /\ Len(sendQ') # Len(sendQ) /\ Len(sendQ') # Len(sendQ) + 1
  <2>1. /\ Msg = sendQ[1] /\ 1 \in 1..Len(sendQ) /\ Msg \in SendMsgs
        /\ Len(sendQ) \in Nat /\ Len(sendQ') = Len(sendQ) - 1
    BY <1>1, SendPopped
  <2>2. Msg.conn \in Ids /\ Msg.to \in Sessions
    BY <2>1 DEF SendMsgs
  <2> HIDE DEF Msg
  <2> QED BY <2>1, <2>2
<1>3. UNCHANGED pushed /\ (UNCHANGED wire \/ Written)
  <2>1. \A conn \in Ids, buf \in SendBufs : ~PushSendMessage(conn, buf)
    BY <1>1, <1>2, SendPushed
  <2>2. sendQ' # sendQ
    BY <1>2
  <2> QED BY <1>1, <2>1, <2>2, SendSteps
<1>4. CASE UNCHANGED wire
  BY <1>1, <1>3, <1>4 DEF Promise!Outside, Promise!Lose,
     Promise!clients, Promise!owners
<1>5. CASE Written
  <2> PICK z : z = owner[Stream]
    OBVIOUS
  <2>1. /\ z \in Sessions /\ Stream \in Handles /\ Msg.buf = "text"
        /\ wire' = [wire EXCEPT ![z] = Append(@, [n |-> Msg.n, to |-> Msg.to])]
    BY <1>5 DEF Written
  <2>2. onlineID[Msg.conn] = Stream /\ Stream # NoHandle
    BY <2>1, NoHandleAssumption DEF Stream
  <2>3. handle[Stream] = "open"
    BY <1>2, <2>2, OnlineEntry
  <2>4. z \in accepted /\ z \notin told
    BY <2>1, <2>3 DEF TableInv, StreamsOK, GoneOK
  <2>5. peer[z] # "idle"
    BY <2>4 DEF SessionInv, PeerOK
  <2>6. z = Msg.to \/ peer[Msg.to] \in PeerEnds
    <3>1. Reaches(Msg.conn, Msg.to)
      BY <1>2 DEF ReachInv
    <3> QED BY <2>2, <3>1 DEF Reaches, Holds, Left
  <2>7. Promise!Deliver(z)
    BY <1>1, <1>3, <2>1, <2>4, <2>5, <2>6
    DEF Promise!Deliver, Promise!clients, Promise!owners, Msg
  <2> QED BY <2>1, <2>7 DEF Promise!Outside
<1> QED BY <1>3, <1>4, <1>5

\* What the clients do is what they do there.
LEMMA PromisePeer ==
  ASSUME NEW s \in Sessions,
         Connect(s) \/ PeerSend(s) \/ \E how \in PeerEnds : PeerEnd(s, how)
  PROVE  Promise!Outside
<1>1. CASE Connect(s)
  <2>1. Promise!Connect(s)
    BY <1>1 DEF Connect, history, Promise!Connect, Promise!owners, Promise!sending
  <2> QED BY <2>1 DEF Promise!Outside
<1>2. CASE PeerSend(s)
  <2>1. Promise!PeerSend(s)
    BY <1>2 DEF PeerSend, history, Promise!PeerSend, Promise!owners, Promise!sending
  <2> QED BY <2>1 DEF Promise!Outside
<1>3. ASSUME NEW how \in PeerEnds, PeerEnd(s, how) PROVE Promise!Outside
  <2>1. Promise!PeerEnd(s, how)
    BY <1>3 DEF PeerEnd, history, Promise!PeerEnd, Promise!owners, Promise!sending
  <2> QED BY <2>1 DEF Promise!Outside
<1> QED BY <1>1, <1>2, <1>3

LEMMA PromisePush ==
  ASSUME NEW conn \in Ids, NEW buf \in SendBufs, PushSendMessage(conn, buf)
  PROVE  Promise!PushSendMessage(conn, buf)
BY DEF PushSendMessage, Enqueue, clients, history, Promise!PushSendMessage,
   Promise!clients, Promise!owners

\* The clients and the network thread change what the promise shows by one of
\* its own steps, or leave it alone.
LEMMA PromiseOutside ==
  ASSUME NoNull, TableInv, QueueInv, ReachInv, SessionInv, Clients \/ Network
  PROVE  Promise!Outside \/ UNCHANGED Promise!linkVars
<1>1. CASE Clients
  BY <1>1, PromisePeer DEF Clients
<1>2. CASE TickIdle
  BY <1>2 DEF TickIdle, clients, history, Promise!linkVars
<1>3. CASE TickDrop \/ TickShutdown \/ TickWrite \/ TickCrash
  <2>1. PopSendMessage /\ UNCHANGED <<clients, client, heard, told>>
    BY <1>3 DEF TickDrop, TickShutdown, TickWrite, TickCrash, history
  <2>2. [Next]_vars
    BY <1>3 DEF Next, Network, TimerSend
  <2> QED BY <2>1, <2>2, PromiseSend
<1>4. CASE Network /\ ~TimerSend
  BY <1>4 DEF Network, StartFail, StartListen, StartLoad, StartStore, OnConnection,
     OnConnectionFail, AfterRead, AfterReadEnd, AfterShutdown, OnClose, TimerRearm, LoopExit,
     clients, history, Promise!linkVars
<1> QED BY <1>1, <1>2, <1>3, <1>4 DEF TimerSend

LEMMA PromiseStep ==
  ASSUME NoNull, TableInv, QueueInv, ReachInv, SessionInv, [Next]_vars
  PROVE  [Promise!LinkNext]_(Promise!linkVars)
<1>1. CASE Clients \/ Network
  BY <1>1, PromiseOutside DEF Promise!LinkNext
<1>2. CASE GetRecvMessage
  BY <1>2, PromiseHear DEF Promise!LinkNext, Promise!Ids, Ids
<1>3. ASSUME NEW conn \in Ids, NEW buf \in SendBufs, PushSendMessage(conn, buf)
      PROVE  Promise!LinkNext
  BY <1>3, PromisePush DEF Promise!LinkNext, Promise!Ids, Ids
<1>4. CASE Close \/ Join \/ UNCHANGED vars
  BY <1>4 DEF Close, Join, clients, history, vars, Promise!linkVars
<1> QED BY <1>1, <1>2, <1>3, <1>4 DEF Next, Logic

\* As long as the logic thread sends no null buffer, uv::TCPServer is no more
\* than the sessions of ClientSessions: every step of the network thread, the
\* queues and the tables is one of its steps or changes nothing it shows.
THEOREM ServerKeepsPromise == NoNull => (Spec => KeepsPromise)
<1> SUFFICES ASSUME NoNull PROVE Spec => KeepsPromise
  OBVIOUS
<1>1. ServerInv /\ [Next]_vars => [Promise!LinkNext]_(Promise!linkVars)
  BY PromiseStep DEF ServerInv
<1> QED BY <1>1, PromiseInit, SessionAlways, PTL DEF Spec, KeepsPromise, Promise!LinkSpec
=============================================================================
