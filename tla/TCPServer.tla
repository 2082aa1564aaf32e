------------------------------ MODULE TCPServer ------------------------------
(***************************************************************************)
(* uv::TCPServer (Server/NetApp/NetFrame.cpp): one network thread that     *)
(* runs a libuv loop, and one logic thread that owns the server object.    *)
(* They share two concurrent queues, m_RecvMessage and m_SendMessage, and  *)
(* the atomic status; the connection tables belong to the network thread.  *)
(*                                                                         *)
(* A session is one TCP connection of one client.  A handle is an address  *)
(* malloc returns for a uv_stream_t: freed addresses are used again.  A    *)
(* connection id is the uint32 the logic thread knows a session by:        *)
(* released ids are used again.  Message contents are left out: a received *)
(* chunk is its number within its session, 0 is the null buffer of a       *)
(* disconnect notice; a sent message is one of the three kinds of buffer   *)
(* timer_cb tells apart.                                                   *)
(***************************************************************************)
EXTENDS Naturals, Sequences

CONSTANTS
  Sessions,     \* the clients' connections, each made at most once
  Handles,      \* addresses of uv_stream_t objects
  NoSession,    \* "no client"
  NoHandle,     \* "no stream"
  SendBufs,     \* the kinds of buffer the logic thread sends
  MaxConn,      \* bound: connection ids are 1..MaxConn
  MaxChunks,    \* bound: chunks a client sends
  MaxSends,     \* bound: messages the logic thread sends
  ClosePolicy   \* when the owner may call Close: "never" (the mains of both
                \* servers as they are), "running" (once the status is RUNING)
                \* or "any" (at any time after Run)

ASSUME NoSessionAssumption == NoSession \notin Sessions
ASSUME NoHandleAssumption == NoHandle \notin Handles
ASSUME BoundsAssumption ==
  MaxConn \in Nat /\ MaxChunks \in Nat /\ MaxSends \in Nat
ASSUME SendBufsAssumption == SendBufs \subseteq {"text", "zero", "null"}
ASSUME ClosePolicyAssumption == ClosePolicy \in {"never", "running", "any"}

VARIABLES
  status,        \* the atomic STATUS: "NONE", "RUNING", "CLOSE"
  net,           \* where the network thread is
  logic,         \* where the logic thread is with Close
  peer,          \* the client's end of each session
  sent,          \* chunks the client has sent
  got,           \* chunks after_read has taken from the session
  accepted,      \* sessions uv_accept has taken from the backlog
  handle,        \* life cycle of each uv_stream_t
  shut,          \* handles with a uv_shutdown request under way
  owner,         \* the session a handle carries
  onlineStream,  \* m_OnlineStream, 0 = no entry (what operator[] inserts)
  onlineID,      \* m_OnlineID, NoHandle = no entry
  freeIds,       \* m_ConnectionID, the ids to use again
  maxId,         \* m_MaxConnectionID
  recvQ,         \* m_RecvMessage
  sendQ,         \* m_SendMessage
  pushed,        \* number of PushSendMessage calls so far
  wire,          \* history: what was written to each session
  client,        \* history: the session the logic thread has heard under an id
  heard,         \* history: chunks of a session the logic thread has popped
  told           \* history: sessions whose disconnect the logic thread popped

table   == <<onlineStream, onlineID, freeIds, maxId>>
streams == <<accepted, handle, shut, owner>>
clients == <<peer, sent>>
history == <<client, heard, told>>
vars == <<status, net, logic, peer, sent, got, accepted, handle, shut, owner,
          onlineStream, onlineID, freeIds, maxId, recvQ, sendQ, pushed, wire,
          client, heard, told>>

Ids == 1..MaxConn
PeerEnds == {"eof", "reset", "error"}
\* A received message; buf is a chunk number, or 0 for nullptr.  Its id is one
\* that was issued: operator[] in PushRecvMessage never inserts a 0.
RecvMsgs == [conn : Ids, from : Sessions, buf : 0..MaxChunks]
\* A message to send; n numbers the calls, to is the session it is meant for.
SendMsgs == [n : 1..MaxSends, conn : Ids, buf : SendBufs, to : Sessions]

TypeOK ==
  /\ status \in {"NONE", "RUNING", "CLOSE"}
  /\ net \in {"start", "listening", "checked", "loop", "tick", "stopping",
              "exited", "crashed"}
  /\ logic \in {"running", "joining", "joined"}
  /\ peer \in [Sessions -> {"idle", "connected"} \cup PeerEnds]
  /\ sent \in [Sessions -> 0..MaxChunks]
  /\ got \in [Sessions -> 0..MaxChunks]
  /\ accepted \subseteq Sessions
  /\ handle \in [Handles -> {"free", "open", "done", "closing"}]
  /\ shut \in [Handles -> BOOLEAN]
  /\ owner \in [Handles -> Sessions \cup {NoSession}]
  /\ onlineStream \in [Handles -> 0..MaxConn]
  /\ onlineID \in [Ids -> Handles \cup {NoHandle}]
  /\ freeIds \in Seq(Ids)
  /\ maxId \in 0..MaxConn
  /\ recvQ \in Seq(RecvMsgs)
  /\ sendQ \in Seq(SendMsgs)
  /\ pushed \in 0..MaxSends
  /\ wire \in [Sessions -> Seq([n : 1..MaxSends, to : Sessions])]
  /\ client \in [Ids -> Sessions \cup {NoSession}]
  /\ heard \in [Sessions -> 0..MaxChunks]
  /\ told \subseteq Sessions

Init ==
  /\ status = "NONE"
  /\ net = "start"
  /\ logic = "running"
  /\ peer = [s \in Sessions |-> "idle"]
  /\ sent = [s \in Sessions |-> 0]
  /\ got = [s \in Sessions |-> 0]
  /\ accepted = {}
  /\ handle = [h \in Handles |-> "free"]
  /\ shut = [h \in Handles |-> FALSE]
  /\ owner = [h \in Handles |-> NoSession]
  /\ onlineStream = [h \in Handles |-> 0]
  /\ onlineID = [c \in Ids |-> NoHandle]
  /\ freeIds = <<>>
  /\ maxId = 0
  /\ recvQ = <<>>
  /\ sendQ = <<>>
  /\ pushed = 0
  /\ wire = [s \in Sessions |-> <<>>]
  /\ client = [c \in Ids |-> NoSession]
  /\ heard = [s \in Sessions |-> 0]
  /\ told = {}

-----------------------------------------------------------------------------
(* The clients, outside the program.                                       *)

Listening == net \in {"listening", "checked", "loop", "tick", "stopping"}

\* The client's connect reaches the listening socket's backlog.
Connect(s) ==
  /\ Listening
  /\ peer[s] = "idle"
  /\ peer' = [peer EXCEPT ![s] = "connected"]
  /\ UNCHANGED <<status, net, logic, sent, got, streams, table, recvQ, sendQ,
                 pushed, wire, history>>

\* The client sends a chunk that one read callback will deliver.
PeerSend(s) ==
  /\ peer[s] = "connected"
  /\ sent[s] < MaxChunks
  /\ sent' = [sent EXCEPT ![s] = @ + 1]
  /\ UNCHANGED <<status, net, logic, peer, got, streams, table, recvQ, sendQ,
                 pushed, wire, history>>

\* The client closes, resets, or the connection fails some other way.
PeerEnd(s, how) ==
  /\ peer[s] = "connected"
  /\ peer' = [peer EXCEPT ![s] = how]
  /\ UNCHANGED <<status, net, logic, sent, got, streams, table, recvQ, sendQ,
                 pushed, wire, history>>

-----------------------------------------------------------------------------
(* The network thread: Start, up to uv_run.                                *)

\* Some uv_ call of Start fails: it returns, and the thread ends.
StartFail ==
  /\ net = "start"
  /\ net' = "exited"
  /\ UNCHANGED <<status, logic, clients, got, streams, table, recvQ, sendQ,
                 pushed, wire, history>>

\* Socket bound and listening, first timer armed.
StartListen ==
  /\ net = "start"
  /\ net' = "listening"
  /\ UNCHANGED <<status, logic, clients, got, streams, table, recvQ, sendQ,
                 pushed, wire, history>>

\* if (NONE == status.load()): the load is a step of its own ...
StartLoad ==
  /\ net = "listening"
  /\ net' = IF status = "NONE" THEN "checked" ELSE "loop"
  /\ UNCHANGED <<status, logic, clients, got, streams, table, recvQ, sendQ,
                 pushed, wire, history>>

\* ... and so is the store.
StartStore ==
  /\ net = "checked"
  /\ status' = "RUNING"
  /\ net' = "loop"
  /\ UNCHANGED <<logic, clients, got, streams, table, recvQ, sendQ, pushed,
                 wire, history>>

-----------------------------------------------------------------------------
(* Connection tables.                                                      *)

TakeReleasedID(conn) ==
  /\ freeIds # <<>>
  /\ conn = Head(freeIds)
  /\ freeIds' = Tail(freeIds)
  /\ UNCHANGED maxId

\* Wrong variants of GetConnectionID: released ids are never used again; the
\* largest id is not counted up.
GetConnectionID_AlwaysNew(conn) ==
  /\ maxId < MaxConn
  /\ conn = maxId + 1
  /\ maxId' = conn
  /\ UNCHANGED freeIds
GetConnectionID_NotCounted(conn) ==
  \/ TakeReleasedID(conn)
  \/ freeIds = <<>> /\ conn = maxId + 1 /\ conn \in Ids /\ UNCHANGED <<freeIds, maxId>>

\* GetConnectionID: the oldest released id, or a new one.
GetConnectionID(conn) ==
  \/ TakeReleasedID(conn)
  \/ /\ freeIds = <<>>
     /\ maxId < MaxConn
     /\ conn = maxId + 1
     /\ maxId' = conn
     /\ UNCHANGED freeIds

AddConnection(conn, h) ==
  /\ onlineStream' = [onlineStream EXCEPT ![h] = conn]
  /\ onlineID' = [onlineID EXCEPT ![conn] = h]

\* The first entry of m_OnlineID for the handle, in the hash table's order, is
\* erased and its id released.
ReleaseID(h) ==
  \/ \E conn \in Ids :
       /\ onlineID[conn] = h
       /\ onlineID' = [onlineID EXCEPT ![conn] = NoHandle]
       /\ freeIds' = Append(freeIds, conn)
  \/ /\ \A conn \in Ids : onlineID[conn] # h
     /\ UNCHANGED <<onlineID, freeIds>>

\* Wrong variants of ReleaseConnection: the entry of m_OnlineStream stays; the
\* id is not put back.
ReleaseConnection_KeepStream(h) ==
  ReleaseID(h) /\ UNCHANGED <<onlineStream, maxId>>
ReleaseConnection_LoseID(h) ==
  /\ onlineStream' = [onlineStream EXCEPT ![h] = 0]
  /\ onlineID' = [c \in Ids |-> IF onlineID[c] = h THEN NoHandle ELSE onlineID[c]]
  /\ UNCHANGED <<freeIds, maxId>>

ReleaseConnection(h) ==
  /\ ReleaseID(h)
  /\ onlineStream' = [onlineStream EXCEPT ![h] = 0]
  /\ UNCHANGED maxId

RecvMsg(h, buf) == [conn |-> onlineStream[h], from |-> owner[h], buf |-> buf]

\* Wrong variant of PushRecvMessage: the newest message is popped first.
PushRecvMessage_Front(h, buf) == recvQ' = <<RecvMsg(h, buf)>> \o recvQ

PushRecvMessage(h, buf) == recvQ' = Append(recvQ, RecvMsg(h, buf))

\* Wrong variants of the end of a connection: its id is released before the
\* notice looks it up; there is no notice; the connection stays in the tables.
Disconnect_ReleaseFirst(h) ==
  /\ ReleaseConnection(h)
  /\ recvQ' = Append(recvQ, [RecvMsg(h, 0) EXCEPT !.conn = onlineStream'[h]])
Disconnect_NoNotice(h) == ReleaseConnection(h) /\ UNCHANGED recvQ
Disconnect_NoRelease(h) == PushRecvMessage(h, 0) /\ UNCHANGED table

\* The end of a connection: first the null message, then the release.
Disconnect(h) == PushRecvMessage(h, 0) /\ ReleaseConnection(h)

-----------------------------------------------------------------------------
(* The network thread: callbacks of the running loop.  After uv_stop the   *)
(* current iteration still polls once, so its callbacks may run.           *)

Polling == net \in {"loop", "stopping"}

\* The next connection of the backlog is accepted and gets an id.
OnConnection(s, h) ==
  /\ Polling
  /\ peer[s] # "idle" /\ s \notin accepted
  /\ handle[h] = "free"
  /\ accepted' = accepted \cup {s}
  /\ handle' = [handle EXCEPT ![h] = "open"]
  /\ owner' = [owner EXCEPT ![h] = s]
  /\ \E conn \in Ids : GetConnectionID(conn) /\ AddConnection(conn, h)
  /\ UNCHANGED <<status, net, logic, clients, got, shut, recvQ, sendQ, pushed,
                 wire, history>>

\* uv_tcp_init, uv_accept or uv_read_start fails: the callback returns, the
\* stream object is never freed and the client is never served.
OnConnectionFail(s, h) ==
  /\ Polling
  /\ peer[s] # "idle" /\ s \notin accepted
  /\ handle[h] = "free"
  /\ accepted' = accepted \cup {s}
  /\ handle' = [handle EXCEPT ![h] = "done"]
  /\ owner' = [owner EXCEPT ![h] = s]
  /\ UNCHANGED <<status, net, logic, clients, got, shut, table, recvQ, sendQ,
                 pushed, wire, history>>

\* after_read with nread > 0: the chunk goes to the logic thread.
AfterRead(h) ==
  /\ Polling
  /\ handle[h] = "open"
  /\ got[owner[h]] < sent[owner[h]]
  /\ got' = [got EXCEPT ![owner[h]] = @ + 1]
  /\ PushRecvMessage(h, got[owner[h]] + 1)
  /\ UNCHANGED <<status, net, logic, clients, streams, table, sendQ, pushed,
                 wire, history>>

\* after_read with nread < 0.  An end of file comes after the chunks; a reset
\* or another error loses those not read yet.  Only the other errors ask for
\* a shutdown, whose result is not looked at.  Every one of them queues the
\* null message and then releases the connection.
AfterReadEnd(h) ==
  /\ Polling
  /\ handle[h] = "open"
  /\ peer[owner[h]] \in PeerEnds
  /\ peer[owner[h]] = "eof" => got[owner[h]] = sent[owner[h]]
  /\ handle' = [handle EXCEPT ![h] = "done"]
  /\ \/ /\ peer[owner[h]] = "error"
        /\ shut' = [shut EXCEPT ![h] = TRUE]
     \/ UNCHANGED shut
  /\ Disconnect(h)
  /\ UNCHANGED <<status, net, logic, clients, got, accepted, owner, sendQ,
                 pushed, wire, history>>

\* after_shutdown: uv_close on the handle, nothing else.
AfterShutdown(h) ==
  /\ Polling
  /\ shut[h]
  /\ handle' = [handle EXCEPT ![h] = "closing"]
  /\ shut' = [shut EXCEPT ![h] = FALSE]
  /\ UNCHANGED <<status, net, logic, clients, got, accepted, owner, table,
                 recvQ, sendQ, pushed, wire, history>>

\* on_close: the stream object is freed.
OnClose(h) ==
  /\ Polling
  /\ handle[h] = "closing"
  /\ handle' = [handle EXCEPT ![h] = "free"]
  /\ owner' = [owner EXCEPT ![h] = NoSession]
  /\ UNCHANGED <<status, net, logic, clients, got, accepted, shut, table,
                 recvQ, sendQ, pushed, wire, history>>

-----------------------------------------------------------------------------
(* timer_cb.  Its first half takes at most one message from the queue; its *)
(* second half looks at the status.                                        *)

Alive(h) == handle[h] \in {"open", "done"}

\* GetSendMessage: the oldest message, and the stream m_OnlineID has for it.
Msg == Head(sendQ)
Stream == onlineID[Msg.conn]

PopSendMessage ==
  /\ net = "loop"
  /\ sendQ # <<>>
  /\ sendQ' = Tail(sendQ)

\* The queue is empty.
TickIdle ==
  /\ net = "loop"
  /\ sendQ = <<>>
  /\ net' = "tick"
  /\ UNCHANGED <<status, logic, clients, got, streams, table, recvQ, sendQ,
                 pushed, wire, history>>

\* No stream has the message's id, or its buffer's first byte is 0
\* ("msg is empty"): the message is dropped.
TickDrop ==
  /\ PopSendMessage
  /\ Stream = NoHandle \/ Msg.buf = "zero"
  /\ net' = "tick"
  /\ UNCHANGED <<status, logic, clients, got, streams, table, recvQ, pushed,
                 wire, history>>

\* A null buffer asks for the disconnection of the client; uv_shutdown may
\* fail, and fails on a handle that is shutting down or closing.
TickShutdown ==
  /\ PopSendMessage
  /\ Stream # NoHandle /\ Msg.buf = "null"
  /\ \/ Alive(Stream) /\ shut' = [shut EXCEPT ![Stream] = TRUE]
     \/ UNCHANGED shut
  /\ net' = "tick"
  /\ UNCHANGED <<status, logic, clients, got, accepted, handle, owner, table,
                 recvQ, pushed, wire, history>>

\* uv_write to the stream, whose result is not looked at: it fails on one that
\* is closing or already freed, and may fail on another.
TickWrite ==
  /\ PopSendMessage
  /\ Stream # NoHandle /\ Msg.buf = "text"
  /\ \/ /\ Alive(Stream)
        /\ wire' = [wire EXCEPT ![owner[Stream]] =
                      Append(@, [n |-> Msg.n, to |-> Msg.to])]
     \/ UNCHANGED wire
  /\ net' = "tick"
  /\ UNCHANGED <<status, logic, clients, got, streams, table, recvQ, pushed,
                 history>>

\* Undefined behaviour of the tick: every uv_write leaves libuv a request on
\* a dead stack frame, and a stale entry of m_OnlineID names a freed stream.
\* Apart from going well, the process may crash.
TickCrash ==
  /\ PopSendMessage
  /\ Stream # NoHandle
  /\ \/ Msg.buf = "text"
     \/ Msg.buf = "null" /\ handle[Stream] = "free"
  /\ net' = "crashed"
  /\ UNCHANGED <<status, logic, clients, got, streams, table, recvQ, pushed,
                 wire, history>>

TimerSend == TickIdle \/ TickDrop \/ TickShutdown \/ TickWrite \/ TickCrash

\* Wrong variants: the timer is not armed again; the status is not looked at.
TimerRearm_NotArmed ==
  /\ net = "tick"
  /\ status = "CLOSE"
  /\ net' = "stopping"
  /\ UNCHANGED <<status, logic, clients, got, streams, table, recvQ, sendQ,
                 pushed, wire, history>>
TimerRearm_NoStop ==
  /\ net = "tick"
  /\ net' = "loop"
  /\ UNCHANGED <<status, logic, clients, got, streams, table, recvQ, sendQ,
                 pushed, wire, history>>

\* Stop the loop when the status is CLOSE, else arm the timer again.
TimerRearm ==
  /\ net = "tick"
  /\ net' = IF status = "CLOSE" THEN "stopping" ELSE "loop"
  /\ UNCHANGED <<status, logic, clients, got, streams, table, recvQ, sendQ,
                 pushed, wire, history>>

\* uv_run returns, Start returns, the thread ends.
LoopExit ==
  /\ net = "stopping"
  /\ net' = "exited"
  /\ UNCHANGED <<status, logic, clients, got, streams, table, recvQ, sendQ,
                 pushed, wire, history>>

-----------------------------------------------------------------------------
(* The logic thread.                                                       *)

Serving == logic = "running" /\ net # "crashed"

\* The owner pops a message: a chunk of a client, or its disconnect notice.
GetRecvMessage ==
  /\ Serving
  /\ recvQ # <<>>
  /\ recvQ' = Tail(recvQ)
  /\ LET m == Head(recvQ) IN
       IF m.buf = 0
       THEN /\ client' = [client EXCEPT ![m.conn] = NoSession]
            /\ told' = told \cup {m.from}
            /\ UNCHANGED heard
       ELSE /\ client' = [client EXCEPT ![m.conn] = m.from]
            /\ heard' = [heard EXCEPT ![m.from] = m.buf]
            /\ UNCHANGED told
  /\ UNCHANGED <<status, net, logic, clients, got, streams, table, sendQ,
                 pushed, wire>>

\* Wrong variant of the push: the newest message is sent first.
Enqueue_Front(m) == sendQ' = <<m>> \o sendQ

Enqueue(m) == sendQ' = Append(sendQ, m)

\* The owner answers a client it has heard from and whose disconnect it has
\* not seen.
PushSendMessage(conn, buf) ==
  /\ Serving
  /\ client[conn] # NoSession
  /\ pushed < MaxSends
  /\ pushed' = pushed + 1
  /\ Enqueue([n |-> pushed + 1, conn |-> conn, buf |-> buf,
              to |-> client[conn]])
  /\ UNCHANGED <<status, net, logic, clients, got, streams, table, recvQ, wire,
                 history>>

\* Close: the status is set ...
Close ==
  /\ Serving
  /\ ClosePolicy = "any" \/ (ClosePolicy = "running" /\ status = "RUNING")
  /\ status' = "CLOSE"
  /\ logic' = "joining"
  /\ UNCHANGED <<net, clients, got, streams, table, recvQ, sendQ, pushed, wire,
                 history>>

\* ... and thread_->join() returns when Start has.
Join ==
  /\ logic = "joining"
  /\ net = "exited"
  /\ logic' = "joined"
  /\ UNCHANGED <<status, net, clients, got, streams, table, recvQ, sendQ,
                 pushed, wire, history>>

-----------------------------------------------------------------------------
Clients == \E s \in Sessions :
  \/ Connect(s)
  \/ PeerSend(s)
  \/ \E how \in PeerEnds : PeerEnd(s, how)

Network ==
  \/ StartFail \/ StartListen \/ StartLoad \/ StartStore
  \/ \E s \in Sessions, h \in Handles :
       OnConnection(s, h) \/ OnConnectionFail(s, h)
  \/ \E h \in Handles :
       AfterRead(h) \/ AfterReadEnd(h) \/ AfterShutdown(h) \/ OnClose(h)
  \/ TimerSend \/ TimerRearm \/ LoopExit

Logic ==
  \/ GetRecvMessage
  \/ \E conn \in Ids, buf \in SendBufs : PushSendMessage(conn, buf)
  \/ Close \/ Join

Next == Clients \/ Network \/ Logic

Spec == Init /\ [][Next]_vars

\* The network thread is scheduled, and each iteration of its loop runs the
\* read callbacks that are ready, though a pass of the timer lies between two
\* iterations (strong fairness); the logic thread polls the receive queue.
\* Nothing makes a client act, the logic thread answer, or anybody call Close.
Fairness ==
  /\ WF_vars(StartListen \/ StartLoad \/ StartStore)
  /\ WF_vars(TimerSend) /\ WF_vars(TimerRearm) /\ WF_vars(LoopExit)
  /\ \A h \in Handles :
       SF_vars(AfterRead(h) \/ AfterReadEnd(h))
  /\ WF_vars(GetRecvMessage) /\ WF_vars(Join)

FairSpec == Spec /\ Fairness

-----------------------------------------------------------------------------
(* Properties.                                                             *)

\* The two tables are inverse to each other, and every id ever issued is
\* either online or waits in m_ConnectionID exactly once: GetConnectionID,
\* AddConnection and ReleaseConnection never lose an id, give one to two
\* streams or release one twice.
TablesAgree ==
  /\ \A h \in Handles : onlineStream[h] # 0 => onlineID[onlineStream[h]] = h
  /\ \A c \in Ids : onlineID[c] # NoHandle => onlineStream[onlineID[c]] = c

IdsAccounted ==
  /\ \A c \in Ids :
       (c <= maxId) <=> (onlineID[c] # NoHandle
                         \/ \E i \in 1..Len(freeIds) : freeIds[i] = c)
  /\ \A i \in 1..Len(freeIds) : onlineID[freeIds[i]] = NoHandle
  /\ \A i, j \in 1..Len(freeIds) : i # j => freeIds[i] # freeIds[j]

\* m_OnlineStream and m_OnlineID hold online connections ("online
\* connections", NetFrame.h:80-81): the stream of an entry is open and being
\* read, and the client it carries has not been reported as gone.
OnlineIsOnline ==
  \A c \in Ids : onlineID[c] # NoHandle =>
    /\ handle[onlineID[c]] = "open"
    /\ owner[onlineID[c]] \notin told

\* after_read queues the null message before it releases the id, so the logic
\* thread never hears a new client under an id it still holds for another.
NoSilentTakeover ==
  [][\A c \in Ids : client[c] # NoSession /\ client'[c] # NoSession
       => client'[c] = client[c]]_vars

\* The logic thread hears the chunks of a client in the order they were sent,
\* none missing, and nothing of it after its disconnect notice.
HeardInOrder ==
  [][\A s \in Sessions : heard'[s] # heard[s]
       => heard'[s] = heard[s] + 1 /\ s \notin told]_vars

\* What timer_cb writes to one client respects the order of the
\* PushSendMessage calls.
SendsInOrder ==
  \A s \in Sessions : \A i, j \in 1..Len(wire[s]) :
    i < j => wire[s][i].n < wire[s][j].n

\* A queued message can reach another client than the one it was meant for,
\* because ids are used again; that happens only once the stream of the
\* client it was meant for is out of use.
StrayOnlyAfterEnd ==
  \A s \in Sessions : \A i \in 1..Len(wire[s]) :
    wire[s][i].to # s =>
      \A h \in Handles : owner[h] = wire[s][i].to => handle[h] # "open"

\* An id beyond those issued is used only when all of those are online, so
\* their number never exceeds the largest number of clients at one time.
IdsGrowOnlyWhenAllOnline ==
  [][maxId' > maxId => \A c \in 1..maxId : onlineID[c] # NoHandle]_vars

\* What all this promises the logic thread, without the network thread and its
\* tables: TCPServer implements ClientSessions.
Promise == INSTANCE ClientSessions WITH Ends <- PeerEnds
KeepsPromise == Promise!LinkSpec

Down == net = "crashed" \/ status = "CLOSE"

\* A client that is online and ends its connection is eventually reported to
\* the logic thread, unless the server goes down.
DisconnectReported ==
  \A s \in Sessions :
    (peer[s] \in PeerEnds /\ \E h \in Handles : owner[h] = s /\ handle[h] = "open")
      ~> (s \in told \/ Down)

\* The send queue never holds a message for ever, unless the server goes
\* down: one message per tick drains it.
SendsHandled ==
  \A n \in 1..MaxSends :
    (\E i \in 1..Len(sendQ) : sendQ[i].n = n)
      ~> ((\A i \in 1..Len(sendQ) : sendQ[i].n # n) \/ Down)

\* Close ends the network thread: its join returns, unless the process
\* crashes ("closed", NetFrame.h:22).
CloseReturns == (logic = "joining") ~> (logic = "joined" \/ net = "crashed")
=============================================================================
