-------------------------- MODULE GameSystemProofs --------------------------
(***************************************************************************)
(* The game server over the real network thread implements the game server *)
(* over what that thread promises, so that what is proved of the latter    *)
(* holds of the whole program.  The invariants of uv::TCPServer come from   *)
(* its own proofs, taken for a server that is never closed.                *)
(***************************************************************************)
EXTENDS GameSystem, GameServerProofs

\* Net, the server of GameSystem, with what is proved about it.
Server == INSTANCE TCPServerPromiseProofs WITH ClosePolicy <- "never"

-----------------------------------------------------------------------------
(* The server of GameSystem is the one the theorems are about.             *)

LEMMA SameInit == Net!Init => Server!Init
BY DEF Net!Init, Server!Init, Net!Ids, Server!Ids

LEMMA SameClients == Net!Clients => Server!Clients
BY DEF Net!Clients, Net!Connect, Net!PeerSend, Net!PeerEnd, Net!Listening,
   Net!PeerEnds, Net!streams, Net!table, Net!history,
   Server!Clients, Server!Connect, Server!PeerSend, Server!PeerEnd, Server!Listening,
   Server!PeerEnds, Server!streams, Server!table, Server!history

LEMMA SameHear == Net!GetRecvMessage => Server!GetRecvMessage
BY DEF Net!GetRecvMessage, Net!Serving, Net!clients, Net!streams, Net!table,
   Server!GetRecvMessage, Server!Serving, Server!clients, Server!streams, Server!table

LEMMA SamePush ==
  ASSUME NEW c, NEW buf, Net!PushSendMessage(c, buf)
  PROVE  Server!PushSendMessage(c, buf)
BY DEF Net!PushSendMessage, Net!Serving, Net!Enqueue, Net!clients, Net!streams,
   Net!table, Net!history,
   Server!PushSendMessage, Server!Serving, Server!Enqueue, Server!clients, Server!streams,
   Server!table, Server!history

LEMMA SameStart ==
  Net!StartFail \/ Net!StartListen \/ Net!StartLoad \/ Net!StartStore
    => Server!StartFail \/ Server!StartListen \/ Server!StartLoad \/ Server!StartStore
BY DEF Net!StartFail, Net!StartListen, Net!StartLoad, Net!StartStore,
   Net!clients, Net!streams, Net!table, Net!history,
   Server!StartFail, Server!StartListen, Server!StartLoad, Server!StartStore,
   Server!clients, Server!streams, Server!table, Server!history

LEMMA SameAccept ==
  ASSUME NEW s, NEW h, Net!OnConnection(s, h) \/ Net!OnConnectionFail(s, h)
  PROVE  Server!OnConnection(s, h) \/ Server!OnConnectionFail(s, h)
BY DEF Net!OnConnection, Net!OnConnectionFail, Net!Polling, Net!GetConnectionID,
   Net!TakeReleasedID, Net!AddConnection, Net!Ids,
   Net!clients, Net!table, Net!history,
   Server!OnConnection, Server!OnConnectionFail, Server!Polling, Server!GetConnectionID,
   Server!TakeReleasedID, Server!AddConnection, Server!Ids,
   Server!clients, Server!table, Server!history

LEMMA SameRead ==
  ASSUME NEW h, Net!AfterRead(h) \/ Net!AfterReadEnd(h)
  PROVE  Server!AfterRead(h) \/ Server!AfterReadEnd(h)
BY DEF Net!AfterRead, Net!AfterReadEnd, Net!Polling, Net!PushRecvMessage, Net!RecvMsg,
   Net!Disconnect, Net!ReleaseConnection, Net!ReleaseID, Net!Ids, Net!PeerEnds,
   Net!clients, Net!streams, Net!table, Net!history,
   Server!AfterRead, Server!AfterReadEnd, Server!Polling, Server!PushRecvMessage,
   Server!RecvMsg, Server!Disconnect, Server!ReleaseConnection, Server!ReleaseID,
   Server!Ids, Server!PeerEnds, Server!clients, Server!streams, Server!table, Server!history

LEMMA SameClose ==
  ASSUME NEW h, Net!AfterShutdown(h) \/ Net!OnClose(h)
  PROVE  Server!AfterShutdown(h) \/ Server!OnClose(h)
BY DEF Net!AfterShutdown, Net!OnClose, Net!Polling, Net!clients, Net!table, Net!history,
   Server!AfterShutdown, Server!OnClose, Server!Polling, Server!clients, Server!table,
   Server!history

LEMMA SameTimer ==
  Net!TimerSend \/ Net!TimerRearm \/ Net!LoopExit
    => Server!TimerSend \/ Server!TimerRearm \/ Server!LoopExit
BY DEF Net!TimerSend, Net!TimerRearm, Net!LoopExit, Net!TickIdle, Net!TickDrop,
   Net!TickShutdown, Net!TickWrite, Net!TickCrash, Net!PopSendMessage, Net!Alive,
   Net!Msg, Net!Stream, Net!clients, Net!streams, Net!table, Net!history,
   Server!TimerSend, Server!TimerRearm, Server!LoopExit, Server!TickIdle, Server!TickDrop,
   Server!TickShutdown, Server!TickWrite, Server!TickCrash, Server!PopSendMessage,
   Server!Alive, Server!Msg, Server!Stream, Server!clients, Server!streams, Server!table,
   Server!history

LEMMA SameNetwork == Net!Network => Server!Network
<1>1. ASSUME NEW s \in Sessions, NEW h \in Handles,
             Net!OnConnection(s, h) \/ Net!OnConnectionFail(s, h)
      PROVE  Server!Network
  BY <1>1, SameAccept DEF Server!Network
<1>2. ASSUME NEW h \in Handles,
             Net!AfterRead(h) \/ Net!AfterReadEnd(h) \/ Net!AfterShutdown(h) \/ Net!OnClose(h)
      PROVE  Server!Network
  BY <1>2, SameRead, SameClose DEF Server!Network
<1> QED BY <1>1, <1>2, SameStart, SameTimer DEF Net!Network, Server!Network
-----------------------------------------------------------------------------
(* The invariants of the server, carried over to the system.               *)

\* What TCPServer assumes of its constants follows from what GameSystem does.
LEMMA ServerConstants ==
  /\ NoSession \notin Sessions /\ NoHandle \notin Handles
  /\ MaxConn \in Nat /\ MaxChunks \in Nat /\ MaxSends \in Nat
  /\ SendBufs \subseteq {"text", "zero", "null"}
  /\ "never" \in {"never", "running", "any"}
  /\ Server!NoNull
BY PromiseAssumption, NoHandleAssumption, SendBufsAssumption DEF Server!NoNull

\* Answers are sent to an id the logic thread knows, in one of the two kinds of
\* buffer.
LEMMA ReplySent ==
  ASSUME GameTypeOK, SendReply
  PROVE  at \in Ids /\ Buf(NextReply) \in SendBufs
BY SendBufsAssumption DEF GameTypeOK, SendReply, PackReply, Buf

\* Each step of the system is one of the server.
LEMMA ServerStep ==
  ASSUME GameTypeOK, [SysNext]_sysVars
  PROVE  [Server!Next]_(Server!vars)
<1>1. CASE TakeMessage
  BY <1>1, SameHear DEF TakeMessage, Server!Next, Server!Logic
<1>2. CASE SendReply
  <2>1. Server!PushSendMessage(at, Buf(NextReply))
    BY <1>2, SamePush DEF SendReply
  <2>2. at \in Server!Ids /\ Buf(NextReply) \in SendBufs
    BY <1>2, ReplySent DEF Ids, Server!Ids
  <2> QED BY <2>1, <2>2 DEF Server!Next, Server!Logic
<1>3. CASE Background
  BY <1>3, SameClients, SameNetwork DEF Background, Server!Next
<1>4. CASE UNCHANGED sysVars
  BY <1>4 DEF sysVars, Net!vars, Server!vars
<1> QED BY <1>1, <1>2, <1>3, <1>4 DEF SysNext

-----------------------------------------------------------------------------
(* Its promise, in the names of GameServer.                                *)

LEMMA PromiseChunk ==
  ASSUME NEW s, NEW c, Server!Promise!HearChunk(s, c) PROVE HearChunk(s, c)
BY DEF Server!Promise!HearChunk, Server!Promise!KnownAs, Server!Promise!Ids,
   Server!Promise!clients, Server!Promise!sending, HearChunk, KnownAs, Ids, clients, sending

LEMMA PromiseNotice ==
  ASSUME NEW s, NEW c, Server!Promise!HearEnd(s, c) PROVE HearEnd(s, c)
BY EndsAssumption
   DEF Server!Promise!HearEnd, Server!Promise!KnownAs, Server!Promise!Ids, Server!PeerEnds,
   Server!Promise!clients, Server!Promise!sending, HearEnd, KnownAs, Ids, clients, sending

LEMMA PromiseAccepts ==
  ASSUME NEW c, NEW buf, Server!Promise!PushSendMessage(c, buf)
  PROVE  PushSendMessage(c, buf)
BY DEF Server!Promise!PushSendMessage, Server!Promise!clients, Server!Promise!owners,
   PushSendMessage, clients, owners

LEMMA PromiseElse == Server!Promise!Outside => Outside
BY EndsAssumption
   DEF Server!Promise!Outside, Server!Promise!Connect, Server!Promise!PeerSend,
   Server!Promise!PeerEnd, Server!Promise!Deliver, Server!Promise!Lose, Server!PeerEnds,
   Server!Promise!clients, Server!Promise!owners, Server!Promise!sending,
   Outside, Connect, PeerSend, PeerEnd, Deliver, Lose, clients, owners, sending

-----------------------------------------------------------------------------
(* The refinement.                                                         *)

\* Each round of the logic thread, on a queue the network thread fills, is one
\* of GameServer.
LEMMA TakenIsReceived ==
  ASSUME Server!ServerInv, TakeMessage
  PROVE  \E s \in Sessions, c \in Ids : RecivedMessage(s, c) \/ UserLoginOut(s, c)
<1> PICK m : m = Head(recvQ)
  OBVIOUS
<1>1. /\ m.from \in Sessions /\ m.conn \in Ids
      /\ m.buf # 0 => HearChunk(m.from, m.conn)
      /\ m.buf = 0 => HearEnd(m.from, m.conn)
  <2>1. Server!GetRecvMessage
    BY SameHear DEF TakeMessage
  <2>2. Ids = Server!Ids
    BY DEF Ids, Server!Ids
  <2>3. /\ m.from \in Sessions /\ m.conn \in Server!Ids
        /\ m.buf # 0 => Server!Promise!HearChunk(m.from, m.conn)
        /\ m.buf = 0 => Server!Promise!HearEnd(m.from, m.conn)
    BY <2>1, ServerConstants, Server!PromiseHear DEF Server!ServerInv
  <2> QED BY <2>2, <2>3, PromiseChunk, PromiseNotice
<1>2. IF m.buf = 0 THEN Idle /\ UNCHANGED own ELSE Handle(m.from, m.conn)
  BY DEF TakeMessage
<1> QED BY <1>1, <1>2 DEF RecivedMessage, UserLoginOut

LEMMA SentIsSent == ASSUME GameTypeOK, SendReply PROVE SendClient
<1>1. Server!PushSendMessage(at, Buf(NextReply)) /\ at \in Server!Ids
      /\ Buf(NextReply) \in SendBufs
  BY SamePush, ReplySent DEF SendReply, Ids, Server!Ids
<1>2. PushSendMessage(at, Buf(NextReply))
  BY <1>1, ServerConstants, Server!PromisePush, PromiseAccepts
<1> QED BY <1>2 DEF SendReply, SendClient

LEMMA BackgroundIsOutside ==
  ASSUME Server!ServerInv, Background
  PROVE  (~down /\ Outside /\ UNCHANGED own) \/ UNCHANGED gameVars
<1>1. Server!Clients \/ Server!Network
  BY SameClients, SameNetwork DEF Background
<1>2. Server!Promise!Outside \/ UNCHANGED Server!Promise!linkVars
  BY <1>1, ServerConstants, Server!PromiseOutside DEF Server!ServerInv
<1> QED BY <1>2, PromiseElse DEF Background, gameVars, linkVars, Server!Promise!linkVars

LEMMA SysStep ==
  ASSUME GameTypeOK, Server!ServerInv, [SysNext]_sysVars
  PROVE  [GameNext]_gameVars
<1>1. CASE TakeMessage
  BY <1>1, TakenIsReceived DEF GameNext
<1>2. CASE SendReply
  BY <1>2, SentIsSent DEF GameNext
<1>3. CASE Background
  BY <1>3, BackgroundIsOutside DEF GameNext
<1>4. CASE UNCHANGED sysVars
  BY <1>4 DEF sysVars, Net!vars, gameVars, linkVars
<1> QED BY <1>1, <1>2, <1>3, <1>4 DEF SysNext

\* The type invariant of the logic thread and the invariant of the server
\* are inductive together: a reply goes to an id because of the first, and
\* the message the logic thread takes is one it may hear because of the other.
LEMMA SysInvInit == SysInit => GameTypeOK /\ Server!ServerInv
BY SameInit, GameTypeInit, ServerConstants, Server!ServerInvInit DEF SysInit

LEMMA SysInvStep ==
  ASSUME GameTypeOK, Server!ServerInv, [SysNext]_sysVars
  PROVE  GameTypeOK' /\ Server!ServerInv'
BY SysStep, GameTypeStep, ServerStep, ServerConstants, Server!ServerInvStep

\* The logic thread over the real network thread shows a client nothing that
\* it would not show over ClientSessions: for any number of clients, streams,
\* ids and messages, no interleaving of timer_cb, after_read and the rounds of
\* _tmain takes a message out of turn or answers under an id nobody has.
THEOREM SystemPlaysGame == SysSpec => PlaysGame
<1>1. SysInit => GameInit
  BY DEF SysInit
<1>2. GameTypeOK /\ Server!ServerInv /\ [SysNext]_sysVars
        => [GameNext]_gameVars /\ GameTypeOK' /\ Server!ServerInv'
  BY SysStep, SysInvStep
<1> QED BY <1>1, <1>2, SysInvInit, PTL DEF SysSpec, PlaysGame, GameSpec

\* Of the running server as a whole: a client that is online and has created a
\* role finds its own under its id, though ids are used again and m_UserList
\* keeps the roles of clients that are gone (CLogin.cpp:105).
THEOREM SystemRoles == SysSpec => []RoleOfClient
BY SystemPlaysGame, RolesFollowClients, PTL DEF PlaysGame

\* And of what timer_cb writes to the streams: the answers meant for a client
\* answer its own requests, in the order it made them, none twice.
THEOREM SystemAnswers == SysSpec => []AnswersInOrder
BY SystemPlaysGame, AnswersFollowRequests, PTL DEF PlaysGame

\* And of the heads of the messages it sends, and of the one reply that can
\* bring it down in SendClient.
THEOREM SystemHeads == SysSpec => []PackRight
BY SystemPlaysGame, HeadsRight, PTL DEF PlaysGame
=============================================================================
