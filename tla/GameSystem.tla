----------------------------- MODULE GameSystem -----------------------------
(***************************************************************************)
(* The whole game server: the logic thread of GameServer owns the          *)
(* uv::TCPServer of NetFrame.cpp, network thread, streams, tables and      *)
(* queues included.  One round of the loop of _tmain (Server/Server/       *)
(* Server.cpp) takes at most one message from m_RecvMessage and answers it *)
(* through m_SendMessage.  That this is GameServer, where the network      *)
(* thread is only what it promises, is a property to check.                *)
(***************************************************************************)
EXTENDS GameServer

CONSTANTS
  Handles,   \* addresses of uv_stream_t objects
  NoHandle   \* "no stream"

VARIABLES
  \* the network thread's side of TCPServer
  status, net, logic, got, accepted, handle, shut, owner, onlineStream,
  onlineID, freeIds, maxId, recvQ

\* The server object of _tmain, which never closes it: nothing sets the status
\* its loop ends at.
Net == INSTANCE TCPServer WITH ClosePolicy <- "never"

ASSUME NoHandleAssumption == NoHandle \notin Handles
ASSUME EndsAssumption == Ends = {"eof", "reset", "error"}

sysVars == <<Net!vars, own>>

SysInit == GameInit /\ Net!Init

\* A message is taken from the queue: RecivedMessage takes a null one for the
\* end of its client.
TakeMessage ==
  /\ Net!GetRecvMessage
  /\ LET msg == Head(recvQ) IN
       IF msg.buf = 0 THEN Idle /\ UNCHANGED own ELSE Handle(msg.from, msg.conn)

\* The next reply of the running handler is packed and put into the queue.
SendReply == PackReply /\ Net!PushSendMessage(at, Buf(NextReply))

\* The network thread and the clients, as long as the process lives: either
\* thread may bring it down.
Background ==
  /\ ~down /\ net # "crashed"
  /\ Net!Clients \/ Net!Network
  /\ UNCHANGED own

SysNext == TakeMessage \/ SendReply \/ Background

SysSpec == SysInit /\ [][SysNext]_sysVars

-----------------------------------------------------------------------------
\* The game server over the network thread is the game server over what that
\* thread promises: no interleaving of the two shows a client anything else.
PlaysGame == GameSpec
=============================================================================
