----------------------------- MODULE GameServer -----------------------------
(***************************************************************************)
(* The game server (Server/Server/Server.cpp, AppManager, CLogin and the   *)
(* dispatch table of MessageDispatch.hpp): the logic thread of a TCPServer *)
(* takes one chunk for one message, and answers it before it looks for the *)
(* next.  It is built over what TCPServer promises its owner.              *)
(*                                                                         *)
(* What a chunk holds is chosen when the logic thread looks at it.  Since   *)
(* the length in the head is not used, several messages in one chunk, or   *)
(* one in several chunks, are read as anything that fits, or as nothing.   *)
(***************************************************************************)
EXTENDS ClientSessions, MessageHead

CONSTANTS
  Names,      \* lengths of the names in requests
  Vocations,  \* the vocations in requests
  Others,     \* lengths of what else is in a request: fields no handler reads,
              \* or bytes after a 0
  Unknown,    \* commands nobody has registered
  NoRole      \* "no entry"

Registered == {"C2G_Login", "C2G_CreateRole", "C2G_SelectRole"}
Cmds == Registered \cup Unknown

ASSUME SendBufsAssumption == SendBufs = {"text", "zero"}
ASSUME NamesAssumption == Names \subseteq Nat /\ Others \subseteq Nat
ASSUME VocationsAssumption == Vocations \subseteq VocationLens
ASSUME UnknownAssumption == Unknown \cap Registered = {}
ASSUME NoRoleAssumption == NoRole \notin [by : Sessions, name : Names, voc : Vocations]

VARIABLES
  m_Message,   \* the commands with an entry in the dispatch table
  m_UserList,  \* the role an id has created
  todo,        \* replies the running handler has still to send
  at,          \* the id it answers
  down,        \* the process has crashed
  due,         \* history: the replies each client's requests call for
  reply,       \* history: the reply each PushSendMessage sent
  created      \* history: the role each client has created last

app == <<m_Message, m_UserList>>
handler == <<todo, at, due>>
own == <<m_Message, m_UserList, todo, at, down, due, reply, created>>
gameVars == <<linkVars, own>>

ReplyCmds == {"G2C_LoginRet", "G2C_RoleCreateRet", "G2C_RoleList",
              "G2C_RoleChangeScene"}
\* A reply: its command, the length of its body, the name and the vocation it
\* carries (0 for none), and its number among those due to its client.
Replies == [cmd : ReplyCmds, len : Nat, name : Names \cup {0},
            voc : Vocations \cup {0}, k : Nat \ {0}]
Roles == [by : Sessions, name : Names, voc : Vocations]
\* A request; only C2G_CreateRole has a vocation.
Requests == [cmd : Cmds, name : Names, voc : Vocations, other : Others]

GameTypeOK ==
  /\ LinkTypeOK
  /\ m_Message \in SUBSET Cmds
  /\ m_UserList \in [Ids -> Roles \cup {NoRole}]
  /\ todo \in Seq(Replies)
  /\ at \in Ids \cup {0}
  /\ todo # <<>> => at # 0 /\ client[at] # NoSession
  /\ down \in BOOLEAN
  /\ due \in [Sessions -> Seq(Replies)]
  /\ reply \in Seq(Replies)
  /\ Len(reply) = pushed
  /\ created \in [Sessions -> Roles \cup {NoRole}]

\* AppManager::Run has called CLogin::Initialze: its handlers are registered.
GameInit ==
  /\ LinkInit
  /\ m_Message = Registered
  /\ m_UserList = [c \in Ids |-> NoRole]
  /\ todo = <<>>
  /\ at = 0
  /\ down = FALSE
  /\ due = [s \in Sessions |-> <<>>]
  /\ reply = <<>>
  /\ created = [s \in Sessions |-> NoRole]

-----------------------------------------------------------------------------
(* CLogin.  A handler that can parse its message prepares its replies,     *)
(* which SendClient then sends one after the other.                        *)

RequestLen(q) ==
  HeadLen + q.other + CASE q.cmd = "C2G_Login" -> LoginLen(q.name)
                        [] q.cmd = "C2G_CreateRole" -> CreateRoleLen(q.name, q.voc)
                        [] OTHER -> SelectRoleLen

Reply(cmd, len, n, v, k) == [cmd |-> cmd, len |-> len, name |-> n, voc |-> v, k |-> k]

Answer(s, c, replies) ==
  /\ todo' = replies
  /\ at' = c
  /\ due' = [due EXCEPT ![s] = @ \o replies]

HandleLogin(s, c, q) ==
  /\ Answer(s, c,
       <<Reply("G2C_LoginRet", LoginRetLen(q.name), q.name, 0, Len(due[s]) + 1)>>)
  /\ UNCHANGED <<m_UserList, created>>

Role(s, q) == [by |-> s, name |-> q.name, voc |-> q.voc]

\* Wrong variant of the store: an entry that is there stays, as with insert.
StoreRole_Insert(s, c, q) ==
  m_UserList' = [m_UserList EXCEPT ![c] = IF @ = NoRole THEN Role(s, q) ELSE @]

StoreRole(s, c, q) == m_UserList' = [m_UserList EXCEPT ![c] = Role(s, q)]

HandleCreateRole(s, c, q) ==
  /\ StoreRole(s, c, q)
  /\ created' = [created EXCEPT ![s] = Role(s, q)]
  /\ Answer(s, c,
       <<Reply("G2C_RoleCreateRet", RoleCreateRetLen, 0, 0, Len(due[s]) + 1),
         Reply("G2C_RoleList", RoleListLen(q.name, q.voc), q.name, q.voc,
               Len(due[s]) + 2)>>)

\* Whether the client has logged in or has a role is not looked at.
HandleSelectRole(s, c) ==
  /\ Answer(s, c, <<Reply("G2C_RoleChangeScene", ChangeSceneLen, 0, 0, Len(due[s]) + 1)>>)
  /\ UNCHANGED <<m_UserList, created>>

-----------------------------------------------------------------------------
(* AppManager::RecivedMessage.                                             *)

\* Wrong variant: replies may still be on their way.
Idle_AnyTime == ~down

\* The handler of the last message has returned.
Idle == todo = <<>> /\ ~down

\* DispatchMessageHandle: operator[] leaves an empty entry for a command
\* nobody has registered.
Dispatch(s, c, q) ==
  \/ /\ q.cmd = "C2G_Login"
     /\ HandleLogin(s, c, q)
     /\ UNCHANGED m_Message
  \/ /\ q.cmd = "C2G_CreateRole"
     /\ HandleCreateRole(s, c, q)
     /\ UNCHANGED m_Message
  \/ /\ q.cmd = "C2G_SelectRole"
     /\ HandleSelectRole(s, c)
     /\ UNCHANGED m_Message
  \/ /\ q.cmd \in Unknown
     /\ m_Message' = m_Message \cup {q.cmd}
     /\ UNCHANGED <<m_UserList, handler, created>>

\* A request that is one chunk: Parse rejects it, or it goes to its handler.
Read(s, c, q) ==
  /\ Parses(RequestLen(q))
  /\ Dispatch(s, c, q)

\* A chunk Parse rejects, or whose body the handler cannot parse: one with a
\* field cut short by a 0 (the conversion of char* to std::string ends there),
\* one that is followed by another message, or is not complete.
Ignore == UNCHANGED <<app, handler, created>>

\* A chunk of client s.  None is longer than the 65536 bytes libuv reads.
Handle(s, c) ==
  /\ Idle
  /\ \/ Ignore
     \/ \E q \in Requests : RequestLen(q) <= U16 /\ Read(s, c, q)
  /\ UNCHANGED <<down, reply>>

RecivedMessage(s, c) == HearChunk(s, c) /\ Handle(s, c)

\* The end of client s: UserLoginOut does nothing.
UserLoginOut(s, c) == HearEnd(s, c) /\ Idle /\ UNCHANGED own

-----------------------------------------------------------------------------
(* AppManager::SendClient.                                                 *)

\* Wrong variant: the last of the replies is sent first.
NextReply_Last == todo[Len(todo)]
NextReply == Head(todo)

Buf(r) == IF FirstByte(r.len) = 0 THEN "zero" ELSE "text"

\* Pack.  A message whose length wraps is written past the end of its buffer,
\* after which the process may go on or crash.
PackReply ==
  /\ todo # <<>> /\ ~down
  /\ reply' = Append(reply, NextReply)
  /\ todo' = Tail(todo)
  /\ \/ UNCHANGED down
     \/ Written(NextReply.len) > Total(NextReply.len) + 1 /\ down' = TRUE
  /\ UNCHANGED <<app, at, due, created>>

SendClient == PackReply /\ PushSendMessage(at, Buf(NextReply))

-----------------------------------------------------------------------------
GameNext ==
  \/ \E s \in Sessions, c \in Ids : RecivedMessage(s, c) \/ UserLoginOut(s, c)
  \/ SendClient
  \/ ~down /\ Outside /\ UNCHANGED own

GameSpec == GameInit /\ [][GameNext]_gameVars

-----------------------------------------------------------------------------
(* Properties.                                                             *)

\* m_UserList is keyed by connection id and nothing is ever taken out of it,
\* so an id may hold the role of a client long gone.  A client that is online
\* and has created a role still finds its own, the last one, under its id.
RoleOfClient ==
  \A c \in Ids : client[c] # NoSession /\ created[client[c]] # NoRole
    => m_UserList[c] = created[client[c]]

\* Of the replies a client gets, those meant for it answer its own requests in
\* the order it made them, each at most once (RoleCreateRet before RoleList),
\* though any of them may be lost and chunks may be misread.
AnswersInOrder ==
  \A s \in Sessions : \A i, j \in 1..Len(wire[s]) :
    wire[s][i].to = s =>
      /\ reply[wire[s][i].n] = due[s][reply[wire[s][i].n].k]
      /\ i < j /\ wire[s][j].to = s
           => reply[wire[s][i].n].k < reply[wire[s][j].n].k

\* Pack's 16 bits hold the length of every reply but that of a RoleList whose
\* name and vocation take up 65481 bytes or more, as do a name of 65479 bytes
\* with a vocation below 128 and one of 65470 with a vocation from 2^31 on: the
\* head of each other message gives its length.  Only the first four of these
\* lengths can bring the process down: from there on the length of the body
\* wraps too, and no more is written than was allocated.
RoleText(r) == r.name + CareerField(r.voc)
LongRoleList(r) == r.cmd = "G2C_RoleList" /\ RoleText(r) >= 65481

PackRight ==
  /\ \A i \in 1..Len(reply) :
       Total(reply[i].len) = HeadLen + reply[i].len <=> ~LongRoleList(reply[i])
  /\ down => \E i \in 1..Len(reply) :
       LongRoleList(reply[i]) /\ RoleText(reply[i]) <= 65484
=============================================================================
