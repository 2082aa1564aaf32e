-------------------------- MODULE GameServerProofs --------------------------
(***************************************************************************)
(* Proofs about GameServer, for any clients, names, vocations, unknown     *)
(* commands and bounds.                                                    *)
(***************************************************************************)
EXTENDS GameServer, TLAPS

LEMMA AppendFacts ==
  ASSUME NEW S, NEW q \in Seq(S), NEW e \in S
  PROVE  /\ Append(q, e) \in Seq(S)
         /\ Len(Append(q, e)) = Len(q) + 1
         /\ \A i \in 1..Len(q) : Append(q, e)[i] = q[i]
         /\ Append(q, e)[Len(q) + 1] = e
OBVIOUS

LEMMA TailFacts ==
  ASSUME NEW S, NEW q \in Seq(S), q # <<>>
  PROVE  /\ Head(q) \in S /\ Head(q) = q[1] /\ Len(q) >= 1
         /\ Tail(q) \in Seq(S)
         /\ Len(Tail(q)) = Len(q) - 1
         /\ \A i \in 1..Len(Tail(q)) : Tail(q)[i] = q[i + 1]
OBVIOUS

-----------------------------------------------------------------------------
(* Types, first of the link to the clients.                                *)

LEMMA OutsideType ==
  ASSUME LinkTypeOK, Outside
  PROVE  LinkTypeOK' /\ UNCHANGED <<owners, pushed>>
  <1> USE PromiseAssumption DEF LinkTypeOK, clients, owners, sending
  <1>1. ASSUME NEW s \in Sessions, Connect(s) PROVE LinkTypeOK' /\ UNCHANGED <<owners, pushed>>
    BY <1>1 DEF Connect
  <1>2. ASSUME NEW s \in Sessions, PeerSend(s) PROVE LinkTypeOK' /\ UNCHANGED <<owners, pushed>>
    <2>1. sent' \in [Sessions -> 0..MaxChunks]
      BY <1>2 DEF PeerSend
    <2> QED BY <1>2, <2>1 DEF PeerSend
  <1>3. ASSUME NEW s \in Sessions, NEW how \in Ends, PeerEnd(s, how)
        PROVE  LinkTypeOK' /\ UNCHANGED <<owners, pushed>>
    BY <1>3 DEF PeerEnd
  <1>4. ASSUME sendQ # <<>>, sendQ' = Tail(sendQ)
        PROVE  sendQ' \in Seq(SendMsgs) /\ Head(sendQ) \in SendMsgs
    BY <1>4, TailFacts
  <1>5. ASSUME NEW s \in Sessions, Deliver(s) PROVE LinkTypeOK' /\ UNCHANGED <<owners, pushed>>
    <2> DEFINE W == [n : 1..MaxSends, to : Sessions]
               e == [n |-> Head(sendQ).n, to |-> Head(sendQ).to]
    <2>1. e \in W /\ wire[s] \in Seq(W) /\ sendQ' \in Seq(SendMsgs)
      BY <1>4, <1>5 DEF Deliver, SendMsgs
    <2>2. Append(wire[s], e) \in Seq(W)
      BY <2>1, AppendFacts
    <2>3. wire' = [wire EXCEPT ![s] = Append(wire[s], e)]
      BY <1>5 DEF Deliver
    <2>4. wire' \in [Sessions -> Seq(W)]
      BY <2>2, <2>3
    <2> QED BY <1>5, <2>1, <2>4 DEF Deliver
  <1>6. CASE Lose
    BY <1>4, <1>6 DEF Lose
  <1> QED BY <1>1, <1>2, <1>3, <1>5, <1>6 DEF Outside

LEMMA HearType ==
  ASSUME LinkTypeOK, NEW s \in Sessions, NEW c \in Ids, HearChunk(s, c) \/ HearEnd(s, c)
  PROVE  LinkTypeOK' /\ UNCHANGED <<clients, sending>>
  <1> USE PromiseAssumption DEF LinkTypeOK, clients, sending
  <1>1. CASE HearChunk(s, c)
    <2>1. heard[s] + 1 \in 0..MaxChunks
      BY <1>1 DEF HearChunk
    <2> QED BY <1>1, <2>1 DEF HearChunk
  <1>2. CASE HearEnd(s, c)
    BY <1>2 DEF HearEnd
  <1> QED BY <1>1, <1>2

LEMMA PushType ==
  ASSUME LinkTypeOK, NEW c \in Ids, NEW buf \in SendBufs, PushSendMessage(c, buf)
  PROVE  /\ LinkTypeOK' /\ pushed' = pushed + 1 /\ UNCHANGED <<clients, owners, wire>>
         /\ pushed + 1 \in 1..MaxSends
  <1> USE PromiseAssumption DEF LinkTypeOK, clients, owners
  <1> DEFINE m == [n |-> pushed + 1, conn |-> c, buf |-> buf, to |-> client[c]]
  <1>1. m \in SendMsgs /\ pushed + 1 \in 1..MaxSends
    BY DEF PushSendMessage, SendMsgs
  <1>2. sendQ' = Append(sendQ, m)
    BY DEF PushSendMessage
  <1>3. sendQ' \in Seq(SendMsgs)
    BY <1>1, <1>2, AppendFacts
  <1>4. pushed' = pushed + 1 /\ UNCHANGED <<peer, sent, client, heard, told, wire>>
    BY DEF PushSendMessage
  <1>5. pushed' \in 0..MaxSends
    BY <1>1, <1>4
  <1> HIDE DEF m
  <1> QED BY <1>1, <1>3, <1>4, <1>5

-----------------------------------------------------------------------------
(* The replies a handler prepares.                                         *)

LEMMA NameRange ==
  ASSUME NEW n \in Names
  PROVE  n \in Nat
  BY NamesAssumption

LEMMA VocationRange ==
  ASSUME NEW v \in Vocations
  PROVE  VocationField(v) \in 0..6 /\ CareerField(v) \in 2..11
  BY VocationsAssumption DEF VocationLens, VocationField, CareerField

LEMMA NameLengths ==
  ASSUME NEW n \in Nat
  PROVE  /\ StringField(n) \in Nat /\ NameField(n) \in Nat
         /\ n >= 16384 => StringField(n) = n + 4
         /\ n < 16384 => StringField(n) <= n + 3
         /\ n > 0 => NameField(n) = StringField(n)
  BY DEF StringField, NameField, VarintLen

LEMMA Lengths ==
  ASSUME NEW n \in Nat, NEW v \in Vocations
  PROVE  /\ LoginRetLen(n) \in Nat /\ RoleListLen(n, v) \in Nat
         /\ RoleCreateRetLen \in Nat /\ ChangeSceneLen \in Nat
         /\ n >= 16384 => RoleListLen(n, v) = n + CareerField(v) + 51
         /\ n < 16384 => RoleListLen(n, v) <= n + CareerField(v) + 50
  BY NameLengths, VocationRange DEF LoginRetLen, RoleListLen, RoleCreateRetLen, ChangeSceneLen

\* Pack writes past the end of what it has allocated.
Overruns(l) == Written(l) > Total(l) + 1

LEMMA TotalRight ==
  ASSUME NEW l \in Nat
  PROVE  /\ l <= 65531 => Total(l) = HeadLen + l
         /\ l > 65531 => Total(l) # HeadLen + l
  BY DEF Total, HeadLen, U16

\* From 65536 bytes on the length of the body wraps before it is added.
LEMMA OverrunsWhere ==
  ASSUME NEW l \in Nat, l < 2 * U16 - HeadLen, Overruns(l)
  PROVE  l \in 65532..65535
  BY DEF Overruns, Written, Total, HeadLen, U16

\* A chunk is no longer than the 65536 bytes libuv may read at once, so nor is
\* the name in it; and Parse takes a chunk of 65536 for an empty message.
LEMMA RequestFits ==
  ASSUME NEW q \in Requests, RequestLen(q) <= U16
  PROVE  /\ q.name \in Nat /\ q.voc \in Vocations
         /\ q.cmd = "C2G_CreateRole" => q.name <= U16
         /\ q.cmd = "C2G_Login" /\ Parses(RequestLen(q)) => LoginRetLen(q.name) <= 65531
  <1> DEFINE n == q.name  o == q.other  f == NameField(n)  v == VocationField(q.voc)
  <1>1. q.name \in Nat /\ q.voc \in Vocations /\ n \in Nat /\ o \in Nat
    BY NamesAssumption DEF Requests
  <1>2. f \in Nat /\ v \in Nat /\ LoginRetLen(n) \in Nat
    BY <1>1, NameLengths, VocationRange DEF LoginRetLen
  <1>3. n = 0 \/ (LoginRetLen(n) = f /\ n <= f)
    BY <1>1, NameLengths DEF LoginRetLen, StringField, VarintLen
  <1>4. n = 0 => LoginRetLen(n) = 2
    BY DEF LoginRetLen, StringField, VarintLen
  <1>5. ASSUME q.cmd = "C2G_CreateRole" PROVE q.name <= U16
    <2>1. RequestLen(q) = HeadLen + o + (v + f)
      BY <1>5 DEF RequestLen, CreateRoleLen
    <2> HIDE DEF o, f, v
    <2> QED BY <1>1, <1>2, <1>3, <2>1 DEF HeadLen, U16
  <1>6. ASSUME q.cmd = "C2G_Login", Parses(RequestLen(q)) PROVE LoginRetLen(q.name) <= 65531
    <2>1. RequestLen(q) = HeadLen + o + f
      BY <1>6 DEF RequestLen, LoginLen
    <2> HIDE DEF o, f
    <2>2. HeadLen + o + f <= U16 /\ (HeadLen + o + f) % U16 > HeadLen
      BY <1>6, <2>1 DEF Parses
    <2>3. o + f \in Nat /\ o + f <= 65531
      BY <1>1, <1>2, <2>2 DEF HeadLen, U16
    <2>4. f <= 65531
      BY <1>1, <1>2, <2>3
    <2> QED BY <1>2, <1>3, <1>4, <2>4
  <1> QED BY <1>1, <1>5, <1>6

HeadRight(r) ==
  /\ Total(r.len) = HeadLen + r.len <=> ~LongRoleList(r)
  /\ Overruns(r.len) => LongRoleList(r) /\ RoleText(r) <= 65484

LEMMA ReplyFields ==
  ASSUME NEW C \in ReplyCmds, NEW l \in Nat, NEW x \in Names \cup {0},
         NEW v \in Vocations \cup {0}, NEW j \in Nat \ {0}
  PROVE  /\ Reply(C, l, x, v, j) \in Replies /\ Reply(C, l, x, v, j).k = j
         /\ Reply(C, l, x, v, j).cmd = C /\ Reply(C, l, x, v, j).len = l
         /\ Reply(C, l, x, v, j).name = x /\ Reply(C, l, x, v, j).voc = v
  BY DEF Reply, Replies

LEMMA SmallReply ==
  ASSUME NEW C \in ReplyCmds, C # "G2C_RoleList", NEW l \in Nat, l <= 65531,
         NEW x \in Names \cup {0}, NEW j \in Nat \ {0}
  PROVE  /\ Reply(C, l, x, 0, j) \in Replies /\ Reply(C, l, x, 0, j).k = j
         /\ HeadRight(Reply(C, l, x, 0, j))
  <1>1. /\ Reply(C, l, x, 0, j) \in Replies /\ Reply(C, l, x, 0, j).k = j
        /\ Reply(C, l, x, 0, j).cmd = C /\ Reply(C, l, x, 0, j).len = l
    <2>1. 0 \in Vocations \cup {0}
      OBVIOUS
    <2> QED BY <2>1, ReplyFields
  <1>2. Total(l) = HeadLen + l
    BY TotalRight
  <1>3. ~Overruns(l)
    BY OverrunsWhere DEF U16, HeadLen
  <1> QED BY <1>1, <1>2, <1>3 DEF HeadRight, LongRoleList

LEMMA NamelessReply ==
  ASSUME NEW C \in ReplyCmds, C # "G2C_RoleList", NEW l \in Nat, l <= 65531,
         NEW j \in Nat \ {0}
  PROVE  /\ Reply(C, l, 0, 0, j) \in Replies /\ Reply(C, l, 0, 0, j).k = j
         /\ HeadRight(Reply(C, l, 0, 0, j))
  <1>1. PICK x \in Names \cup {0} : x = 0
    OBVIOUS
  <1>2. /\ Reply(C, l, x, 0, j) \in Replies /\ Reply(C, l, x, 0, j).k = j
        /\ HeadRight(Reply(C, l, x, 0, j))
    BY SmallReply
  <1> QED BY <1>1, <1>2

LEMMA ListReply ==
  ASSUME NEW n \in Names, n <= U16, NEW v \in Vocations, NEW j \in Nat \ {0}
  PROVE  LET q == Reply("G2C_RoleList", RoleListLen(n, v), n, v, j) IN
         q \in Replies /\ q.k = j /\ HeadRight(q)
  <1> DEFINE l == RoleListLen(n, v)
             q == Reply("G2C_RoleList", l, n, v, j)
             t == n + CareerField(v)
  <1>1. n \in Nat /\ l \in Nat /\ CareerField(v) \in 2..11 /\ t \in Nat
    BY NameRange, VocationRange, Lengths
  <1>2. /\ q \in Replies /\ q.k = j /\ q.cmd = "G2C_RoleList" /\ q.len = l
        /\ q.name = n /\ q.voc = v
    BY <1>1, ReplyFields DEF ReplyCmds
  <1>3. (n >= 16384 => l = t + 51) /\ (n < 16384 => l <= t + 50 /\ t <= 16395)
    BY <1>1, Lengths
  <1>4. t <= U16 + 11
    BY <1>1 DEF U16
  <1>5. LongRoleList(q) <=> t >= 65481
    BY <1>2 DEF LongRoleList, RoleText
  <1>6. RoleText(q) = t
    BY <1>2 DEF RoleText
  <1> HIDE DEF l, q, t
  <1>7. l <= 65531 <=> ~(t >= 65481)
    BY <1>1, <1>3
  <1>8. Total(l) = HeadLen + l <=> ~(t >= 65481)
    BY <1>1, <1>7, TotalRight
  <1>9. Overruns(l) => t >= 65481 /\ t <= 65484
    <2>1. l < 2 * U16 - HeadLen
      BY <1>1, <1>3, <1>4 DEF U16, HeadLen
    <2>2. Overruns(l) => l \in 65532..65535
      BY <1>1, <2>1, OverrunsWhere
    <2> QED BY <1>1, <1>3, <2>2
  <1>10. HeadRight(q)
    BY <1>2, <1>5, <1>6, <1>8, <1>9 DEF HeadRight
  <1> QED BY <1>2, <1>10 DEF q, l

\* A chunk: what RecivedMessage leaves behind.
Quiet == UNCHANGED <<m_UserList, created, handler>>
OneReply(s, c) ==
  /\ at' = c
  /\ \E r \in Replies : /\ r.k = Len(due[s]) + 1 /\ HeadRight(r)
                        /\ todo' = <<r>>
                        /\ due' = [due EXCEPT ![s] = @ \o <<r>>]
  /\ UNCHANGED <<m_UserList, created>>
TwoReplies(s, c) ==
  /\ at' = c
  /\ \E r, q \in Replies :
       /\ r.k = Len(due[s]) + 1 /\ q.k = Len(due[s]) + 2
       /\ HeadRight(r) /\ HeadRight(q)
       /\ todo' = <<r, q>>
       /\ due' = [due EXCEPT ![s] = @ \o <<r, q>>]
  /\ \E role \in Roles :
       /\ m_UserList' = [m_UserList EXCEPT ![c] = role]
       /\ created' = [created EXCEPT ![s] = role]

\* What RecivedMessage does with a request that is one chunk, case by case.
LEMMA Handlers ==
  ASSUME GameTypeOK, NEW s \in Sessions, NEW c \in Ids, NEW q \in Requests,
         RequestLen(q) <= U16, Read(s, c, q)
  PROVE  Quiet \/ OneReply(s, c) \/ TwoReplies(s, c)
  <1> DEFINE k == Len(due[s]) + 1
  <1>1. k \in Nat \ {0} /\ k + 1 \in Nat \ {0} /\ k + 1 = Len(due[s]) + 2
    BY DEF GameTypeOK
  <1> HIDE DEF k
  <1>2. Parses(RequestLen(q)) /\ Dispatch(s, c, q)
    BY DEF Read
  <1>3. q.cmd \in Cmds /\ q.name \in Names /\ q.name \in Nat /\ q.voc \in Vocations
    BY NameRange DEF Requests
  <1>4. CASE q.cmd = "C2G_Login"
    <2> DEFINE r == Reply("G2C_LoginRet", LoginRetLen(q.name), q.name, 0, k)
    <2>1. LoginRetLen(q.name) \in Nat /\ LoginRetLen(q.name) <= 65531
      BY <1>2, <1>3, <1>4, RequestFits, Lengths
    <2>2. r \in Replies /\ r.k = k /\ HeadRight(r)
      BY <1>1, <1>3, <2>1, SmallReply DEF ReplyCmds
    <2>3. HandleLogin(s, c, q)
      BY <1>2, <1>4, UnknownAssumption DEF Dispatch, Registered
    <2>4. at' = c /\ todo' = <<r>> /\ due' = [due EXCEPT ![s] = @ \o <<r>>]
          /\ UNCHANGED <<m_UserList, created>>
      BY <2>3 DEF HandleLogin, Answer, k
    <2> HIDE DEF r
    <2> QED BY <2>2, <2>4 DEF k, OneReply
  <1>5. CASE q.cmd = "C2G_CreateRole"
    <2> DEFINE r == Reply("G2C_RoleCreateRet", RoleCreateRetLen, 0, 0, k)
               p == Reply("G2C_RoleList", RoleListLen(q.name, q.voc), q.name, q.voc, k + 1)
    <2>1. r \in Replies /\ r.k = k /\ HeadRight(r)
      <3>1. RoleCreateRetLen \in Nat /\ RoleCreateRetLen <= 65531
        BY DEF RoleCreateRetLen
      <3>2. "G2C_RoleCreateRet" \in ReplyCmds
        BY DEF ReplyCmds
      <3> QED BY <1>1, <3>1, <3>2, NamelessReply
    <2>2. p \in Replies /\ p.k = k + 1 /\ HeadRight(p)
      <3>1. q.name <= U16
        BY <1>5, RequestFits
      <3> QED BY <1>1, <1>3, <3>1, ListReply
    <2>3. HandleCreateRole(s, c, q)
      BY <1>2, <1>5, UnknownAssumption DEF Dispatch, Registered
    <2>4. /\ at' = c /\ todo' = <<r, p>> /\ due' = [due EXCEPT ![s] = @ \o <<r, p>>]
          /\ m_UserList' = [m_UserList EXCEPT ![c] = Role(s, q)]
          /\ created' = [created EXCEPT ![s] = Role(s, q)]
      BY <1>1, <2>3 DEF HandleCreateRole, StoreRole, Answer, k
    <2> HIDE DEF r, p
    <2>5. \E r1, q1 \in Replies :
             /\ r1.k = Len(due[s]) + 1 /\ q1.k = Len(due[s]) + 2
             /\ HeadRight(r1) /\ HeadRight(q1)
             /\ todo' = <<r1, q1>>
             /\ due' = [due EXCEPT ![s] = @ \o <<r1, q1>>]
      BY <1>1, <2>1, <2>2, <2>4 DEF k
    <2>6. Role(s, q) \in Roles
      BY <1>3 DEF Role, Roles
    <2> QED BY <2>4, <2>5, <2>6 DEF TwoReplies
  <1>6. CASE q.cmd = "C2G_SelectRole"
    <2> DEFINE r == Reply("G2C_RoleChangeScene", ChangeSceneLen, 0, 0, k)
    <2>1. r \in Replies /\ r.k = k /\ HeadRight(r)
      <3>1. ChangeSceneLen \in Nat /\ ChangeSceneLen <= 65531
        BY DEF ChangeSceneLen
      <3>2. "G2C_RoleChangeScene" \in ReplyCmds
        BY DEF ReplyCmds
      <3> QED BY <1>1, <3>1, <3>2, NamelessReply
    <2>2. HandleSelectRole(s, c)
      BY <1>2, <1>6, UnknownAssumption DEF Dispatch, Registered
    <2>3. at' = c /\ todo' = <<r>> /\ due' = [due EXCEPT ![s] = @ \o <<r>>]
          /\ UNCHANGED <<m_UserList, created>>
      BY <2>2 DEF HandleSelectRole, Answer, k
    <2> HIDE DEF r
    <2> QED BY <2>1, <2>3 DEF k, OneReply
  <1>7. CASE q.cmd \notin Registered
    BY <1>2, <1>7 DEF Dispatch, Registered, Quiet
  <1> QED BY <1>4, <1>5, <1>6, <1>7 DEF Registered

-----------------------------------------------------------------------------
(* Types of the server.                                                    *)

LEMMA Received ==
  ASSUME GameTypeOK, NEW s \in Sessions, NEW c \in Ids, RecivedMessage(s, c)
  PROVE  /\ Quiet \/ OneReply(s, c) \/ TwoReplies(s, c)
         /\ m_Message' \subseteq Cmds /\ todo = <<>>
         /\ HearChunk(s, c) /\ UNCHANGED <<down, reply>>
  <1>1. m_Message' \subseteq Cmds
    BY DEF RecivedMessage, Handle, Ignore, Read, Dispatch, app, GameTypeOK, Cmds
  <1>2. CASE Ignore
    BY <1>1, <1>2 DEF RecivedMessage, Handle, Ignore, app, handler, Quiet, Idle
  <1>3. ASSUME NEW q \in Requests, RequestLen(q) <= U16, Read(s, c, q)
        PROVE  Quiet \/ OneReply(s, c) \/ TwoReplies(s, c)
    BY <1>3, Handlers
  <1> QED BY <1>1, <1>2, <1>3 DEF RecivedMessage, Handle, Idle

LEMMA OneElement ==
  ASSUME NEW S, NEW r \in S, NEW q \in S
  PROVE  /\ <<r>> \in Seq(S) /\ Len(<<r>>) = 1 /\ <<r>>[1] = r
         /\ <<r, q>> \in Seq(S) /\ Len(<<r, q>>) = 2
         /\ <<r, q>>[1] = r /\ <<r, q>>[2] = q
OBVIOUS

LEMMA ConcatFacts ==
  ASSUME NEW S, NEW u \in Seq(S), NEW v \in Seq(S)
  PROVE  /\ u \o v \in Seq(S) /\ Len(u \o v) = Len(u) + Len(v)
         /\ \A i \in 1..Len(u) : (u \o v)[i] = u[i]
         /\ \A i \in 1..Len(v) : (u \o v)[Len(u) + i] = v[i]
OBVIOUS

LEMMA ReceivedType ==
  ASSUME GameTypeOK, NEW s \in Sessions, NEW c \in Ids, RecivedMessage(s, c)
  PROVE  GameTypeOK'
  <1>1. /\ Quiet \/ OneReply(s, c) \/ TwoReplies(s, c)
        /\ m_Message' \subseteq Cmds /\ todo = <<>>
        /\ HearChunk(s, c) /\ UNCHANGED <<down, reply>>
    BY Received
  <1>2. LinkTypeOK' /\ UNCHANGED <<clients, sending>>
    BY <1>1, HearType DEF GameTypeOK
  <1>3. client' = [client EXCEPT ![c] = s] /\ s # NoSession
    BY <1>1, PromiseAssumption DEF HearChunk
  <1>4. client'[c] # NoSession
    BY <1>3 DEF GameTypeOK, LinkTypeOK
  <1>5. due[s] \in Seq(Replies)
    BY DEF GameTypeOK
  <1>6. /\ todo' \in Seq(Replies) /\ due' \in [Sessions -> Seq(Replies)]
        /\ at' \in Ids \cup {0} /\ (todo' # <<>> => at' = c)
    <2>1. CASE Quiet
      BY <2>1, <1>1 DEF Quiet, handler, GameTypeOK
    <2>2. CASE OneReply(s, c)
      <3>1. PICK r \in Replies : todo' = <<r>> /\ due' = [due EXCEPT ![s] = @ \o <<r>>]
        BY <2>2 DEF OneReply
      <3>2. todo' \in Seq(Replies) /\ due[s] \o <<r>> \in Seq(Replies)
        BY <1>5, <3>1, OneElement, ConcatFacts
      <3>3. due' \in [Sessions -> Seq(Replies)]
        BY <3>1, <3>2 DEF GameTypeOK
      <3> QED BY <2>2, <3>2, <3>3 DEF OneReply
    <2>3. CASE TwoReplies(s, c)
      <3>1. PICK r \in Replies, q \in Replies :
              todo' = <<r, q>> /\ due' = [due EXCEPT ![s] = @ \o <<r, q>>]
        BY <2>3 DEF TwoReplies
      <3>2. todo' \in Seq(Replies) /\ due[s] \o <<r, q>> \in Seq(Replies)
        BY <1>5, <3>1, OneElement, ConcatFacts
      <3>3. due' \in [Sessions -> Seq(Replies)]
        BY <3>1, <3>2 DEF GameTypeOK
      <3> QED BY <2>3, <3>2, <3>3 DEF TwoReplies
    <2> QED BY <1>1, <2>1, <2>2, <2>3
  <1>7. m_UserList' \in [Ids -> Roles \cup {NoRole}]
        /\ created' \in [Sessions -> Roles \cup {NoRole}]
    <2>1. CASE Quiet \/ OneReply(s, c)
      BY <2>1 DEF Quiet, OneReply, GameTypeOK
    <2>2. ASSUME NEW role \in Roles, m_UserList' = [m_UserList EXCEPT ![c] = role],
                 created' = [created EXCEPT ![s] = role]
          PROVE  /\ m_UserList' \in [Ids -> Roles \cup {NoRole}]
                 /\ created' \in [Sessions -> Roles \cup {NoRole}]
      BY <2>2 DEF GameTypeOK
    <2> QED BY <1>1, <2>1, <2>2 DEF TwoReplies
  <1>8. UNCHANGED pushed
    BY <1>2 DEF sending
  <1>9. c # 0
    BY PromiseAssumption DEF Ids
  <1>10. todo' # <<>> => at' # 0 /\ client'[at'] # NoSession
    BY <1>4, <1>6, <1>9
  <1>11. down' \in BOOLEAN /\ reply' \in Seq(Replies) /\ Len(reply') = pushed'
    BY <1>1, <1>8 DEF GameTypeOK
  <1> QED BY <1>1, <1>2, <1>6, <1>7, <1>10, <1>11 DEF GameTypeOK

\* A reply: what SendClient does.
LEMMA Sent ==
  ASSUME GameTypeOK, SendClient
  PROVE  /\ at \in Ids /\ client[at] \in Sessions
         /\ Head(todo) \in Replies /\ Head(todo) = todo[1] /\ Len(todo) >= 1
         /\ Tail(todo) \in Seq(Replies) /\ Len(Tail(todo)) = Len(todo) - 1
         /\ \A i \in 1..Len(Tail(todo)) : Tail(todo)[i] = todo[i + 1]
         /\ todo' = Tail(todo)
         /\ reply' = Append(reply, Head(todo)) /\ reply' \in Seq(Replies)
         /\ Len(reply') = pushed + 1
         /\ \A i \in 1..pushed : reply'[i] = reply[i]
         /\ reply'[pushed + 1] = Head(todo)
         /\ PushSendMessage(at, Buf(Head(todo))) /\ Buf(Head(todo)) \in SendBufs
         /\ UNCHANGED <<app, at, due, created>> /\ down' \in BOOLEAN
  <1>1. todo \in Seq(Replies) /\ todo # <<>> /\ reply \in Seq(Replies) /\ Len(reply) = pushed
    BY DEF SendClient, PackReply, GameTypeOK
  <1>2. /\ Head(todo) \in Replies /\ Head(todo) = todo[1] /\ Len(todo) >= 1
        /\ Tail(todo) \in Seq(Replies) /\ Len(Tail(todo)) = Len(todo) - 1
        /\ \A i \in 1..Len(Tail(todo)) : Tail(todo)[i] = todo[i + 1]
    BY <1>1, TailFacts
  <1>3. /\ Append(reply, Head(todo)) \in Seq(Replies)
        /\ Len(Append(reply, Head(todo))) = pushed + 1
        /\ \A i \in 1..pushed : Append(reply, Head(todo))[i] = reply[i]
        /\ Append(reply, Head(todo))[pushed + 1] = Head(todo)
    BY <1>1, <1>2, AppendFacts
  <1>4. at \in Ids /\ client[at] \in Sessions
    BY <1>1 DEF GameTypeOK, LinkTypeOK
  <1>5. Buf(Head(todo)) \in SendBufs
    BY SendBufsAssumption DEF Buf
  <1> QED BY <1>2, <1>3, <1>4, <1>5 DEF SendClient, PackReply, NextReply, GameTypeOK

LEMMA GameTypeStep == GameTypeOK /\ [GameNext]_gameVars => GameTypeOK'
  <1> SUFFICES ASSUME GameTypeOK, [GameNext]_gameVars PROVE GameTypeOK'
    OBVIOUS
  <1>1. ASSUME NEW s \in Sessions, NEW c \in Ids, RecivedMessage(s, c) PROVE GameTypeOK'
    BY <1>1, ReceivedType
  <1>2. ASSUME NEW s \in Sessions, NEW c \in Ids, UserLoginOut(s, c) PROVE GameTypeOK'
    <2>1. LinkTypeOK' /\ UNCHANGED <<clients, sending>>
      BY <1>2, HearType DEF GameTypeOK, UserLoginOut, own
    <2>2. todo = <<>> /\ UNCHANGED own
      BY <1>2 DEF UserLoginOut, own, Idle
    <2> QED BY <2>1, <2>2 DEF GameTypeOK, app, handler, sending, own
  <1>3. CASE SendClient
    <2>1. /\ LinkTypeOK' /\ pushed' = pushed + 1 /\ UNCHANGED <<clients, owners, wire>>
      BY <1>3, Sent, PushType DEF GameTypeOK
    <2>2. /\ todo' \in Seq(Replies) /\ reply' \in Seq(Replies) /\ Len(reply') = pushed'
          /\ UNCHANGED <<app, at, due, created>> /\ down' \in BOOLEAN
      BY <1>3, <2>1, Sent
    <2>3. at' # 0 /\ client'[at'] # NoSession
      BY <1>3, <2>1, <2>2 DEF GameTypeOK, SendClient, PackReply, owners
    <2> QED BY <2>1, <2>2, <2>3 DEF GameTypeOK, app
  <1>4. CASE Outside /\ UNCHANGED own
    <2>1. LinkTypeOK' /\ UNCHANGED <<owners, pushed>>
      BY <1>4, OutsideType DEF GameTypeOK
    <2> QED BY <1>4, <2>1 DEF GameTypeOK, app, handler, owners, own
  <1>5. CASE UNCHANGED gameVars
    BY <1>5 DEF gameVars, own, linkVars, GameTypeOK, LinkTypeOK
  <1> QED BY <1>1, <1>2, <1>3, <1>4, <1>5 DEF GameNext

LEMMA GameTypeInit == GameInit => GameTypeOK
  <1> SUFFICES ASSUME GameInit PROVE GameTypeOK
    OBVIOUS
  <1>1. LinkTypeOK
    BY PromiseAssumption DEF GameInit, LinkInit, LinkTypeOK
  <1>2. <<>> \in Seq(Replies) /\ Len(<<>>) = 0
    OBVIOUS
  <1>3. pushed = 0 /\ m_Message \subseteq Cmds
    BY DEF GameInit, LinkInit, Cmds
  <1> QED BY <1>1, <1>2, <1>3 DEF GameInit, GameTypeOK

LEMMA GameTypeAlways == GameSpec => []GameTypeOK
  BY GameTypeInit, GameTypeStep, PTL DEF GameSpec

\* Every variable keeps its type; replies are only ever sent to a client the
\* logic thread has heard and not yet heard the end of.
THEOREM GameTypeCorrect == GameSpec => []GameTypeOK
  BY GameTypeAlways

-----------------------------------------------------------------------------
(* The roles.  A client that has created one has been heard, so the logic   *)
(* thread knows it by its id, and by no other.                              *)

RoleInv ==
  /\ RoleOfClient
  /\ \A s \in Sessions : created[s] # NoRole => heard[s] > 0

LEMMA RoleInit == GameInit => RoleInv
  BY DEF GameInit, LinkInit, RoleInv, RoleOfClient

LEMMA RoleReceived ==
  ASSUME GameTypeOK, RoleInv, NEW s \in Sessions, NEW c \in Ids, RecivedMessage(s, c)
  PROVE  RoleInv'
  <1>1. /\ Quiet \/ OneReply(s, c) \/ TwoReplies(s, c)
        /\ HearChunk(s, c)
    BY Received
  <1>2. /\ client' = [client EXCEPT ![c] = s]
        /\ \A d \in Ids \ {c} : client[d] # s
        /\ heard[s] > 0 => client[c] = s
        /\ heard' = [heard EXCEPT ![s] = @ + 1]
    BY <1>1 DEF HearChunk, KnownAs
  <1>3. \A d \in Ids : client'[d] = IF d = c THEN s ELSE client[d]
    BY <1>2 DEF GameTypeOK, LinkTypeOK
  <1>4. /\ \A u \in Sessions : heard[u] \in Nat
        /\ \A u \in Sessions : heard'[u] = IF u = s THEN heard[s] + 1 ELSE heard[u]
    BY <1>2, PromiseAssumption DEF GameTypeOK, LinkTypeOK
  <1>5. CASE UNCHANGED <<m_UserList, created>>
    <2>1. RoleOfClient'
      BY <1>2, <1>3, <1>5 DEF RoleInv, RoleOfClient
    <2>2. \A u \in Sessions : created[u] # NoRole => heard'[u] > 0
      BY <1>4 DEF RoleInv
    <2> QED BY <1>5, <2>1, <2>2 DEF RoleInv
  <1>6. ASSUME NEW r, m_UserList' = [m_UserList EXCEPT ![c] = r],
               created' = [created EXCEPT ![s] = r]
        PROVE  RoleInv'
    <2>1. /\ \A d \in Ids : m_UserList'[d] = IF d = c THEN r ELSE m_UserList[d]
          /\ \A u \in Sessions : created'[u] = IF u = s THEN r ELSE created[u]
      BY <1>6 DEF GameTypeOK
    <2>2. RoleOfClient'
      <3> SUFFICES ASSUME NEW d \in Ids, client'[d] # NoSession, created'[client'[d]] # NoRole
                   PROVE  m_UserList'[d] = created'[client'[d]]
        BY DEF RoleOfClient
      <3>1. CASE d = c
        BY <1>3, <2>1, <3>1
      <3>2. CASE d # c
        <4>1. client'[d] = client[d] /\ client[d] # s /\ client[d] \in Sessions
          BY <1>2, <1>3, <3>2 DEF GameTypeOK, LinkTypeOK
        <4> QED BY <2>1, <3>2, <4>1 DEF RoleInv, RoleOfClient
      <3> QED BY <3>1, <3>2
    <2>3. \A u \in Sessions : created'[u] # NoRole => heard'[u] > 0
      BY <1>4, <2>1 DEF RoleInv
    <2> QED BY <2>2, <2>3 DEF RoleInv
  <1> QED BY <1>1, <1>5, <1>6 DEF Quiet, OneReply, TwoReplies

LEMMA RoleStep == GameTypeOK /\ RoleInv /\ [GameNext]_gameVars => RoleInv'
  <1> SUFFICES ASSUME GameTypeOK, RoleInv, [GameNext]_gameVars PROVE RoleInv'
    OBVIOUS
  <1>1. ASSUME UNCHANGED <<client, heard, m_UserList, created>> PROVE RoleInv'
    BY <1>1 DEF RoleInv, RoleOfClient
  <1>2. ASSUME NEW s \in Sessions, NEW c \in Ids, UserLoginOut(s, c) PROVE RoleInv'
    <2>1. /\ client' = [client EXCEPT ![c] = NoSession]
          /\ UNCHANGED <<heard, m_UserList, created>>
      BY <1>2 DEF UserLoginOut, own, HearEnd, app
    <2>2. \A d \in Ids : client'[d] = IF d = c THEN NoSession ELSE client[d]
      BY <2>1 DEF GameTypeOK, LinkTypeOK
    <2> QED BY <2>1, <2>2 DEF RoleInv, RoleOfClient
  <1>3. CASE SendClient
    BY <1>1, <1>3, Sent DEF PushSendMessage, owners, app
  <1>4. CASE Outside /\ UNCHANGED own
    BY <1>1, <1>4, OutsideType DEF GameTypeOK, owners, app, own
  <1>5. CASE UNCHANGED gameVars
    BY <1>1, <1>5 DEF gameVars, own, linkVars
  <1> QED BY <1>2, <1>3, <1>4, <1>5, RoleReceived DEF GameNext

\* A client that is online and has created a role finds its own under its id,
\* although m_UserList keeps those of clients that are gone (CLogin.cpp:105).
THEOREM RolesFollowClients == GameSpec => []RoleOfClient
<1>1. RoleInv => RoleOfClient
  BY DEF RoleInv
<1> QED BY <1>1, GameTypeAlways, RoleInit, RoleStep, PTL DEF GameSpec

-----------------------------------------------------------------------------
(* The lengths in the heads.                                               *)

HeadInv ==
  /\ \A i \in 1..Len(todo) : HeadRight(todo[i])
  /\ \A i \in 1..Len(reply) : HeadRight(reply[i])
  /\ down => \E i \in 1..Len(reply) : Overruns(reply[i].len)

LEMMA HeadInit == GameInit => HeadInv
  BY DEF GameInit, HeadInv

LEMMA HeadStep == GameTypeOK /\ HeadInv /\ [GameNext]_gameVars => HeadInv'
  <1> SUFFICES ASSUME GameTypeOK, HeadInv, [GameNext]_gameVars PROVE HeadInv'
    OBVIOUS
  <1>1. ASSUME UNCHANGED <<todo, reply, down>> PROVE HeadInv'
    BY <1>1 DEF HeadInv
  <1>2. ASSUME NEW s \in Sessions, NEW c \in Ids, RecivedMessage(s, c) PROVE HeadInv'
    <2>1. (Quiet \/ OneReply(s, c) \/ TwoReplies(s, c)) /\ UNCHANGED <<reply, down>>
      BY <1>2, Received DEF RecivedMessage, Handle
    <2>2. CASE Quiet
      BY <1>1, <2>1, <2>2 DEF Quiet, handler
    <2>3. CASE OneReply(s, c)
      <3>1. PICK r \in Replies : HeadRight(r) /\ todo' = <<r>>
        BY <2>3 DEF OneReply
      <3>2. \A i \in 1..Len(todo') : todo'[i] = r
        BY <3>1, OneElement
      <3> QED BY <2>1, <3>1, <3>2 DEF HeadInv
    <2>4. CASE TwoReplies(s, c)
      <3>1. PICK r \in Replies, q \in Replies :
              HeadRight(r) /\ HeadRight(q) /\ todo' = <<r, q>>
        BY <2>4 DEF TwoReplies
      <3>2. \A i \in 1..Len(todo') : todo'[i] = r \/ todo'[i] = q
        BY <3>1, OneElement
      <3> QED BY <2>1, <3>1, <3>2 DEF HeadInv
    <2> QED BY <2>1, <2>2, <2>3, <2>4
  <1>3. ASSUME NEW s \in Sessions, NEW c \in Ids, UserLoginOut(s, c) PROVE HeadInv'
    BY <1>1, <1>3 DEF UserLoginOut, own, handler
  <1>4. CASE SendClient
    <2>1. /\ Head(todo) = todo[1] /\ 1 \in 1..Len(todo)
          /\ \A i \in 1..Len(todo') : todo'[i] = todo[i + 1] /\ i + 1 \in 1..Len(todo)
      <3>1. Len(todo) \in Nat
        BY DEF GameTypeOK
      <3>2. /\ Head(todo) = todo[1] /\ Len(todo) >= 1
            /\ todo' = Tail(todo) /\ Len(Tail(todo)) = Len(todo) - 1
            /\ \A i \in 1..Len(Tail(todo)) : Tail(todo)[i] = todo[i + 1]
        BY <1>4, Sent
      <3> QED BY <3>1, <3>2
    <2>2. \A i \in 1..Len(reply') :
            (i \in 1..Len(reply) /\ reply'[i] = reply[i]) \/ reply'[i] = Head(todo)
      <3>1. Len(reply) = pushed /\ pushed \in Nat
        BY PromiseAssumption DEF GameTypeOK, LinkTypeOK
      <3> QED BY <1>4, <3>1, Sent
    <2>3. down' => \E i \in 1..Len(reply') : Overruns(reply'[i].len)
      <3>1. /\ ~down /\ reply' = Append(reply, Head(todo)) /\ reply \in Seq(Replies)
            /\ down' = down \/ Overruns(Head(todo).len)
        BY <1>4 DEF SendClient, PackReply, NextReply, Overruns, GameTypeOK
      <3>2. Len(reply') = Len(reply) + 1 /\ reply'[Len(reply) + 1] = Head(todo)
            /\ Len(reply) \in Nat
        BY <3>1
      <3>3. CASE Overruns(Head(todo).len)
        <4>1. Len(reply) + 1 \in 1..Len(reply') /\ Overruns(reply'[Len(reply) + 1].len)
          BY <3>2, <3>3
        <4> QED BY <4>1
      <3>4. CASE ~down'
        BY <3>4
      <3> QED BY <3>1, <3>3, <3>4
    <2> QED BY <2>1, <2>2, <2>3 DEF HeadInv
  <1>5. CASE Outside /\ UNCHANGED own
    BY <1>1, <1>5 DEF handler, own
  <1>6. CASE UNCHANGED gameVars
    BY <1>1, <1>6 DEF gameVars, own
  <1> QED BY <1>2, <1>3, <1>4, <1>5, <1>6 DEF GameNext

\* The head of every reply gives its length, except that of a RoleList whose
\* name and vocation take up 65481 bytes or more, and only for the first four of
\* those lengths does Pack write past its buffer, whatever names and vocations
\* clients send (AppManager.cpp:24-37, CLogin.cpp:87).
THEOREM HeadsRight == GameSpec => []PackRight
<1>1. HeadInv => PackRight
  BY DEF HeadInv, HeadRight, PackRight
<1> QED BY <1>1, GameTypeAlways, HeadInit, HeadStep, PTL DEF GameSpec

-----------------------------------------------------------------------------
(* The order of the answers.  Messages on their way are numbered by their   *)
(* PushSendMessage, and are written in that order; the replies they carry   *)
(* are numbered by the requests of the client they are meant for.           *)

Sequenced ==
  /\ \A i, j \in 1..Len(sendQ) : i < j => sendQ[i].n < sendQ[j].n
  /\ \A i \in 1..Len(sendQ) : sendQ[i].n <= pushed
  /\ \A s \in Sessions : \A i \in 1..Len(wire[s]) :
       /\ wire[s][i].n <= pushed
       /\ \A j \in 1..Len(sendQ) : wire[s][i].n < sendQ[j].n
       /\ \A j \in 1..Len(wire[s]) : i < j => wire[s][i].n < wire[s][j].n

\* Message n is meant for u, and on its way or written somewhere.
Meant(n, u) ==
  \/ \E i \in 1..Len(sendQ) : sendQ[i].n = n /\ sendQ[i].to = u
  \/ \E s \in Sessions : \E i \in 1..Len(wire[s]) : wire[s][i].n = n /\ wire[s][i].to = u

Answers ==
  /\ \A n \in 1..MaxSends, u \in Sessions : Meant(n, u) =>
       /\ n \in 1..pushed /\ reply[n].k \in 1..Len(due[u])
       /\ reply[n] = due[u][reply[n].k]
  /\ \A m, n \in 1..MaxSends, u \in Sessions :
       Meant(m, u) /\ Meant(n, u) /\ m < n => reply[m].k < reply[n].k

\* What the handler has still to send follows all it has sent to its client.
Pending ==
  LET u == client[at] IN
  \A i \in 1..Len(todo) :
    /\ todo[i].k \in 1..Len(due[u]) /\ todo[i] = due[u][todo[i].k]
    /\ \A j \in 1..Len(todo) : i < j => todo[i].k < todo[j].k
    /\ \A n \in 1..MaxSends : Meant(n, u) => reply[n].k < todo[i].k

OrderInv == Sequenced /\ Answers /\ Pending

LEMMA OrderInit == GameInit => OrderInv
  BY DEF GameInit, LinkInit, OrderInv, Sequenced, Answers, Pending, Meant

LEMMA MessageNumbers ==
  ASSUME GameTypeOK
  PROVE  /\ sendQ \in Seq(SendMsgs) /\ \A i \in 1..Len(sendQ) : sendQ[i].n \in 1..MaxSends
         /\ \A s \in Sessions : \A i \in 1..Len(wire[s]) : wire[s][i].n \in 1..MaxSends
  <1>1. sendQ \in Seq(SendMsgs)
    BY DEF GameTypeOK, LinkTypeOK
  <1>2. \A i \in 1..Len(sendQ) : sendQ[i] \in SendMsgs
    BY <1>1
  <1>3. \A m \in SendMsgs : m.n \in 1..MaxSends
    BY DEF SendMsgs
  <1>4. ASSUME NEW s \in Sessions, NEW i \in 1..Len(wire[s]) PROVE wire[s][i].n \in 1..MaxSends
    <2> DEFINE W == [n : 1..MaxSends, to : Sessions]
    <2>1. wire[s] \in Seq(W)
      BY DEF GameTypeOK, LinkTypeOK
    <2> HIDE DEF W
    <2>2. wire[s][i] \in W
      BY <2>1
    <2> QED BY <2>2 DEF W
  <1> QED BY <1>1, <1>2, <1>3, <1>4

LEMMA OrderGives == GameTypeOK /\ OrderInv => AnswersInOrder
  <1> SUFFICES ASSUME GameTypeOK, OrderInv, NEW s \in Sessions,
                      NEW i \in 1..Len(wire[s]), NEW j \in 1..Len(wire[s]), wire[s][i].to = s
               PROVE  /\ reply[wire[s][i].n] = due[s][reply[wire[s][i].n].k]
                      /\ i < j /\ wire[s][j].to = s
                           => reply[wire[s][i].n].k < reply[wire[s][j].n].k
    BY DEF AnswersInOrder
  <1>1. wire[s][i].n \in 1..MaxSends /\ wire[s][j].n \in 1..MaxSends
    BY MessageNumbers
  <1>2. Meant(wire[s][i].n, s) /\ (wire[s][j].to = s => Meant(wire[s][j].n, s))
    BY DEF Meant
  <1>3. i < j => wire[s][i].n < wire[s][j].n
    BY DEF OrderInv, Sequenced
  <1> QED BY <1>1, <1>2, <1>3 DEF OrderInv, Answers

\* Steps that send nothing to anybody new and leave the handler alone.
LEMMA OrderShrinks ==
  ASSUME OrderInv, Sequenced', \A n, u : Meant(n, u)' => Meant(n, u),
         UNCHANGED <<pushed, reply, due, todo>>,
         todo # <<>> => client'[at'] = client[at]
  PROVE  OrderInv'
  <1>1. Answers'
    BY DEF OrderInv, Answers
  <1>2. Pending'
    BY DEF OrderInv, Pending
  <1> QED BY <1>1, <1>2 DEF OrderInv

LEMMA OrderReceived ==
  ASSUME GameTypeOK, OrderInv, NEW s \in Sessions, NEW c \in Ids, RecivedMessage(s, c)
  PROVE  OrderInv'
  <1>1. /\ Quiet \/ OneReply(s, c) \/ TwoReplies(s, c)
        /\ HearChunk(s, c) /\ reply' = reply /\ todo = <<>>
    BY Received
  <1>2. UNCHANGED <<sendQ, pushed, wire>>
    BY <1>1 DEF HearChunk, sending
  <1>3. Sequenced' /\ \A n, u : Meant(n, u)' <=> Meant(n, u)
    BY <1>2 DEF OrderInv, Sequenced, Meant
  <1>4. client'[c] = s
    BY <1>1 DEF HearChunk, GameTypeOK, LinkTypeOK
  <1>5. CASE Quiet
    BY <1>1, <1>2, <1>3, <1>5, OrderShrinks DEF Quiet, handler
  \* New replies, due after all that were.
  <1>6. ASSUME NEW new \in Seq(Replies), todo' = new, at' = c,
               due' = [due EXCEPT ![s] = @ \o new],
               \A i \in 1..Len(new) : new[i].k = Len(due[s]) + i
        PROVE  OrderInv'
    <2>1. /\ due[s] \in Seq(Replies) /\ Len(due[s]) \in Nat /\ Len(new) \in Nat
          /\ \A u \in Sessions : due'[u] = IF u = s THEN due[s] \o new ELSE due[u]
      BY <1>6 DEF GameTypeOK
    <2>2. /\ Len(due[s] \o new) = Len(due[s]) + Len(new)
          /\ \A i \in 1..Len(due[s]) : (due[s] \o new)[i] = due[s][i]
          /\ \A i \in 1..Len(new) : (due[s] \o new)[Len(due[s]) + i] = new[i]
      BY <2>1, ConcatFacts
    <2>3. \A u \in Sessions : \A k \in 1..Len(due[u]) :
            k \in 1..Len(due'[u]) /\ due'[u][k] = due[u][k]
      <3> SUFFICES ASSUME NEW u \in Sessions, NEW k \in 1..Len(due[u])
                   PROVE  k \in 1..Len(due'[u]) /\ due'[u][k] = due[u][k]
        OBVIOUS
      <3>1. CASE u = s
        <4>1. due'[s] = due[s] \o new /\ k \in 1..Len(due[s])
          BY <2>1, <3>1
        <4>2. k \in 1..Len(due[s] \o new)
          BY <2>1, <2>2, <4>1
        <4> QED BY <2>2, <3>1, <4>1, <4>2
      <3>2. CASE u # s
        BY <2>1, <3>2
      <3> QED BY <3>1, <3>2
    <2>4. Answers'
      BY <1>1, <1>2, <1>3, <2>3 DEF OrderInv, Answers
    <2>5. Pending'
      <3> SUFFICES ASSUME NEW i \in 1..Len(new)
                   PROVE  /\ new[i].k \in 1..Len(due'[s]) /\ new[i] = due'[s][new[i].k]
                          /\ \A j \in 1..Len(new) : i < j => new[i].k < new[j].k
                          /\ \A n \in 1..MaxSends : Meant(n, s) => reply[n].k < new[i].k
        BY <1>1, <1>3, <1>4, <1>6 DEF Pending
      <3>1. new[i].k \in 1..Len(due'[s]) /\ new[i] = due'[s][new[i].k]
        <4>1. due'[s] = due[s] \o new /\ new[i].k = Len(due[s]) + i
          BY <1>6, <2>1
        <4>2. Len(due[s]) + i \in 1..Len(due[s] \o new)
          BY <2>1, <2>2
        <4> QED BY <2>2, <4>1, <4>2
      <3>2. \A j \in 1..Len(new) : i < j => new[i].k < new[j].k
        BY <1>6, <2>1
      <3>3. \A n \in 1..MaxSends : Meant(n, s) => reply[n].k < new[i].k
        BY <1>6, <2>1 DEF OrderInv, Answers
      <3> QED BY <3>1, <3>2, <3>3
    <2> QED BY <1>3, <2>4, <2>5 DEF OrderInv
  <1>7. CASE OneReply(s, c)
    <2>1. PICK r \in Replies : /\ r.k = Len(due[s]) + 1 /\ todo' = <<r>>
                               /\ due' = [due EXCEPT ![s] = @ \o <<r>>]
      BY <1>7 DEF OneReply
    <2>2. <<r>> \in Seq(Replies) /\ \A i \in 1..Len(<<r>>) : <<r>>[i].k = Len(due[s]) + i
      BY <2>1
    <2> QED BY <1>6, <1>7, <2>1, <2>2 DEF OneReply
  <1>8. CASE TwoReplies(s, c)
    <2>1. PICK r \in Replies, q \in Replies :
            /\ r.k = Len(due[s]) + 1 /\ q.k = Len(due[s]) + 2 /\ todo' = <<r, q>>
            /\ due' = [due EXCEPT ![s] = @ \o <<r, q>>]
      BY <1>8 DEF TwoReplies
    <2>2. <<r, q>> \in Seq(Replies)
          /\ \A i \in 1..Len(<<r, q>>) : <<r, q>>[i].k = Len(due[s]) + i
      BY <2>1
    <2> QED BY <1>6, <1>8, <2>1, <2>2 DEF TwoReplies
  <1> QED BY <1>1, <1>5, <1>7, <1>8

LEMMA OrderSent ==
  ASSUME GameTypeOK, OrderInv, SendClient
  PROVE  OrderInv'
  <1> DEFINE u == client[at]  r == Head(todo)
             m == [n |-> pushed + 1, conn |-> at, buf |-> Buf(r), to |-> u]
  <1>1. /\ u \in Sessions /\ r = todo[1] /\ Len(todo) >= 1
        /\ \A i \in 1..Len(todo') : todo'[i] = todo[i + 1]
        /\ Len(todo') = Len(todo) - 1 /\ Len(todo) \in Nat
        /\ \A i \in 1..pushed : reply'[i] = reply[i]
        /\ reply'[pushed + 1] = r
        /\ UNCHANGED <<at, due>>
    <2>1. Len(todo) \in Nat
      BY DEF GameTypeOK
    <2>2. /\ client[at] \in Sessions /\ Head(todo) = todo[1] /\ Len(todo) >= 1
          /\ todo' = Tail(todo) /\ Len(Tail(todo)) = Len(todo) - 1
          /\ \A i \in 1..Len(Tail(todo)) : Tail(todo)[i] = todo[i + 1]
          /\ \A i \in 1..pushed : reply'[i] = reply[i]
          /\ reply'[pushed + 1] = Head(todo)
          /\ UNCHANGED <<at, due>>
      BY Sent
    <2> QED BY <2>1, <2>2
  <1>2. /\ pushed' = pushed + 1 /\ UNCHANGED <<client, wire>> /\ pushed + 1 \in 1..MaxSends
        /\ pushed \in Nat
    <2>1. /\ at \in Ids /\ Buf(r) \in SendBufs /\ PushSendMessage(at, Buf(r))
          /\ LinkTypeOK
      BY Sent DEF GameTypeOK
    <2>2. /\ pushed' = pushed + 1 /\ UNCHANGED <<clients, owners, wire>>
          /\ pushed + 1 \in 1..MaxSends
      BY <2>1, PushType
    <2>3. pushed \in Nat
      BY PromiseAssumption DEF GameTypeOK, LinkTypeOK
    <2> QED BY <2>2, <2>3 DEF owners
  <1>3. sendQ' = Append(sendQ, m) /\ m \in SendMsgs /\ m.n = pushed + 1 /\ m.to = u
    BY <1>2, Sent DEF PushSendMessage, SendMsgs
  <1> HIDE DEF m, u, r
  <1>4. /\ Len(sendQ) \in Nat /\ Len(sendQ') = Len(sendQ) + 1
        /\ \A i \in 1..Len(sendQ) : sendQ'[i] = sendQ[i] /\ sendQ[i].n \in Nat
        /\ sendQ'[Len(sendQ) + 1] = m
    <2>1. sendQ \in Seq(SendMsgs)
      BY DEF GameTypeOK, LinkTypeOK
    <2>2. \A i \in 1..Len(sendQ) : sendQ[i].n \in Nat
      BY MessageNumbers
    <2>3. /\ Len(Append(sendQ, m)) = Len(sendQ) + 1
          /\ \A i \in 1..Len(sendQ) : Append(sendQ, m)[i] = sendQ[i]
          /\ Append(sendQ, m)[Len(sendQ) + 1] = m
      BY <1>3, <2>1, AppendFacts
    <2> QED BY <1>3, <2>1, <2>2, <2>3
  <1>5. \A i \in 1..Len(sendQ') : i \in 1..Len(sendQ) \/ i = Len(sendQ) + 1
    BY <1>4
  <1>6. \A s \in Sessions : \A i \in 1..Len(wire[s]) : wire[s][i].n \in Nat
    BY MessageNumbers
  <1>p. \A i \in 1..Len(todo) :
          /\ todo[i].k \in 1..Len(due[u]) /\ todo[i] = due[u][todo[i].k]
          /\ \A j \in 1..Len(todo) : i < j => todo[i].k < todo[j].k
          /\ \A n \in 1..MaxSends : Meant(n, u) => reply[n].k < todo[i].k
    BY DEF OrderInv, Pending, u
  <1>q. /\ 1 \in 1..Len(todo)
        /\ \A i \in 1..Len(todo') : i + 1 \in 1..Len(todo) /\ 1 < i + 1
    BY <1>1
  <1>7. Sequenced'
    <2>1. \A i, j \in 1..Len(sendQ') : i < j => sendQ'[i].n < sendQ'[j].n
      BY <1>2, <1>3, <1>4, <1>5 DEF OrderInv, Sequenced
    <2>2. \A i \in 1..Len(sendQ') : sendQ'[i].n <= pushed'
      BY <1>2, <1>3, <1>4, <1>5 DEF OrderInv, Sequenced
    <2>3. \A s \in Sessions : \A i \in 1..Len(wire[s]) :
            /\ wire[s][i].n <= pushed'
            /\ \A j \in 1..Len(sendQ') : wire[s][i].n < sendQ'[j].n
            /\ \A j \in 1..Len(wire[s]) : i < j => wire[s][i].n < wire[s][j].n
      BY <1>2, <1>3, <1>4, <1>5, <1>6 DEF OrderInv, Sequenced
    <2> QED BY <1>2, <2>1, <2>2, <2>3 DEF Sequenced
  <1>8. \A n, v : Meant(n, v)' => Meant(n, v) \/ (n = pushed + 1 /\ v = u)
    BY <1>2, <1>3, <1>4, <1>5 DEF Meant
  <1>9. \A n \in 1..MaxSends, v \in Sessions : Meant(n, v) =>
          /\ n \in 1..pushed /\ reply[n].k \in 1..Len(due[v])
          /\ reply[n] = due[v][reply[n].k] /\ reply'[n] = reply[n]
    BY <1>1 DEF OrderInv, Answers
  <1>10. /\ r.k \in 1..Len(due[u]) /\ r = due[u][r.k]
         /\ \A n \in 1..MaxSends : Meant(n, u) => reply[n].k < r.k
         /\ \A i \in 1..Len(todo') : r.k < todo'[i].k
    BY <1>1, <1>p, <1>q
  <1>11. Answers'
    <2>1. \A n \in 1..MaxSends, v \in Sessions : Meant(n, v)' =>
            /\ n \in 1..pushed' /\ reply'[n].k \in 1..Len(due[v])
            /\ reply'[n] = due[v][reply'[n].k]
      BY <1>1, <1>2, <1>8, <1>9, <1>10
    <2>2. \A k, n \in 1..MaxSends, v \in Sessions :
            Meant(k, v)' /\ Meant(n, v)' /\ k < n => reply'[k].k < reply'[n].k
      <3> SUFFICES ASSUME NEW k \in 1..MaxSends, NEW n \in 1..MaxSends, NEW v \in Sessions,
                          Meant(k, v)', Meant(n, v)', k < n
                   PROVE  reply'[k].k < reply'[n].k
        OBVIOUS
      <3>1. CASE Meant(k, v) /\ Meant(n, v)
        BY <1>9, <3>1 DEF OrderInv, Answers
      <3>2. CASE Meant(k, v) /\ n = pushed + 1 /\ v = u
        BY <1>1, <1>9, <1>10, <3>2
      <3>3. CASE k = pushed + 1
        <4>1. n > pushed + 1
          BY <3>3
        <4> QED BY <1>2, <1>8, <1>9, <4>1
      <3> QED BY <1>8, <3>1, <3>2, <3>3
    <2> QED BY <1>1, <2>1, <2>2 DEF Answers
  <1>12. Pending'
    <2>1. PICK v \in Sessions : v = u /\ client'[at'] = v
      BY <1>1, <1>2 DEF u
    <2> SUFFICES ASSUME NEW i \in 1..Len(todo')
                 PROVE  /\ todo'[i].k \in 1..Len(due[v]) /\ todo'[i] = due[v][todo'[i].k]
                        /\ \A j \in 1..Len(todo') : i < j => todo'[i].k < todo'[j].k
                        /\ \A n \in 1..MaxSends : Meant(n, v)' => reply'[n].k < todo'[i].k
      <3>1. due' = due
        BY <1>1
      <3> QED BY <2>1, <3>1 DEF Pending
    <2>2. /\ i + 1 \in 1..Len(todo) /\ todo'[i] = todo[i + 1]
          /\ \A j \in 1..Len(todo') : j + 1 \in 1..Len(todo) /\ todo'[j] = todo[j + 1]
      BY <1>1, <1>q
    <2>3. \A j \in 1..Len(todo') : i < j => i + 1 < j + 1
      BY <1>1
    <2>4. \A n \in 1..MaxSends : Meant(n, v)' => reply'[n].k < todo'[i].k
      <3>1. r.k < todo'[i].k
        BY <1>10
      <3>2. \A n \in 1..MaxSends : Meant(n, v) => reply'[n].k < todo'[i].k
        BY <1>9, <1>p, <2>1, <2>2
      <3> QED BY <1>1, <1>8, <2>1, <3>1, <3>2
    <2> QED BY <2>1, <2>2, <2>3, <2>4, <1>p
  <1> QED BY <1>7, <1>11, <1>12 DEF OrderInv

\* Deliver and Lose take the oldest message off the queue.
LEMMA OrderTaken ==
  ASSUME GameTypeOK, OrderInv, sendQ # <<>>, sendQ' = Tail(sendQ),
         UNCHANGED <<pushed, reply, due, todo, client, at>>,
         \/ wire' = wire
         \/ \E s \in Sessions :
              wire' = [wire EXCEPT ![s] = Append(@, [n |-> Head(sendQ).n, to |-> Head(sendQ).to])]
  PROVE  OrderInv'
  <1>1. /\ Head(sendQ) = sendQ[1] /\ 1 \in 1..Len(sendQ) /\ Head(sendQ) \in SendMsgs
        /\ \A i \in 1..Len(sendQ') : /\ sendQ'[i] = sendQ[i + 1] /\ i + 1 \in 1..Len(sendQ)
                                     /\ 1 < i + 1
    <2>1. sendQ \in Seq(SendMsgs) /\ Len(sendQ) \in Nat
      BY MessageNumbers
    <2> QED BY <2>1, TailFacts
  <1>2. \A i, j \in 1..Len(sendQ') : i < j => i + 1 < j + 1
    OBVIOUS
  <1>3. /\ \A i, j \in 1..Len(sendQ') : i < j => sendQ'[i].n < sendQ'[j].n
        /\ \A i \in 1..Len(sendQ') : sendQ'[i].n <= pushed /\ Head(sendQ).n < sendQ'[i].n
        /\ Head(sendQ).n <= pushed
    BY <1>1, <1>2 DEF OrderInv, Sequenced
  <1>4. CASE wire' = wire
    <2>1. Sequenced'
      BY <1>1, <1>3, <1>4 DEF OrderInv, Sequenced
    <2>2. \A n, u : Meant(n, u)' => Meant(n, u)
      BY <1>1, <1>4 DEF Meant
    <2> QED BY <2>1, <2>2, OrderShrinks
  <1>5. ASSUME NEW s \in Sessions,
               wire' = [wire EXCEPT ![s] = Append(@, [n |-> Head(sendQ).n, to |-> Head(sendQ).to])]
        PROVE  OrderInv'
    <2> DEFINE W == [n : 1..MaxSends, to : Sessions]
               e == [n |-> Head(sendQ).n, to |-> Head(sendQ).to]
    <2>1. e \in W /\ wire[s] \in Seq(W) /\ e.n = Head(sendQ).n /\ e.to = Head(sendQ).to
      BY <1>1 DEF SendMsgs, GameTypeOK, LinkTypeOK
    <2>2. /\ wire'[s] = Append(wire[s], e)
          /\ \A u \in Sessions : u # s => wire'[u] = wire[u]
      BY <1>5 DEF GameTypeOK, LinkTypeOK
    <2> HIDE DEF W, e
    <2>3. /\ Len(wire[s]) \in Nat /\ Len(wire'[s]) = Len(wire[s]) + 1
          /\ \A i \in 1..Len(wire[s]) : wire'[s][i] = wire[s][i]
          /\ wire'[s][Len(wire[s]) + 1] = e
      BY <2>1, <2>2, AppendFacts
    <2>4. \A i \in 1..Len(wire'[s]) : i \in 1..Len(wire[s]) \/ i = Len(wire[s]) + 1
      BY <2>3
    <2>5. \A i \in 1..Len(wire[s]) : wire[s][i].n < e.n
      BY <1>1, <2>1 DEF OrderInv, Sequenced
    <2>6. \A u \in Sessions : \A i \in 1..Len(wire'[u]) :
            /\ wire'[u][i].n <= pushed
            /\ \A j \in 1..Len(sendQ') : wire'[u][i].n < sendQ'[j].n
            /\ \A j \in 1..Len(wire'[u]) : i < j => wire'[u][i].n < wire'[u][j].n
      <3> SUFFICES ASSUME NEW u \in Sessions, NEW i \in 1..Len(wire'[u])
                   PROVE  /\ wire'[u][i].n <= pushed
                          /\ \A j \in 1..Len(sendQ') : wire'[u][i].n < sendQ'[j].n
                          /\ \A j \in 1..Len(wire'[u]) : i < j => wire'[u][i].n < wire'[u][j].n
        OBVIOUS
      <3>1. CASE u # s
        BY <1>1, <2>2, <3>1 DEF OrderInv, Sequenced
      <3>2. CASE u = s /\ i \in 1..Len(wire[s])
        <4>1. /\ wire'[u][i].n <= pushed
              /\ \A j \in 1..Len(sendQ') : wire'[u][i].n < sendQ'[j].n
          BY <1>1, <2>3, <3>2 DEF OrderInv, Sequenced
        <4>2. \A j \in 1..Len(wire'[u]) : i < j => wire'[u][i].n < wire'[u][j].n
          BY <2>3, <2>4, <2>5, <3>2 DEF OrderInv, Sequenced
        <4> QED BY <4>1, <4>2
      <3>3. CASE u = s /\ i = Len(wire[s]) + 1
        <4>1. wire'[u][i] = e
          BY <2>3, <3>3
        <4>2. \A j \in 1..Len(wire'[u]) : ~(i < j)
          BY <2>3, <3>3
        <4> QED BY <1>3, <2>1, <4>1, <4>2
      <3> QED BY <2>4, <3>1, <3>2, <3>3
    <2>7. Sequenced'
      BY <1>3, <2>6 DEF Sequenced
    <2>8. \A n, u : Meant(n, u)' => Meant(n, u)
      <3> SUFFICES ASSUME NEW n, NEW u, Meant(n, u)' PROVE Meant(n, u)
        OBVIOUS
      <3>1. CASE \E i \in 1..Len(sendQ') : sendQ'[i].n = n /\ sendQ'[i].to = u
        BY <1>1, <3>1 DEF Meant
      <3>2. ASSUME NEW v \in Sessions, NEW i \in 1..Len(wire'[v]),
                   wire'[v][i].n = n, wire'[v][i].to = u
            PROVE  Meant(n, u)
        <4>1. CASE v # s
          BY <2>2, <3>2, <4>1 DEF Meant
        <4>2. CASE v = s /\ i \in 1..Len(wire[s])
          BY <2>3, <3>2, <4>2 DEF Meant
        <4>3. CASE v = s /\ i = Len(wire[s]) + 1
          BY <1>1, <2>1, <2>3, <3>2, <4>3 DEF Meant
        <4> QED BY <2>4, <4>1, <4>2, <4>3
      <3> QED BY <3>1, <3>2 DEF Meant
    <2> QED BY <2>7, <2>8, OrderShrinks
  <1> QED BY <1>4, <1>5

LEMMA OrderStep == GameTypeOK /\ OrderInv /\ [GameNext]_gameVars => OrderInv'
  <1> SUFFICES ASSUME GameTypeOK, OrderInv, [GameNext]_gameVars PROVE OrderInv'
    OBVIOUS
  <1>1. ASSUME UNCHANGED <<sendQ, pushed, wire, reply, due, todo>>,
               todo # <<>> => client'[at'] = client[at]
        PROVE  OrderInv'
    <2>1. Sequenced' /\ \A n, u : Meant(n, u)' => Meant(n, u)
      BY <1>1 DEF OrderInv, Sequenced, Meant
    <2> QED BY <1>1, <2>1, OrderShrinks
  <1>2. ASSUME NEW s \in Sessions, NEW c \in Ids, UserLoginOut(s, c) PROVE OrderInv'
    BY <1>1, <1>2 DEF UserLoginOut, own, Idle, HearEnd, sending, handler
  <1>3. CASE Outside /\ UNCHANGED own
    <2>1. UNCHANGED <<client, pushed, reply, due, todo, at>>
      BY <1>3, OutsideType DEF GameTypeOK, owners, handler, own
    <2>2. ASSUME NEW s \in Sessions, Connect(s) \/ PeerSend(s) \/ \E h \in Ends : PeerEnd(s, h)
          PROVE  OrderInv'
      BY <1>1, <2>1, <2>2 DEF Connect, PeerSend, PeerEnd, sending
    <2>3. ASSUME NEW s \in Sessions, Deliver(s) PROVE OrderInv'
      BY <2>1, <2>3, OrderTaken DEF Deliver
    <2>4. CASE Lose
      BY <2>1, <2>4, OrderTaken DEF Lose
    <2> QED BY <1>3, <2>2, <2>3, <2>4 DEF Outside
  <1>4. CASE UNCHANGED gameVars
    BY <1>1, <1>4 DEF gameVars, own, linkVars
  <1> QED BY <1>2, <1>3, <1>4, OrderReceived, OrderSent DEF GameNext

\* A client's answers reach it in the order of its requests, each at most once
\* (CLogin.cpp, AppManager::SendClient, over the promise of TCPServer).
THEOREM AnswersFollowRequests == GameSpec => []AnswersInOrder
<1>1. GameSpec => [](GameTypeOK /\ OrderInv)
  BY GameTypeInit, GameTypeStep, OrderInit, OrderStep, PTL DEF GameSpec
<1> QED BY <1>1, OrderGives, PTL
=============================================================================
