--------------------------- MODULE ClientSessions ---------------------------
(***************************************************************************)
(* What uv::TCPServer promises the logic thread that owns it, as long as   *)
(* that thread asks for no disconnection: the network thread, its streams, *)
(* the connection tables and the receive queue are left out.  TCPServer is *)
(* shown to implement this module, and GameServer is built over it.        *)
(*                                                                         *)
(* Every client that is heard is heard under one connection id, chunk by   *)
(* chunk in the order it sent them, then once as gone; an id passes to     *)
(* another client only after that.  Messages leave the send queue in the   *)
(* order of the calls: each is written to the client it was meant for, or  *)
(* is lost, or, once that client has ended, may reach another one.         *)
(***************************************************************************)
EXTENDS Naturals, Sequences

CONSTANTS
  Sessions,   \* the clients' connections, each made at most once
  NoSession,  \* "no client"
  Ends,       \* the ways a session ends; "eof" loses nothing
  SendBufs,   \* the kinds of buffer the logic thread sends
  MaxConn,    \* bound: connection ids are 1..MaxConn
  MaxChunks,  \* bound: chunks a client sends
  MaxSends    \* bound: messages the logic thread sends

ASSUME PromiseAssumption ==
  /\ NoSession \notin Sessions
  /\ {"idle", "connected"} \cap Ends = {}
  /\ MaxConn \in Nat /\ MaxChunks \in Nat /\ MaxSends \in Nat

VARIABLES
  peer,    \* the client's end of each session
  sent,    \* chunks the client has sent
  client,  \* the session the logic thread has heard under an id
  heard,   \* chunks of a session the logic thread has heard
  told,    \* sessions the logic thread has heard the end of
  sendQ,   \* messages to send
  pushed,  \* number of PushSendMessage calls so far
  wire     \* what was written to each session

clients == <<peer, sent>>
owners  == <<client, heard, told>>
sending == <<sendQ, pushed, wire>>
linkVars == <<peer, sent, client, heard, told, sendQ, pushed, wire>>

Ids == 1..MaxConn
SendMsgs == [n : 1..MaxSends, conn : Ids, buf : SendBufs, to : Sessions]

LinkTypeOK ==
  /\ peer \in [Sessions -> {"idle", "connected"} \cup Ends]
  /\ sent \in [Sessions -> 0..MaxChunks]
  /\ client \in [Ids -> Sessions \cup {NoSession}]
  /\ heard \in [Sessions -> 0..MaxChunks]
  /\ told \subseteq Sessions
  /\ sendQ \in Seq(SendMsgs)
  /\ pushed \in 0..MaxSends
  /\ wire \in [Sessions -> Seq([n : 1..MaxSends, to : Sessions])]

LinkInit ==
  /\ peer = [s \in Sessions |-> "idle"]
  /\ sent = [s \in Sessions |-> 0]
  /\ client = [c \in Ids |-> NoSession]
  /\ heard = [s \in Sessions |-> 0]
  /\ told = {}
  /\ sendQ = <<>>
  /\ pushed = 0
  /\ wire = [s \in Sessions |-> <<>>]

-----------------------------------------------------------------------------
(* The clients.                                                            *)

Connect(s) ==
  /\ peer[s] = "idle"
  /\ peer' = [peer EXCEPT ![s] = "connected"]
  /\ UNCHANGED <<sent, owners, sending>>

PeerSend(s) ==
  /\ peer[s] = "connected"
  /\ sent[s] < MaxChunks
  /\ sent' = [sent EXCEPT ![s] = @ + 1]
  /\ UNCHANGED <<peer, owners, sending>>

PeerEnd(s, how) ==
  /\ peer[s] = "connected"
  /\ peer' = [peer EXCEPT ![s] = how]
  /\ UNCHANGED <<sent, owners, sending>>

-----------------------------------------------------------------------------
(* What GetRecvMessage hands to the logic thread.                          *)

\* The logic thread knows s by c, or by nothing yet and c is nobody's.
KnownAs(s, c) ==
  /\ client[c] \in {NoSession, s}
  /\ \A d \in Ids \ {c} : client[d] # s
  /\ heard[s] > 0 => client[c] = s

\* The next chunk of s.
HearChunk(s, c) ==
  /\ s \notin told
  /\ heard[s] < sent[s]
  /\ KnownAs(s, c)
  /\ heard' = [heard EXCEPT ![s] = @ + 1]
  /\ client' = [client EXCEPT ![c] = s]
  /\ UNCHANGED <<clients, told, sending>>

\* The end of s, after its chunks if it closed in good order.
HearEnd(s, c) ==
  /\ s \notin told
  /\ peer[s] \in Ends
  /\ peer[s] = "eof" => heard[s] = sent[s]
  /\ KnownAs(s, c)
  /\ told' = told \cup {s}
  /\ client' = [client EXCEPT ![c] = NoSession]
  /\ UNCHANGED <<clients, heard, sending>>

-----------------------------------------------------------------------------
(* What becomes of the messages it sends.                                  *)

PushSendMessage(c, buf) ==
  /\ client[c] # NoSession
  /\ pushed < MaxSends
  /\ pushed' = pushed + 1
  /\ sendQ' = Append(sendQ, [n |-> pushed + 1, conn |-> c, buf |-> buf,
                             to |-> client[c]])
  /\ UNCHANGED <<clients, owners, wire>>

\* The oldest message is written to s.
Deliver(s) ==
  /\ sendQ # <<>>
  /\ LET m == Head(sendQ) IN
       /\ m.buf = "text"
       /\ s = m.to \/ peer[m.to] \in Ends
       /\ wire' = [wire EXCEPT ![s] = Append(@, [n |-> m.n, to |-> m.to])]
  /\ peer[s] # "idle" /\ s \notin told
  /\ sendQ' = Tail(sendQ)
  /\ UNCHANGED <<clients, owners, pushed>>

\* The oldest message is lost: its first byte is 0, its client is gone, the
\* write fails.
Lose ==
  /\ sendQ # <<>>
  /\ sendQ' = Tail(sendQ)
  /\ UNCHANGED <<clients, owners, pushed, wire>>

-----------------------------------------------------------------------------
Outside ==
  \/ \E s \in Sessions :
       \/ Connect(s) \/ PeerSend(s)
       \/ \E how \in Ends : PeerEnd(s, how)
       \/ Deliver(s)
  \/ Lose

LinkNext ==
  \/ Outside
  \/ \E s \in Sessions, c \in Ids : HearChunk(s, c) \/ HearEnd(s, c)
  \/ \E c \in Ids, buf \in SendBufs : PushSendMessage(c, buf)

LinkSpec == LinkInit /\ [][LinkNext]_linkVars
=============================================================================
