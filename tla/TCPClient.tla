------------------------------ MODULE TCPClient ------------------------------
(***************************************************************************)
(* uv::TCPClient (Server/NetApp/NetFrame.cpp): a network thread that keeps *)
(* one connection to a server and connects again when it is lost, and the  *)
(* thread that owns the client object.  They share the atomic status and   *)
(* m_SendMessage; nothing ever enters m_RecvMessage, since read_cb drops   *)
(* what it reads.                                                          *)
(*                                                                         *)
(* The network thread lives as long as uv_run has something to wait for: a *)
(* connect or a close under way, the timer, a stream being read.  Its loop *)
(* runs one callback at a time; a callback is cut where it looks at the    *)
(* status a second time, since Close may come between.                     *)
(***************************************************************************)
EXTENDS Naturals, Sequences

CONSTANT MaxSends   \* bound: messages the owner sends

ASSUME MaxSendsAssumption == MaxSends \in Nat

VARIABLES
  status,      \* the atomic STATUS: "NONE", "RUNING", "CLOSE"
  owner,       \* the owner's thread: "running", "joining" in Close, "joined"
  pc,          \* the network thread; "loop" between two callbacks
  client,      \* the uv_tcp_t
  reading,     \* uv_read_start has been called on it
  down,        \* uv_shutdown has been called on it
  peer,        \* the server's end of the connection is open
  timer,       \* the timer is armed
  writing,     \* write_req is in use by libuv
  sendQ,       \* m_SendMessage: the numbers of the messages
  pushed,      \* number of PushSendMssage calls so far
  wire,        \* history: the messages written to the server
  callFailed   \* history: a call of Start, a uv_tcp_connect or a call that arms
               \* the timer has failed

stream == <<client, reading, down, peer, writing>>
sends == <<sendQ, pushed, wire>>
vars == <<status, owner, pc, client, reading, down, peer, timer, writing,
          sendQ, pushed, wire, callFailed>>

TypeOK ==
  /\ status \in {"NONE", "RUNING", "CLOSE"}
  /\ owner \in {"running", "joining", "joined"}
  /\ pc \in {"start", "loop", "connected", "tick", "exited", "crashed"}
  /\ client \in {"fresh", "connecting", "up", "closing"}
  /\ reading \in BOOLEAN /\ down \in BOOLEAN /\ peer \in BOOLEAN
  /\ timer \in BOOLEAN /\ writing \in BOOLEAN /\ callFailed \in BOOLEAN
  /\ sendQ \in Seq(1..MaxSends)
  /\ pushed \in 0..MaxSends
  /\ wire \in Seq(1..MaxSends)

\* Run has started the network thread.
Init ==
  /\ status = "NONE" /\ owner = "running" /\ pc = "start"
  /\ client = "fresh" /\ timer = FALSE
  /\ reading = FALSE /\ down = FALSE /\ peer = FALSE /\ writing = FALSE
  /\ sendQ = <<>> /\ pushed = 0 /\ wire = <<>>
  /\ callFailed = FALSE

-----------------------------------------------------------------------------
(* The network thread: Start and the connection.                           *)

Start ==
  /\ pc = "start"
  /\ pc' = "loop"
  /\ client' = "connecting"
  /\ UNCHANGED <<status, owner, reading, down, peer, timer, writing, sends,
                 callFailed>>

StartFail ==
  /\ pc = "start"
  /\ pc' = "exited"
  /\ callFailed' = TRUE
  /\ UNCHANGED <<status, owner, stream, timer, sends>>

\* uv_timer_init and uv_timer_start in connect_cb, and the uv_timer_start at the
\* end of timer_cb: both callbacks return when such a call fails.
StartTimer ==
  \/ timer' = TRUE /\ UNCHANGED callFailed
  \/ callFailed' = TRUE /\ UNCHANGED timer

\* connect_cb of a connection that is made, up to the load of the status ...
ConnectCb ==
  /\ pc = "loop" /\ client = "connecting"
  /\ client' = "up"
  /\ peer' = TRUE
  /\ IF status = "NONE"
     THEN pc' = "connected" /\ UNCHANGED <<timer, callFailed>>
     ELSE StartTimer /\ UNCHANGED pc
  /\ UNCHANGED <<status, owner, reading, down, writing, sends>>

\* ... and the store.
ConnectStore ==
  /\ pc = "connected"
  /\ status' = "RUNING"
  /\ StartTimer
  /\ pc' = "loop"
  /\ UNCHANGED <<owner, stream, sends>>

\* Wrong variant: the timer is not armed.
ConnectCbFail_NoTimer ==
  /\ pc = "loop" /\ client = "connecting"
  /\ client' = "fresh"
  /\ UNCHANGED <<status, owner, pc, reading, down, peer, timer, writing, sends,
                 callFailed>>

\* connect_cb of a connection that is not.
ConnectCbFail ==
  /\ pc = "loop" /\ client = "connecting"
  /\ client' = "fresh"
  /\ StartTimer
  /\ UNCHANGED <<status, owner, pc, reading, down, peer, writing, sends>>

\* read_cb with nread < 0: the connection is lost.
ReadEnd ==
  /\ pc = "loop" /\ client = "up" /\ reading /\ ~peer
  /\ client' = "closing"
  /\ reading' = FALSE
  /\ UNCHANGED <<status, owner, pc, down, peer, timer, writing, sends,
                 callFailed>>

\* Wrong variant: the status is left as it is.
CloseCb_NoStore ==
  /\ pc = "loop" /\ client = "closing"
  /\ client' = "fresh"
  /\ down' = FALSE /\ writing' = FALSE
  /\ UNCHANGED <<status, owner, pc, reading, peer, timer, sends, callFailed>>

\* close_cb: the status is NONE, whatever it was, and the handle like new.
CloseCb ==
  /\ pc = "loop" /\ client = "closing"
  /\ status' = "NONE"
  /\ client' = "fresh"
  /\ down' = FALSE /\ writing' = FALSE
  /\ UNCHANGED <<owner, pc, reading, peer, timer, sends, callFailed>>

WriteCb ==
  /\ pc = "loop" /\ writing
  /\ writing' = FALSE
  /\ UNCHANGED <<status, owner, pc, client, reading, down, peer, timer, sends,
                 callFailed>>

-----------------------------------------------------------------------------
(* timer_cb.                                                               *)

\* Wrong variant: the connection is not shut down.
TimerClose_NoShutdown ==
  /\ pc = "loop" /\ timer /\ status = "CLOSE"
  /\ timer' = FALSE
  /\ UNCHANGED <<status, owner, pc, stream, sends, callFailed>>

\* The status is CLOSE: the connection, if there is one, is shut down, and the
\* timer is not armed again.
TimerClose ==
  /\ pc = "loop" /\ timer /\ status = "CLOSE"
  /\ timer' = FALSE
  /\ down' = (client = "up" \/ down)
  /\ UNCHANGED <<status, owner, pc, client, reading, peer, writing, sends,
                 callFailed>>

\* It is not: it is loaded again.
TimerTick ==
  /\ pc = "loop" /\ timer /\ status # "CLOSE"
  /\ timer' = FALSE
  /\ pc' = "tick"
  /\ UNCHANGED <<status, owner, stream, sends, callFailed>>

\* Wrong variants: the timer is armed beside the connect; instead of it.
TimerReconnect_Rearm ==
  /\ pc = "tick" /\ status = "NONE"
  /\ client' = IF client = "fresh" THEN "connecting" ELSE client
  /\ timer' = TRUE
  /\ pc' = "loop"
  /\ UNCHANGED <<status, owner, reading, down, peer, writing, sends, callFailed>>
TimerReconnect_Never ==
  /\ pc = "tick" /\ status = "NONE"
  /\ timer' = TRUE
  /\ pc' = "loop"
  /\ UNCHANGED <<status, owner, stream, sends, callFailed>>

\* The second load yields NONE: connect again.  The result of the call is not
\* looked at: connect_cb arms the timer, or nothing does.
TimerReconnect ==
  /\ pc = "tick" /\ status = "NONE"
  /\ \/ client = "fresh" /\ client' = "connecting" /\ UNCHANGED callFailed
     \/ callFailed' = TRUE /\ UNCHANGED client
  /\ pc' = "loop"
  /\ UNCHANGED <<status, owner, reading, down, peer, timer, writing, sends>>

\* Wrong variant: nothing is read.
StartReading_Never == UNCHANGED reading

\* uv_read_start, whose result is not looked at.
StartReading == reading' = (client = "up" \/ reading)

\* Wrong variant: an empty message is written when the queue is empty.
SendOne_NoCheck ==
  /\ sendQ' = IF sendQ = <<>> THEN sendQ ELSE Tail(sendQ)
  /\ client = "up"
  /\ wire' = Append(wire, IF sendQ = <<>> THEN 0 ELSE Head(sendQ))
  /\ writing' \in BOOLEAN

\* At most one message is sent; it is lost when uv_write fails, as it does
\* while the client is not connected.
SendOne ==
  \/ sendQ = <<>> /\ UNCHANGED <<sendQ, wire, writing>>
  \/ /\ sendQ # <<>>
     /\ sendQ' = Tail(sendQ)
     /\ \/ UNCHANGED <<wire, writing>>
        \/ /\ client = "up"
           /\ wire' = Append(wire, Head(sendQ))
           /\ writing' \in BOOLEAN

\* The second load yields any other value: read, send, arm the timer again.
TimerServe ==
  /\ pc = "tick" /\ status # "NONE"
  /\ StartReading
  /\ SendOne
  /\ StartTimer
  /\ pc' = "loop"
  /\ UNCHANGED <<status, owner, client, down, peer, pushed>>

\* There is one write_req: a second write while libuv still uses it is
\* undefined behaviour, and may crash the process.
TimerCrash ==
  /\ pc = "tick" /\ status # "NONE"
  /\ sendQ # <<>> /\ client = "up" /\ writing
  /\ pc' = "crashed"
  /\ UNCHANGED <<status, owner, stream, timer, sends, callFailed>>

TimerCb == TimerClose \/ TimerTick \/ TimerReconnect \/ TimerServe \/ TimerCrash

\* uv_run has nothing left to wait for and returns.
LoopExit ==
  /\ pc = "loop"
  /\ ~timer /\ ~reading /\ ~writing
  /\ client \notin {"connecting", "closing"}
  /\ pc' = "exited"
  /\ UNCHANGED <<status, owner, stream, timer, sends, callFailed>>

-----------------------------------------------------------------------------
(* The server at the other end, and the owner.                             *)

\* The server ends the connection, or the network does.
PeerEnd ==
  /\ client = "up" /\ peer
  /\ peer' = FALSE
  /\ UNCHANGED <<status, owner, pc, client, reading, down, timer, writing,
                 sends, callFailed>>

\* Wrong variant: the newest message is sent first.
Enqueue_Front(m) == sendQ' = <<m>> \o sendQ

Enqueue(m) == sendQ' = Append(sendQ, m)

PushSendMssage ==
  /\ owner = "running" /\ pc # "crashed"
  /\ pushed < MaxSends
  /\ pushed' = pushed + 1
  /\ Enqueue(pushed + 1)
  /\ UNCHANGED <<status, owner, pc, stream, timer, wire, callFailed>>

\* Close: the status is set ...
Close ==
  /\ owner = "running" /\ pc # "crashed"
  /\ status' = "CLOSE"
  /\ owner' = "joining"
  /\ UNCHANGED <<pc, stream, timer, sends, callFailed>>

\* ... and thread_->join() returns when Start has.
Join ==
  /\ owner = "joining" /\ pc = "exited"
  /\ owner' = "joined"
  /\ UNCHANGED <<status, pc, stream, timer, sends, callFailed>>

-----------------------------------------------------------------------------
Network ==
  \/ Start \/ StartFail \/ ConnectCb \/ ConnectStore \/ ConnectCbFail
  \/ ReadEnd \/ CloseCb \/ WriteCb \/ TimerCb \/ LoopExit

Next == Network \/ PeerEnd \/ PushSendMssage \/ Close \/ Join

Spec == Init /\ [][Next]_vars

\* The loop runs the callbacks that are due: an iteration polls the stream and
\* runs the close callbacks between two timer passes (strong fairness, since a
\* timer pass disables them while it runs).  A server listens, so that trying
\* again and again connects in the end, and it ends a connection the client
\* has shut down.  Nothing makes a call fail or anybody call Close.
Fairness ==
  /\ WF_vars(Start) /\ SF_vars(ConnectCb) /\ WF_vars(ConnectCb \/ ConnectCbFail)
  /\ WF_vars(ConnectStore) /\ WF_vars(TimerCb) /\ SF_vars(ReadEnd)
  /\ SF_vars(CloseCb) /\ WF_vars(LoopExit) /\ WF_vars(Join)
  /\ WF_vars(down /\ PeerEnd)

FairSpec == Spec /\ Fairness

-----------------------------------------------------------------------------
(* Properties.                                                             *)

\* connect_cb initialises the timer: while a connect is under way the timer
\* must not be armed, or libuv's list of timers would hold a dead entry.
OneDriver == client = "connecting" => ~timer /\ pc # "tick"

\* timer_cb judges the connection by the status: RUNING only while there is
\* one that has not been closed completely, NONE only while there is none,
\* but for the moment connect_cb takes to store RUNING.
StatusTracksConnection ==
  /\ status = "RUNING" => client \in {"up", "closing"}
  /\ status = "NONE" => client \in {"fresh", "connecting"} \/ pc = "connected"

\* The server gets the messages in the order of the PushSendMssage calls.
SentInOrder ==
  \A i, j \in 1..Len(wire) : i < j => wire[i] < wire[j]

\* Nothing but its owner's Close, or a uv_ call that fails, ends the network
\* thread: every callback leaves the loop something to wait for.
LivesUntilClose == pc = "exited" => owner # "running" \/ callFailed

Ended == pc \in {"exited", "crashed"}

\* A client that has no connection connects again ("connect again after a
\* disconnection", NetFrame.cpp:433).
Reconnects == (status = "NONE") ~> (status # "NONE" \/ Ended)

\* A connection the server has ended is closed, so that a new one can be made,
\* unless the client is being closed before it ever read from it.
LossNoticed ==
  (client = "up" /\ ~peer) ~> (client # "up" \/ Ended \/ owner # "running")

\* Close returns once timer_cb has seen the status CLOSE.  No call has failed
\* before: a timer that could not be armed is off for another reason.
CloseSeen ==
  /\ owner = "joining" /\ pc = "loop" /\ status = "CLOSE" /\ ~timer
  /\ client \in {"fresh", "up"} /\ ~callFailed

CloseReturnsOnceSeen == CloseSeen ~> (owner = "joined" \/ pc = "crashed")

\* Close returns ("closed", NetFrame.h:22).
CloseReturns == (owner = "joining") ~> (owner = "joined" \/ pc = "crashed")
=============================================================================
