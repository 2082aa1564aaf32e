--------------------------- MODULE TCPClientProofs ---------------------------
(***************************************************************************)
(* Theorems about TCPClient: for any number of messages, and whatever the  *)
(* server, the network and the owner do, exactly one of connect and timer  *)
(* drives the network thread, its status says whether there is a           *)
(* connection, and it lives until it is closed.                            *)
(***************************************************************************)
EXTENDS TCPClient, TLAPS

\* STATUS has three values.
StatusOK == status \in {"NONE", "RUNING", "CLOSE"}

\* What keeps the loop alive between two callbacks: as long as the owner has
\* not called Close and no call has failed, the timer or a connect.
Driven ==
  pc = "loop" =>
    timer \/ client = "connecting" \/ owner # "running" \/ callFailed

\* timer_cb was run by the timer, which is now off, on a handle that is
\* connected, or not, or closing; connect_cb runs on one that is connected.
Phases ==
  /\ pc = "start" => client = "fresh" /\ status # "RUNING" /\ ~timer
  /\ pc = "tick" => client # "connecting" /\ ~timer
  /\ pc = "connected" => client = "up" /\ ~timer
  /\ status = "CLOSE" => owner # "running"

\* None of the three properties is inductive by itself; together with the
\* above they are.
DriverInv ==
  /\ StatusOK /\ Driven /\ Phases
  /\ OneDriver /\ StatusTracksConnection /\ LivesUntilClose

\* Init establishes the invariant of the drivers.
LEMMA DriverInit == Init => DriverInv
  BY DEF Init, DriverInv, StatusOK, Driven, Phases, OneDriver,
         StatusTracksConnection, LivesUntilClose

\* Every callback, and every step of the owner and the server, keeps it.
LEMMA DriverStep == DriverInv /\ [Next]_vars => DriverInv'
<1> SUFFICES ASSUME DriverInv, [Next]_vars PROVE DriverInv'
  OBVIOUS
<1> USE DEF DriverInv, StatusOK, Driven, Phases, OneDriver,
            StatusTracksConnection, LivesUntilClose, stream, sends, StartTimer
<1>1. CASE Start
  BY <1>1 DEF Start
<1>2. CASE StartFail
  BY <1>2 DEF StartFail
<1>3. CASE ConnectCb
  BY <1>3 DEF ConnectCb
<1>4. CASE ConnectStore
  BY <1>4 DEF ConnectStore
<1>5. CASE ConnectCbFail
  BY <1>5 DEF ConnectCbFail
<1>6. CASE ReadEnd
  BY <1>6 DEF ReadEnd
<1>7. CASE CloseCb
  BY <1>7 DEF CloseCb
<1>8. CASE WriteCb
  BY <1>8 DEF WriteCb
<1>9. CASE TimerCb
  <2>1. CASE TimerClose
    BY <2>1 DEF TimerClose
  <2>2. CASE TimerTick
    BY <2>2 DEF TimerTick
  <2>3. CASE TimerReconnect
    BY <2>3 DEF TimerReconnect
  <2>4. CASE TimerServe
    BY <2>4 DEF TimerServe
  <2>5. CASE TimerCrash
    BY <2>5 DEF TimerCrash
  <2> QED
    BY <1>9, <2>1, <2>2, <2>3, <2>4, <2>5 DEF TimerCb
<1>10. CASE LoopExit
  BY <1>10 DEF LoopExit
<1>11. CASE PeerEnd
  BY <1>11 DEF PeerEnd
<1>12. CASE PushSendMssage
  BY <1>12 DEF PushSendMssage
<1>13. CASE Close
  BY <1>13 DEF Close
<1>14. CASE Join
  BY <1>14 DEF Join
<1>15. CASE UNCHANGED vars
  BY <1>15 DEF vars
<1> QED
  BY <1>1, <1>2, <1>3, <1>4, <1>5, <1>6, <1>7, <1>8, <1>9, <1>10, <1>11,
     <1>12, <1>13, <1>14, <1>15 DEF Next, Network

\* Hence it is an invariant.
LEMMA DriverAlways == Spec => []DriverInv
  BY DriverInit, DriverStep, PTL DEF Spec

\* Never both a connect under way and the timer armed: connect_cb may
\* initialise the timer.
THEOREM OneDriverAlways == Spec => []OneDriver
<1>1. DriverInv => OneDriver
  BY DEF DriverInv
<1> QED
  BY <1>1, DriverAlways, PTL

\* The status timer_cb looks at says whether there is a connection.
THEOREM StatusRight == Spec => []StatusTracksConnection
<1>1. DriverInv => StatusTracksConnection
  BY DEF DriverInv
<1> QED
  BY <1>1, DriverAlways, PTL

\* Only Close, or a uv_ call that fails, ends the network thread.
THEOREM ThreadLives == Spec => []LivesUntilClose
<1>1. DriverInv => LivesUntilClose
  BY DEF DriverInv
<1> QED
  BY <1>1, DriverAlways, PTL

-----------------------------------------------------------------------------
(* The end.                                                                *)

\* Neither the timer nor a connect is left, and there is no way back to one.
Undriven ==
  /\ owner # "running" /\ pc \in {"loop", "exited"}
  /\ ~timer /\ client # "connecting"

LEMMA UndrivenStep == Undriven /\ [Next]_vars => Undriven' /\ wire' = wire
<1> SUFFICES ASSUME Undriven, [Next]_vars PROVE Undriven' /\ wire' = wire
  OBVIOUS
<1> USE DEF Undriven, stream, sends
<1>1. CASE ReadEnd \/ CloseCb \/ WriteCb \/ LoopExit
  BY <1>1 DEF ReadEnd, CloseCb, WriteCb, LoopExit
<1>2. CASE PeerEnd \/ Join
  BY <1>2 DEF PeerEnd, Join
<1>3. CASE UNCHANGED vars
  BY <1>3 DEF vars
<1>4. ~(Start \/ StartFail \/ ConnectCb \/ ConnectStore \/ ConnectCbFail \/ TimerCb)
  BY DEF Start, StartFail, ConnectCb, ConnectStore, ConnectCbFail, TimerCb,
         TimerClose, TimerTick, TimerReconnect, TimerServe, TimerCrash
<1>5. ~(PushSendMssage \/ Close)
  BY DEF PushSendMssage, Close
<1> QED
  BY <1>1, <1>2, <1>3, <1>4, <1>5 DEF Next, Network

\* Once timer_cb has seen CLOSE the client never connects or arms its timer
\* again, whatever close_cb and the server still do to its status, and writes
\* nothing more (NetFrame.cpp:425-430): what is left of Close is to end.
THEOREM ClosedForGood ==
  Spec => [](CloseSeen => []Undriven /\ [][wire' = wire]_vars)
<1>1. CloseSeen => Undriven
  BY DEF CloseSeen, Undriven
<1>2. Spec => [][Next]_vars
  BY PTL DEF Spec
<1>3. Undriven /\ [Next]_vars => [wire' = wire]_vars
  BY UndrivenStep
<1> QED
  BY <1>1, <1>2, <1>3, UndrivenStep, PTL

-----------------------------------------------------------------------------
(* Types, and the order of the messages.                                   *)

\* Init establishes the types.
LEMMA TypeInit == Init => TypeOK
<1> SUFFICES ASSUME Init PROVE TypeOK
  OBVIOUS
<1>1. sendQ \in Seq(1..MaxSends) /\ wire \in Seq(1..MaxSends)
  BY DEF Init
<1>2. pushed \in 0..MaxSends
  BY MaxSendsAssumption DEF Init
<1> QED
  BY <1>1, <1>2 DEF Init, TypeOK

\* GetSendMessage and uv_write keep the types of the queue and the wire.
LEMMA SendOneTypes ==
  ASSUME TypeOK, SendOne
  PROVE  /\ sendQ' \in Seq(1..MaxSends) /\ wire' \in Seq(1..MaxSends)
         /\ writing' \in BOOLEAN
<1>1. CASE sendQ = <<>> /\ UNCHANGED <<sendQ, wire, writing>>
  BY <1>1 DEF TypeOK
<1>2. CASE sendQ # <<>> /\ sendQ' = Tail(sendQ) /\ UNCHANGED <<wire, writing>>
  <2>1. Tail(sendQ) \in Seq(1..MaxSends)
    BY <1>2 DEF TypeOK
  <2> QED
    BY <1>2, <2>1 DEF TypeOK
<1>3. CASE /\ sendQ # <<>> /\ sendQ' = Tail(sendQ)
           /\ wire' = Append(wire, Head(sendQ)) /\ writing' \in BOOLEAN
  <2> DEFINE T == 1..MaxSends
  <2>0. sendQ \in Seq(T) /\ sendQ # <<>> /\ wire \in Seq(T)
    BY <1>3 DEF TypeOK
  <2> HIDE DEF T
  <2>1. Head(sendQ) \in T /\ Tail(sendQ) \in Seq(T)
    BY <2>0
  <2>2. Append(wire, Head(sendQ)) \in Seq(T)
    BY <2>0, <2>1
  <2> QED
    BY <1>3, <2>1, <2>2 DEF T
<1> QED
  BY <1>1, <1>2, <1>3 DEF SendOne

\* Every step keeps them.
LEMMA TypeStep == TypeOK /\ [Next]_vars => TypeOK'
<1> SUFFICES ASSUME TypeOK, [Next]_vars PROVE TypeOK'
  OBVIOUS
<1> USE DEF stream, sends
<1>1. CASE TimerServe
  <2>1. reading' \in BOOLEAN
    BY <1>1, Zenon DEF TimerServe, StartReading, TypeOK
  <2> QED
    BY <1>1, <2>1, SendOneTypes DEF TimerServe, StartTimer, TypeOK
<1>2. CASE PushSendMssage
  <2>1. pushed + 1 \in 1..MaxSends
    BY <1>2, MaxSendsAssumption DEF PushSendMssage, TypeOK
  <2>2. sendQ' \in Seq(1..MaxSends)
    BY <1>2, <2>1 DEF PushSendMssage, Enqueue, TypeOK
  <2> QED
    BY <1>2, <2>1, <2>2 DEF PushSendMssage, TypeOK
<1>3. CASE TimerClose
  <2>1. down' \in BOOLEAN
    BY <1>3, Zenon DEF TimerClose, TypeOK
  <2> QED
    BY <1>3, <2>1 DEF TimerClose, TypeOK
<1>4. CASE Start \/ StartFail \/ ConnectStore \/ ConnectCbFail
  BY <1>4 DEF Start, StartFail, ConnectStore, ConnectCbFail, StartTimer, TypeOK
<1>5. CASE ConnectCb
  BY <1>5 DEF ConnectCb, StartTimer, TypeOK
<1>6. CASE ReadEnd \/ CloseCb \/ WriteCb \/ LoopExit
  BY <1>6 DEF ReadEnd, CloseCb, WriteCb, LoopExit, TypeOK
<1>7. CASE TimerTick \/ TimerReconnect \/ TimerCrash
  BY <1>7 DEF TimerTick, TimerReconnect, TimerCrash, TypeOK
<1>8. CASE PeerEnd \/ Close \/ Join
  BY <1>8 DEF PeerEnd, Close, Join, TypeOK
<1>9. CASE UNCHANGED vars
  BY <1>9 DEF vars, TypeOK
<1> QED
  BY <1>1, <1>2, <1>3, <1>4, <1>5, <1>6, <1>7, <1>8, <1>9
  DEF Next, Network, TimerCb

\* Every variable of the client keeps its type, for every bound.
THEOREM ClientTypeCorrect == Spec => []TypeOK
  BY TypeInit, TypeStep, PTL DEF Spec

\* SentInOrder is not inductive: the queue behind the wire is in order, too,
\* and holds only messages pushed.
OrderInv ==
  /\ SentInOrder
  /\ \A i, j \in 1..Len(sendQ) : i < j => sendQ[i] < sendQ[j]
  /\ \A i \in 1..Len(wire), j \in 1..Len(sendQ) : wire[i] < sendQ[j]
  /\ \A i \in 1..Len(wire) : wire[i] <= pushed
  /\ \A j \in 1..Len(sendQ) : sendQ[j] <= pushed

\* Nothing is queued or sent at first.
LEMMA OrderInit == Init => OrderInv
  BY DEF Init, OrderInv, SentInOrder

\* An element of a sequence is one of the set.
LEMMA ElementType ==
  ASSUME NEW S, NEW q \in Seq(S), NEW i \in 1..Len(q)
  PROVE  q[i] \in S
OBVIOUS

\* Messages are numbers.
LEMMA NumberType ==
  ASSUME NEW q \in Seq(1..MaxSends), NEW i \in 1..Len(q)
  PROVE  q[i] \in Nat
<1>1. q[i] \in 1..MaxSends
  BY ElementType
<1> QED
  BY <1>1

\* Sending a message keeps the order: the head of the queue is newer than
\* everything on the wire and older than the rest of the queue.
LEMMA SendOneOrder ==
  ASSUME TypeOK, OrderInv, SendOne, pushed' = pushed PROVE OrderInv'
<1>1. CASE sendQ = <<>> /\ UNCHANGED <<sendQ, wire, writing>>
  BY <1>1 DEF OrderInv, SentInOrder
<1>2. ASSUME sendQ # <<>>, sendQ' = Tail(sendQ)
      PROVE  /\ Len(sendQ) > 0 /\ Len(sendQ') = Len(sendQ) - 1
             /\ \A i \in 1..Len(sendQ') : sendQ'[i] = sendQ[i + 1]
  BY <1>2 DEF TypeOK
<1>3. CASE sendQ # <<>> /\ sendQ' = Tail(sendQ) /\ UNCHANGED <<wire, writing>>
  BY <1>2, <1>3 DEF TypeOK, OrderInv, SentInOrder
<1>4. CASE /\ sendQ # <<>> /\ sendQ' = Tail(sendQ)
           /\ wire' = Append(wire, Head(sendQ))
  <2>1. /\ Len(wire') = Len(wire) + 1
        /\ \A i \in 1..Len(wire) : wire'[i] = wire[i]
        /\ wire'[Len(wire) + 1] = sendQ[1]
    BY <1>2, <1>4 DEF TypeOK
  <2> QED
    BY <1>2, <1>4, <2>1 DEF TypeOK, OrderInv, SentInOrder
<1> QED
  BY <1>1, <1>3, <1>4 DEF SendOne

\* So does every step.
LEMMA OrderStep == TypeOK /\ OrderInv /\ [Next]_vars => OrderInv'
<1> SUFFICES ASSUME TypeOK, OrderInv, [Next]_vars PROVE OrderInv'
  OBVIOUS
<1>1. CASE TimerServe
  BY <1>1, SendOneOrder DEF TimerServe
<1>2. CASE PushSendMssage
  <2>1. /\ Len(sendQ') = Len(sendQ) + 1
        /\ \A i \in 1..Len(sendQ) : sendQ'[i] = sendQ[i]
        /\ sendQ'[Len(sendQ) + 1] = pushed + 1
        /\ wire' = wire /\ pushed' = pushed + 1
    BY <1>2 DEF PushSendMssage, Enqueue, TypeOK
  <2>2. Len(sendQ) \in Nat /\ Len(wire) \in Nat /\ pushed \in Nat
    BY DEF TypeOK
  <2>3. \A i \in 1..Len(wire) : wire[i] \in Nat
    BY NumberType DEF TypeOK
  <2>4. \A j \in 1..Len(sendQ) : sendQ[j] \in Nat
    BY NumberType DEF TypeOK
  <2>5. \A i \in 1..Len(wire), j \in 1..Len(sendQ') : wire[i] < sendQ'[j]
    BY <2>1, <2>2, <2>3, <2>4 DEF OrderInv
  <2>6. \A j \in 1..Len(sendQ') : sendQ'[j] <= pushed'
    BY <2>1, <2>2, <2>4 DEF OrderInv
  <2>7. \A i, j \in 1..Len(sendQ') : i < j => sendQ'[i] < sendQ'[j]
    <3> SUFFICES ASSUME NEW i \in 1..Len(sendQ'), NEW j \in 1..Len(sendQ'),
                        i < j
                 PROVE  sendQ'[i] < sendQ'[j]
      OBVIOUS
    <3>1. i \in 1..Len(sendQ) /\ (j \in 1..Len(sendQ) \/ j = Len(sendQ) + 1)
      BY <2>1, <2>2
    <3>2. CASE j \in 1..Len(sendQ)
      BY <2>1, <3>1, <3>2 DEF OrderInv
    <3>3. CASE j = Len(sendQ) + 1
      BY <2>1, <2>2, <2>4, <3>1, <3>3 DEF OrderInv
    <3> QED
      BY <3>1, <3>2, <3>3
  <2>8. \A i \in 1..Len(wire') : wire'[i] <= pushed'
    BY <2>1, <2>2, <2>3 DEF OrderInv
  <2> QED
    BY <2>1, <2>5, <2>6, <2>7, <2>8 DEF OrderInv, SentInOrder
<1>3. CASE UNCHANGED sends
  BY <1>3 DEF sends, OrderInv, SentInOrder
<1>4. TimerServe \/ PushSendMssage \/ UNCHANGED sends
  BY DEF Next, Network, TimerCb, Start, StartFail, ConnectCb, ConnectStore,
         ConnectCbFail, ReadEnd, CloseCb, WriteCb, LoopExit, TimerClose,
         TimerTick, TimerReconnect, TimerCrash, PeerEnd, Close, Join, vars,
         sends, stream
<1> QED
  BY <1>1, <1>2, <1>3, <1>4

\* The server gets the messages in the order of the PushSendMssage calls.
THEOREM OrderKept == Spec => []SentInOrder
<1>1. OrderInv => SentInOrder
  BY DEF OrderInv
<1> QED
  BY <1>1, OrderInit, OrderStep, ClientTypeCorrect, PTL DEF Spec
=============================================================================
