--------------------------- MODULE SessionProofs ---------------------------
(***************************************************************************)
(* Theorems about Session for every number of threads, senders, calls and  *)
(* messages.                                                               *)
(***************************************************************************)
EXTENDS Session, TLAPS

-----------------------------------------------------------------------------
(* The send side: which steps touch it, and how. *)

\* Fresh(n) is a sequence of n numbers counting on from committed.
LEMMA FreshSeq ==
  ASSUME committed \in Nat, NEW n \in Nat
  PROVE  /\ Fresh(n) \in Seq(Nat)
         /\ Len(Fresh(n)) = n
         /\ \A i \in 1..n : Fresh(n)[i] = committed + i
BY DEF Fresh

\* handle_send() after a successful transfer.
Consume == /\ sendOp = "ok"
           /\ StartSend([bufs EXCEPT ![1 - acc] =
                           SubSeq(@, sendLen + 1, Len(@))])
           /\ UNCHANGED <<committed, wire>>

\* A transfer of n bytes by the kernel.
Transfer(n) == /\ sendOp = "started" /\ partial' = (partial \/ n < sendLen)
               /\ wire' = wire \o SubSeq(bufs[1 - acc], 1, n)
               /\ sendOp' = "ok" /\ sendLen' = n
               /\ UNCHANGED <<tx, acc, bufs, committed>>

\* The operation ends with an error, or its handler has taken the error.
Fail == /\ \/ sendOp = "started" /\ sendOp' = "err"
           \/ sendOp = "err" /\ sendOp' = "none"
        /\ UNCHANGED <<tx, acc, bufs, sendLen, committed, wire>>

\* Every step leaves the send side alone or is one of four operations on it.
LEMMA SendSideSteps ==
  ASSUME [Next]_vars
  PROVE  \/ UNCHANGED <<sendVars, wire>>
         \/ \E n \in {0, FrameLen} : Append2Acc(n) /\ UNCHANGED wire
         \/ Consume
         \/ \E n \in 1..sendLen : Transfer(n)
         \/ Fail
<1>1. CASE StartSteps
  BY <1>1 DEF StartSteps, Start, StartThrows, StartNotify, envVars, sendVars
<1>2. CASE SendSteps
  BY <1>2 DEF SendSteps, HandleSend, OnSent, HandleSendErr, CloseSocket, NotifyClosed,
     Consume, Fail, envVars, sendVars
<1>3. CASE RecvSteps
  BY <1>3 DEF RecvSteps, HandleRecv, OnReceived, HandleRecvErr, HandshakeWaits,
     HandshakeStep, HandshakeReply, HandshakeDone, HandshakeThrows, RecvFrame,
     RecvFrameThrows, RecvFramesDone, CloseSocket, NotifyClosed, envVars
<1>4. CASE Application
  BY <1>4 DEF Application, SendCheck, SendCommit, SendThrows, AppClose, envVars
<1>5. CASE KernelSend
  BY <1>5 DEF KernelSend, SocketSend, SocketSendFails, Transfer, Fail, envVars
<1>6. CASE KernelRecv \/ PeerSend \/ PeerClose
  BY <1>6 DEF KernelRecv, SocketRecv, SocketRecvFails, PeerSend, PeerClose,
     envVars
<1>7. CASE UNCHANGED vars
  BY <1>7 DEF vars, envVars
<1>8. QED
  BY <1>1, <1>2, <1>3, <1>4, <1>5, <1>6, <1>7 DEF Next

\* A locked send() keeps the types of the send side.
LEMMA AppendType ==
  ASSUME SendTypeOK, NEW n \in Nat, Append2Acc(n), UNCHANGED wire
  PROVE  SendTypeOK'
<1> DEFINE b == [bufs EXCEPT ![acc] = @ \o Fresh(n)]
<1>1. b \in [{0, 1} -> Seq(Nat)]
  <2>1. Fresh(n) \in Seq(Nat) BY FreshSeq DEF SendTypeOK
  <2>2. QED BY <2>1 DEF SendTypeOK
<1>2. committed' \in Nat /\ bufs' = b
  BY DEF SendTypeOK, Append2Acc, StartSend
<1>3. /\ tx' \in {"idle", "sending"} /\ acc' \in {0, 1}
      /\ sendOp' \in Op /\ sendLen' \in Nat
      /\ sendOp' \in {"started", "ok"} => sendLen' <= Len(b[1 - acc'])
  <2>0. b[1 - acc] = bufs[1 - acc]
    BY DEF SendTypeOK
  <2> HIDE DEF b
  <2>1. CASE Sending
    BY <2>0, <2>1 DEF SendTypeOK, Append2Acc
  <2>2. CASE ~Sending
    <3>1. StartSend(b) BY <2>2 DEF Append2Acc, b
    <3>2. QED BY <1>1, <3>1, SMTT(20) DEF SendTypeOK, StartSend, Op
  <2>3. QED BY <2>1, <2>2
<1>4. QED
  BY <1>1, <1>2, <1>3 DEF SendTypeOK

\* handle_send() keeps the types of the send side.
LEMMA ConsumeType ==
  ASSUME SendTypeOK, Consume
  PROVE  SendTypeOK'
<1> DEFINE b == [bufs EXCEPT ![1 - acc] = SubSeq(@, sendLen + 1, Len(@))]
<1>1. b \in [{0, 1} -> Seq(Nat)]
  BY DEF SendTypeOK
<1>2. StartSend(b)
  BY DEF Consume
<1> HIDE DEF b
<1>3. /\ tx' \in {"idle", "sending"} /\ acc' \in {0, 1} /\ bufs' = b
      /\ sendOp' \in Op /\ sendLen' \in Nat
      /\ sendOp' \in {"started", "ok"} => sendLen' <= Len(b[1 - acc'])
  BY <1>1, <1>2 DEF SendTypeOK, StartSend, Op
<1>4. QED
  BY <1>1, <1>3 DEF SendTypeOK, Consume

\* Every step keeps the types of the send side.
LEMMA SendTypeStep ==
  ASSUME SendTypeOK, [Next]_vars
  PROVE  SendTypeOK'
<1>1. CASE UNCHANGED <<sendVars, wire>>
  BY <1>1 DEF SendTypeOK, sendVars
<1>2. CASE \E n \in {0, FrameLen} : Append2Acc(n) /\ UNCHANGED wire
  BY <1>2, AppendType, SessionAssumption
<1>3. CASE Consume
  BY <1>3, ConsumeType
<1>4. ASSUME NEW n \in 1..sendLen, Transfer(n)
      PROVE  SendTypeOK'
  <2>1. n \in Nat /\ bufs[1 - acc] \in Seq(Nat) BY DEF SendTypeOK
  <2>2. wire' \in Seq(Nat)
    <3>1. n <= Len(bufs[1 - acc]) BY <1>4 DEF SendTypeOK, Transfer
    <3>2. SubSeq(bufs[1 - acc], 1, n) \in Seq(Nat) BY <2>1, <3>1
    <3>3. QED BY <1>4, <3>2 DEF SendTypeOK, Transfer
  <2>3. QED BY <1>4, <2>1, <2>2 DEF SendTypeOK, Transfer, Op
<1>5. CASE Fail
  BY <1>5 DEF SendTypeOK, Fail, Op
<1>6. QED
  BY <1>1, <1>2, <1>3, <1>4, <1>5, SendSideSteps

\* Every step keeps the types of the rest of the state.
LEMMA ControlTypeStep ==
  ASSUME ControlTypeOK, [Next]_vars
  PROVE  ControlTypeOK'
<1> USE SessionAssumption DEF ControlTypeOK, GoTo, Rearm, StartRecv, Op, Handler, Step
<1>1. CASE StartSteps
  BY <1>1 DEF StartSteps, Start, StartThrows, StartNotify, recvVars, appVars,
     envVars, noteVars
<1>2. CASE SendSteps
  BY <1>2 DEF SendSteps, HandleSend, OnSent, HandleSendErr, CloseSocket, NotifyClosed,
     recvVars, appVars, envVars, noteVars
<1>3. CASE RecvSteps
  <2>1. CASE HandleRecv \/ HandleRecvErr \/ HandshakeWaits
    BY <2>1 DEF HandleRecv, OnReceived, HandleRecvErr, HandshakeWaits, appVars, envVars,
       noteVars
  <2>2. CASE HandshakeStep \/ HandshakeReply
    BY <2>2 DEF HandshakeStep, HandshakeReply, appVars, envVars, noteVars
  <2>3. CASE HandshakeDone \/ HandshakeThrows
    BY <2>3 DEF HandshakeDone, HandshakeThrows, recvVars, appVars, envVars,
       noteVars
  <2>4. CASE RecvFrame \/ RecvFrameThrows \/ RecvFramesDone
    BY <2>4 DEF RecvFrame, RecvFrameThrows, RecvFramesDone, appVars, envVars,
       noteVars
  <2>5. CASE CloseSocket("recv") \/ NotifyClosed("recv")
    BY <2>5 DEF CloseSocket, NotifyClosed, recvVars, appVars, envVars, noteVars
  <2>6. QED BY <1>3, <2>1, <2>2, <2>3, <2>4, <2>5 DEF RecvSteps
<1>4. CASE Application
  BY <1>4 DEF Application, SendCheck, SendCommit, SendThrows, AppClose,
     recvVars, appVars, envVars, noteVars
<1>5. CASE KernelSend \/ PeerSend \/ PeerClose
  <2>1. partial' \in BOOLEAN
    BY <1>5, Zenon DEF KernelSend, SocketSend, SocketSendFails, PeerSend, PeerClose, envVars
  <2> QED BY <1>5, <2>1 DEF KernelSend, SocketSend, SocketSendFails, PeerSend, PeerClose,
             recvVars, appVars, envVars, noteVars
<1>6. CASE KernelRecv
  BY <1>6 DEF KernelRecv, SocketRecv, SocketRecvFails, appVars, envVars,
     noteVars
<1>7. CASE UNCHANGED vars
  BY <1>7 DEF vars, recvVars, appVars, envVars, noteVars
<1>8. QED
  BY <1>1, <1>2, <1>3, <1>4, <1>5, <1>6, <1>7 DEF Next

\* The type invariant of the session holds throughout.
THEOREM TypeCorrect == Spec => []TypeOK
<1>1. Init => TypeOK
  <2>1. Init => partial \in BOOLEAN
    BY Zenon DEF Init
  <2> QED BY <2>1 DEF Init, TypeOK, SendTypeOK, ControlTypeOK, Op, Handler, Step
<1>2. TypeOK /\ [Next]_vars => TypeOK'
  BY SendTypeStep, ControlTypeStep DEF TypeOK
<1>3. QED
  BY <1>1, <1>2, PTL DEF Spec

-----------------------------------------------------------------------------
(* The order of the byte stream. *)

\* Two consecutive runs, the second starting where the first ends, make one.
LEMMA ConcatConsecutive ==
  ASSUME NEW s \in Seq(Nat), NEW t \in Seq(Nat), NEW from \in Nat,
         Consecutive(s, from), Consecutive(t, from + Len(s))
  PROVE  /\ s \o t \in Seq(Nat)
         /\ Len(s \o t) = Len(s) + Len(t)
         /\ Consecutive(s \o t, from)
BY DEF Consecutive

\* The types the order argument needs.
LEMMA OrderTypes ==
  ASSUME SendTypeOK, OrderInv
  PROVE  /\ bufs[1 - acc] \in Seq(Nat) /\ bufs[acc] \in Seq(Nat)
         /\ wire \in Seq(Nat) /\ acc \in {0, 1}
         /\ committed \in Nat /\ sendLen \in Nat
         /\ Base \in Nat
<1>1. /\ bufs[1 - acc] \in Seq(Nat) /\ bufs[acc] \in Seq(Nat)
      /\ wire \in Seq(Nat) /\ acc \in {0, 1}
      /\ committed \in Nat /\ sendLen \in Nat
  BY DEF SendTypeOK
<1>2. Len(wire) \in Nat
  BY <1>1
<1>3. Base \in Nat
  <2>1. Base >= 0 BY DEF OrderInv
  <2>2. QED BY <1>1, <1>2, <2>1 DEF Base
<1>4. QED
  BY <1>1, <1>3

\* A locked send() keeps the order.
LEMMA AppendOrder ==
  ASSUME SendTypeOK, OrderInv, NEW n \in Nat, Append2Acc(n), UNCHANGED wire
  PROVE  OrderInv'
<1> DEFINE b == [bufs EXCEPT ![acc] = @ \o Fresh(n)]
           s == bufs[1 - acc]
           a == bufs[acc]
<1>1. /\ s \in Seq(Nat) /\ a \in Seq(Nat) /\ wire \in Seq(Nat)
      /\ acc \in {0, 1} /\ committed \in Nat /\ Base \in Nat
      /\ Fresh(n) \in Seq(Nat) /\ Len(Fresh(n)) = n
      /\ Consecutive(Fresh(n), committed)
  <2>1. /\ s \in Seq(Nat) /\ a \in Seq(Nat) /\ wire \in Seq(Nat)
        /\ acc \in {0, 1} /\ committed \in Nat /\ Base \in Nat
    BY OrderTypes
  <2>2. /\ Fresh(n) \in Seq(Nat) /\ Len(Fresh(n)) = n
        /\ \A i \in 1..n : Fresh(n)[i] = committed + i
    BY <2>1, FreshSeq
  <2>3. Consecutive(Fresh(n), committed)
    BY <2>2 DEF Consecutive
  <2>4. QED BY <2>1, <2>2, <2>3
<1>2. b[1 - acc] = s /\ b[acc] = a \o Fresh(n)
  BY <1>1 DEF SendTypeOK
<1>3. /\ Len(a \o Fresh(n)) = Len(a) + n
      /\ Consecutive(a \o Fresh(n), Base + Len(s))
  <2>1. /\ Base + Len(s) \in Nat
        /\ committed = Base + Len(s) + Len(a)
        /\ Consecutive(a, Base + Len(s))
    BY <1>1 DEF OrderInv
  <2>2. Consecutive(Fresh(n), (Base + Len(s)) + Len(a))
    BY <1>1, <2>1
  <2>3. QED
    BY <1>1, <2>1, <2>2, ConcatConsecutive, ZenonT(30)
<1>4. committed' = committed + n /\ bufs' = b
  BY DEF Append2Acc, StartSend
<1> HIDE DEF b
<1>5. CASE Sending
  <2>1. tx' = "sending" /\ UNCHANGED <<acc, sendOp, sendLen, wire>>
    BY <1>5 DEF Append2Acc, Sending
  <2>2. bufs'[1 - acc'] = s /\ bufs'[acc'] = a \o Fresh(n) /\ Base' = Base
    BY <1>2, <1>4, <2>1 DEF Base
  <2>3. committed' = Base' + Len(s) + Len(a \o Fresh(n))
    <3>1. Len(s) \in Nat /\ Len(a) \in Nat
      BY <1>1
    <3>2. committed = Base + Len(s) + Len(a)
      BY DEF OrderInv
    <3>3. Len(a \o Fresh(n)) = Len(a) + n /\ Base \in Nat
      BY <1>1, <1>3
    <3> HIDE DEF s, a
    <3>4. QED BY <1>4, <2>2, <3>1, <3>2, <3>3
  <2>4. QED
    BY <1>1, <1>3, <2>1, <2>2, <2>3 DEF OrderInv
<1>6. CASE ~Sending
  <2>1. StartSend(b)
    BY <1>6 DEF Append2Acc, b
  <2>2. /\ tx = "idle" /\ sendOp = "none" /\ a = <<>> /\ s = <<>>
        /\ Base = Len(wire) /\ committed = Len(wire)
    <3>1. tx = "idle"
      BY <1>6 DEF SendTypeOK, Sending
    <3>2. /\ sendOp = "none" /\ a = <<>> /\ s = <<>>
          /\ committed = Base + Len(s) + Len(a)
      BY <3>1 DEF OrderInv
    <3>3. Base = Len(wire)
      BY <3>2 DEF Base
    <3>4. QED BY <1>1, <3>1, <3>2, <3>3
  <2>3. Consecutive(<<>>, committed + n) /\ Len(wire) \in Nat
    BY <1>1 DEF Consecutive
  <2>4. CASE b[acc] = <<>>
    <3>1. tx' = "idle" /\ sendOp' = "none" /\ acc' = acc
      BY <2>1, <2>4 DEF StartSend
    <3>2. bufs'[1 - acc'] = <<>> /\ bufs'[acc'] = <<>> /\ n = 0
      BY <1>1, <1>2, <1>3, <1>4, <2>2, <2>4, <3>1
    <3>3. Base' = Base
      BY <2>2, <3>1 DEF Base
    <3>4. QED
      BY <1>1, <1>4, <2>2, <2>3, <3>1, <3>2, <3>3 DEF OrderInv
  <2>5. CASE b[acc] # <<>>
    <3>1. /\ tx' = "sending" /\ sendOp' = "started" /\ acc' = 1 - acc
          /\ sendLen' = Len(a \o Fresh(n))
      BY <1>2, <2>1, <2>5 DEF StartSend
    <3>2. bufs'[1 - acc'] = a \o Fresh(n) /\ bufs'[acc'] = <<>>
      BY <1>1, <1>2, <1>4, <2>2, <3>1
    <3>3. Base' = Base /\ Base + Len(s) = Base
      BY <1>1, <2>2, <3>1 DEF Base
    <3>4. committed' = Base' + Len(bufs'[1 - acc']) + Len(bufs'[acc'])
      BY <1>1, <1>3, <1>4, <2>2, <3>2, <3>3
    <3>5. Consecutive(bufs'[acc'], Base' + Len(bufs'[1 - acc']))
      BY <3>2 DEF Consecutive
    <3>6. QED
      BY <1>1, <1>3, <3>1, <3>2, <3>3, <3>4, <3>5 DEF OrderInv
  <2>6. QED BY <2>4, <2>5
<1>7. QED
  BY <1>5, <1>6

\* The swap in handle_send() keeps the order: the buffer just sent is empty.
LEMMA ConsumeOrder ==
  ASSUME SendTypeOK, OrderInv, Consume
  PROVE  OrderInv'
<1> DEFINE b == [bufs EXCEPT ![1 - acc] = SubSeq(@, sendLen + 1, Len(@))]
           a == bufs[acc]
<1>1. /\ a \in Seq(Nat) /\ wire \in Seq(Nat) /\ acc \in {0, 1}
      /\ bufs[1 - acc] \in Seq(Nat)
      /\ committed \in Nat /\ sendLen = Len(bufs[1 - acc])
  BY DEF SendTypeOK, OrderInv, Consume
<1>2. b[acc] = a /\ b[1 - acc] = <<>>
  <2>1. SubSeq(bufs[1 - acc], sendLen + 1, Len(bufs[1 - acc])) = <<>>
    BY <1>1
  <2>2. QED BY <1>1, <2>1 DEF SendTypeOK
<1>3. StartSend(b) /\ bufs' = b /\ UNCHANGED <<committed, wire>>
  BY DEF Consume, StartSend
<1> HIDE DEF b
<1>4. /\ committed = Len(wire) + Len(a)
      /\ Consecutive(a, Len(wire))
  <2>1. Base + Len(bufs[1 - acc]) = Len(wire)
    BY <1>1 DEF Base, Consume
  <2>2. QED BY <2>1 DEF OrderInv
<1>5. CASE b[acc] = <<>>
  <2>1. tx' = "idle" /\ sendOp' = "none" /\ acc' = acc
    BY <1>3, <1>5 DEF StartSend
  <2>2. Base' = Len(wire) /\ bufs'[acc'] = <<>> /\ bufs'[1 - acc'] = <<>>
    BY <1>2, <1>3, <1>5, <2>1 DEF Base
  <2>3. committed' = Base' + Len(bufs'[1 - acc']) + Len(bufs'[acc'])
    BY <1>1, <1>2, <1>3, <1>4, <1>5, <2>2
  <2>4. QED
    BY <1>1, <1>3, <2>1, <2>2, <2>3 DEF OrderInv, Consecutive
<1>6. CASE b[acc] # <<>>
  <2>1. /\ tx' = "sending" /\ sendOp' = "started" /\ acc' = 1 - acc
        /\ sendLen' = Len(a)
    BY <1>2, <1>3, <1>6 DEF StartSend
  <2>2. Base' = Len(wire) /\ bufs'[acc'] = <<>> /\ bufs'[1 - acc'] = a
    BY <1>1, <1>2, <1>3, <2>1 DEF Base
  <2>3. committed' = Base' + Len(bufs'[1 - acc']) + Len(bufs'[acc'])
    BY <1>1, <1>3, <1>4, <2>2
  <2>4. Consecutive(bufs'[acc'], Base' + Len(bufs'[1 - acc']))
    BY <2>2 DEF Consecutive
  <2>5. QED
    BY <1>1, <1>3, <1>4, <2>1, <2>2, <2>3, <2>4 DEF OrderInv
<1>7. QED
  BY <1>5, <1>6

\* A complete transfer appends the whole buffer to the wire.
LEMMA TransferOrder ==
  ASSUME SendTypeOK, OrderInv, NEW n \in 1..sendLen, Transfer(n), ~partial'
  PROVE  OrderInv'
<1> DEFINE s == bufs[1 - acc]
<1>0. ~(n < sendLen)
  BY Zenon DEF Transfer
<1>1. /\ s \in Seq(Nat) /\ n = Len(s) /\ sendOp = "started"
      /\ wire \in Seq(Nat) /\ Base = Len(wire)
  BY <1>0 DEF SendTypeOK, OrderInv, Transfer, Base
<1>2. wire' = wire \o s
  <2>1. SubSeq(s, 1, n) = s BY <1>1
  <2>2. QED BY <2>1 DEF Transfer
<1>3. Len(wire') = Len(wire) + n /\ Consecutive(wire', 0)
  <2>1. Consecutive(wire, 0) /\ Consecutive(s, 0 + Len(wire))
    BY <1>1 DEF OrderInv
  <2>2. QED BY <1>1, <1>2, <2>1, ConcatConsecutive
<1>4. /\ sendOp' = "ok" /\ sendLen' = n /\ UNCHANGED <<tx, acc, bufs, committed>>
  BY DEF Transfer
<1>5. Base' = Base
  BY <1>1, <1>3, <1>4 DEF Base
<1>6. tx # "idle"
  BY <1>1 DEF OrderInv
<1>7. QED
  BY <1>1, <1>3, <1>4, <1>5, <1>6 DEF OrderInv

\* A partial transfer is never forgotten.
LEMMA PartialStays ==
  ASSUME [Next]_vars, ~partial'
  PROVE  ~partial
<1>1. CASE StartSteps \/ SendSteps
  BY <1>1 DEF StartSteps, Start, StartThrows, StartNotify, SendSteps, HandleSend, OnSent,
     HandleSendErr, CloseSocket, NotifyClosed, envVars
<1>2. CASE RecvSteps
  BY <1>2 DEF RecvSteps, HandleRecv, OnReceived, HandleRecvErr, HandshakeWaits,
     HandshakeStep, HandshakeReply, HandshakeDone, HandshakeThrows, RecvFrame,
     RecvFrameThrows, RecvFramesDone, CloseSocket, NotifyClosed, envVars
<1>3. CASE Application \/ UNCHANGED vars
  BY <1>3 DEF Application, SendCheck, SendCommit, SendThrows, AppClose, vars, envVars
<1>4. CASE KernelSend \/ KernelRecv \/ PeerSend \/ PeerClose
  BY <1>4 DEF KernelSend, SocketSend, SocketSendFails, KernelRecv, SocketRecv,
     SocketRecvFails, PeerSend, PeerClose, envVars
<1>5. QED
  BY <1>1, <1>2, <1>3, <1>4 DEF Next

\* Every step keeps OrderInv, but a partial transfer.
LEMMA OrderStep ==
  ASSUME SendTypeOK, OrderInv, [Next]_vars, ~partial'
  PROVE  OrderInv'
<1>1. CASE UNCHANGED <<sendVars, wire>>
  BY <1>1 DEF OrderInv, Base, sendVars, Consecutive
<1>2. CASE \E n \in {0, FrameLen} : Append2Acc(n) /\ UNCHANGED wire
  BY <1>2, AppendOrder, SessionAssumption
<1>3. CASE Consume
  BY <1>3, ConsumeOrder
<1>4. CASE \E n \in 1..sendLen : Transfer(n)
  BY <1>4, TransferOrder
<1>5. CASE Fail
  BY <1>5 DEF OrderInv, Base, Fail, Consecutive
<1>6. QED
  BY <1>1, <1>2, <1>3, <1>4, <1>5, SendSideSteps

\* session::send() keeps the byte order, for any number of threads and calls:
\* what the kernel takes is the committed stream in order until, if ever, a
\* transfer is partial.
THEOREM StreamOrder == Spec => []StreamInOrder
<1>1. Init => SendTypeOK /\ (partial \/ OrderInv)
  BY DEF Init, SendTypeOK, OrderInv, Base, Consecutive, Op
<1>2. SendTypeOK /\ (partial \/ OrderInv) /\ [Next]_vars
        => SendTypeOK' /\ (partial' \/ OrderInv')
  BY SendTypeStep, OrderStep, PartialStays
<1>3. SendTypeOK /\ (partial \/ OrderInv) => StreamInOrder
  <2> SUFFICES ASSUME SendTypeOK, OrderInv PROVE StreamInOrder
    BY DEF StreamInOrder
  <2>1. /\ bufs[1 - acc] \in Seq(Nat) /\ bufs[acc] \in Seq(Nat)
        /\ wire \in Seq(Nat) /\ sendLen \in Nat /\ Base \in Nat
    BY OrderTypes
  <2>2. \A i \in 1..Len(wire) : wire[i] = i
    BY <2>1 DEF OrderInv, Consecutive
  <2>3. Len(wire) <= Base + Len(bufs[1 - acc])
    <3>1. sendOp = "ok" => sendLen = Len(bufs[1 - acc])
      BY DEF OrderInv
    <3>2. Len(wire) \in Nat /\ Len(bufs[1 - acc]) \in Nat
      BY <2>1
    <3>3. CASE sendOp = "ok"
      BY <2>1, <3>1, <3>2, <3>3 DEF Base
    <3>4. CASE sendOp # "ok"
      BY <2>1, <3>2, <3>4 DEF Base
    <3>5. QED BY <3>3, <3>4
  <2>4. Len(wire) <= committed
    <3>1. committed = Base + Len(bufs[1 - acc]) + Len(bufs[acc])
      BY DEF OrderInv
    <3>2. Len(wire) \in Nat /\ Len(bufs[1 - acc]) \in Nat /\ Len(bufs[acc]) \in Nat
      BY <2>1
    <3>3. Base \in Nat
      BY <2>1
    <3> DEFINE w == Len(wire)
               m == Len(bufs[1 - acc])
               k == Len(bufs[acc])
    <3>4. w \in Nat /\ m \in Nat /\ k \in Nat /\ w <= Base + m
          /\ committed = Base + m + k
      BY <2>3, <3>1, <3>2
    <3>5. w <= committed
      <4> HIDE DEF w, m, k
      <4>1. QED BY <3>3, <3>4
    <3>6. QED BY <3>5
  <2>5. QED BY <2>2, <2>4 DEF StreamInOrder
<1>4. QED
  BY <1>1, <1>2, <1>3, PTL DEF Spec
-----------------------------------------------------------------------------
(* Closing. *)

\* An ended send chain stays ended: sending_ is set and nothing is outstanding.
LEMMA SendDeadStable ==
  ASSUME tx = "sending", sendOp = "none", [Next]_vars
  PROVE  tx' = "sending" /\ sendOp' = "none"
<1>1. CASE UNCHANGED <<sendVars, wire>>
  BY <1>1 DEF sendVars
<1>2. CASE \E n \in {0, FrameLen} : Append2Acc(n) /\ UNCHANGED wire
  BY <1>2 DEF Append2Acc, Sending
<1>3. CASE Consume \/ (\E n \in 1..sendLen : Transfer(n)) \/ Fail
  BY <1>3 DEF Consume, Transfer, Fail
<1>4. QED
  BY <1>1, <1>2, <1>3, SendSideSteps

\* sending_ is set as long as an async_send is outstanding or unanswered.
LEMMA SendingStep ==
  ASSUME tx = "idle" => sendOp = "none", [Next]_vars
  PROVE  tx' = "idle" => sendOp' = "none"
<1>1. CASE UNCHANGED <<sendVars, wire>>
  BY <1>1 DEF sendVars
<1>2. CASE \E n \in {0, FrameLen} : Append2Acc(n) /\ UNCHANGED wire
  BY <1>2 DEF Append2Acc, StartSend
<1>3. CASE Consume \/ (\E n \in 1..sendLen : Transfer(n)) \/ Fail
  BY <1>3 DEF Consume, StartSend, Transfer, Fail
<1>4. QED
  BY <1>1, <1>2, <1>3, SendSideSteps

\* Every step keeps CloseInv.
LEMMA CloseStep ==
  ASSUME TypeOK, CloseInv, [Next]_vars
  PROVE  CloseInv'
<1> USE DEF CloseInv, SendEnded, RecvEnded, GoTo, Rearm, StartRecv, Handler
<1>0. /\ pc \in [Handler -> Step] /\ onClosed \in Nat /\ tx \in {"idle", "sending"}
      /\ tx' = "idle" => sendOp' = "none"
  BY SendingStep DEF TypeOK, ControlTypeOK, SendTypeOK
<1>1. CASE StartSteps
  BY <1>0, <1>1, SendDeadStable
     DEF StartSteps, Start, StartThrows, StartNotify, recvVars, noteVars
<1>2. CASE HandleSend
  BY <1>0, <1>2 DEF HandleSend, OnSent, recvVars, noteVars
<1>3. CASE HandleSendErr
  BY <1>0, <1>3 DEF HandleSendErr, recvVars, noteVars
<1>4. CASE CloseSocket("send") \/ NotifyClosed("send")
  BY <1>0, <1>4 DEF CloseSocket, NotifyClosed, sendVars, recvVars, noteVars
<1>5. CASE CloseSocket("recv") \/ NotifyClosed("recv")
  BY <1>0, <1>5 DEF CloseSocket, NotifyClosed, sendVars, recvVars, noteVars
<1>6. CASE HandleRecv \/ HandleRecvErr \/ HandshakeWaits
  BY <1>0, <1>6 DEF HandleRecv, OnReceived, HandleRecvErr, HandshakeWaits, sendVars, noteVars
<1>7. CASE HandshakeStep \/ HandshakeReply \/ HandshakeDone \/ HandshakeThrows
  BY <1>0, <1>7, SendDeadStable DEF HandshakeStep, HandshakeReply, HandshakeDone,
     HandshakeThrows, sendVars, recvVars, noteVars
<1>8. CASE RecvFrame \/ RecvFrameThrows \/ RecvFramesDone
  BY <1>0, <1>8 DEF RecvFrame, RecvFrameThrows, RecvFramesDone, sendVars, noteVars
<1>9. CASE Application
  BY <1>0, <1>9, SendDeadStable DEF Application, SendCheck, SendCommit,
     SendThrows, AppClose, sendVars, recvVars, noteVars
<1>10. CASE KernelSend \/ KernelRecv \/ PeerSend \/ PeerClose
  BY <1>0, <1>10 DEF KernelSend, SocketSend, SocketSendFails, KernelRecv,
     SocketRecv, SocketRecvFails, PeerSend, PeerClose, sendVars, recvVars, noteVars
<1>11. CASE UNCHANGED vars
  BY <1>11 DEF vars, sendVars, recvVars, noteVars
<1>12. QED
  BY <1>1, <1>2, <1>3, <1>4, <1>5, <1>6, <1>7, <1>8, <1>9, <1>10, <1>11
     DEF Next, SendSteps, RecvSteps

\* on_closed() is called at most twice, as the comment on close() says, with
\* any number of runner threads: once at the end of each chain.
THEOREM ClosedTwiceAtMost == Spec => []ClosedAtMostTwice
<1>1. Init => CloseInv
  BY DEF Init, CloseInv, SendEnded, RecvEnded, Handler
<1>2. TypeOK /\ CloseInv /\ [Next]_vars => CloseInv'
  BY CloseStep
<1>3. TypeOK /\ CloseInv => ClosedAtMostTwice
  BY DEF TypeOK, ControlTypeOK, CloseInv, ClosedAtMostTwice
<1>4. QED
  BY <1>1, <1>2, <1>3, TypeCorrect, PTL DEF Spec

\* With one runner thread a step that starts running a handler finds no
\* other handler running.
LEMMA FreeMeansIdle ==
  ASSUME Threads = 1, ControlTypeOK, FreeThread
  PROVE  \A h \in Handler : ~Running(h)
BY DEF FreeThread, Busy, Handler

\* Every step of a single runner thread keeps OnceInv.
LEMMA OnceStep ==
  ASSUME Threads = 1, ControlTypeOK, OnceInv, [Next]_vars
  PROVE  OnceInv'
<1> USE DEF OnceInv, Exclusive, ClosedOnce, Running, IsOpen, GoTo, Rearm, Handler
<1>0. pc \in [Handler -> Step] /\ onClosed \in Nat
  BY DEF ControlTypeOK
<1>1. CASE StartSteps
  BY <1>0, <1>1 DEF StartSteps, Start, StartThrows, StartNotify, noteVars
<1>2. CASE HandleSend
  BY <1>0, <1>2 DEF HandleSend, OnSent, noteVars
<1>3. CASE HandleSendErr \/ HandleRecvErr
  BY <1>0, <1>3, FreeMeansIdle DEF HandleSendErr, HandleRecvErr, OnReceived, noteVars
<1>4. ASSUME NEW h \in {"send", "recv"}, CloseSocket(h)
      PROVE  OnceInv'
  BY <1>0, <1>4 DEF CloseSocket, noteVars
<1>5. ASSUME NEW h \in {"send", "recv"}, NotifyClosed(h)
      PROVE  OnceInv'
  BY <1>0, <1>5 DEF NotifyClosed, noteVars
<1>6. CASE HandleRecv
  BY <1>0, <1>6, FreeMeansIdle DEF HandleRecv, OnReceived, noteVars
<1>7. CASE HandshakeWaits \/ HandshakeStep \/ HandshakeReply
  BY <1>0, <1>7 DEF HandshakeWaits, HandshakeStep, HandshakeReply, noteVars
<1>8. CASE HandshakeDone \/ HandshakeThrows
  BY <1>0, <1>8 DEF HandshakeDone, HandshakeThrows, noteVars
<1>9. CASE RecvFrame \/ RecvFrameThrows \/ RecvFramesDone
  BY <1>0, <1>9 DEF RecvFrame, RecvFrameThrows, RecvFramesDone, noteVars
<1>10. CASE Application
  BY <1>0, <1>10 DEF Application, SendCheck, SendCommit, SendThrows, AppClose,
     noteVars
<1>11. CASE KernelSend \/ KernelRecv \/ PeerSend \/ PeerClose
  BY <1>0, <1>11 DEF KernelSend, SocketSend, SocketSendFails, KernelRecv,
     SocketRecv, SocketRecvFails, PeerSend, PeerClose, noteVars
<1>12. CASE UNCHANGED vars
  BY <1>12 DEF vars, noteVars
<1>13. QED
  BY <1>1, <1>2, <1>3, <1>4, <1>5, <1>6, <1>7, <1>8, <1>9, <1>10, <1>11, <1>12
     DEF Next, SendSteps, RecvSteps

\* With a single runner thread the two handle_close() calls exclude each
\* other and on_closed() is called at most once.
THEOREM ClosedOnceSingle == ASSUME Threads = 1 PROVE Spec => []ClosedOnce
<1>1. Init => OnceInv
  BY DEF Init, OnceInv, Exclusive, ClosedOnce, Running, Handler
<1>2. TypeOK /\ OnceInv /\ [Next]_vars => OnceInv'
  BY OnceStep DEF TypeOK
<1>3. OnceInv => ClosedOnce
  BY DEF OnceInv
<1>4. QED
  BY <1>1, <1>2, <1>3, TypeCorrect, PTL DEF Spec

-----------------------------------------------------------------------------
(* Establishment. *)

\* Every step keeps FirstInv.
LEMMA FirstStep ==
  ASSUME ControlTypeOK, FirstInv, [Next]_vars
  PROVE  FirstInv'
<1> USE SessionAssumption DEF FirstInv, IsClosed, GoTo, Rearm, StartRecv
<1>0. /\ pc \in [Handler -> Step] /\ onEstablished \in Nat /\ consumed \in Nat
      /\ HandshakeSteps \in Nat
  BY DEF ControlTypeOK
<1>1. CASE StartSteps
  BY <1>0, <1>1 DEF StartSteps, Start, StartThrows, StartNotify, IsEstablished, recvVars,
     noteVars, Handler
<1>2. CASE SendSteps
  BY <1>0, <1>2 DEF SendSteps, HandleSend, OnSent, HandleSendErr, CloseSocket,
     NotifyClosed, recvVars, noteVars, Handler
<1>3. CASE HandleRecv \/ HandleRecvErr \/ HandshakeWaits
  BY <1>0, <1>3 DEF HandleRecv, OnReceived, HandleRecvErr, HandshakeWaits, IsEstablished,
     noteVars, Handler
<1>4. CASE HandshakeStep \/ HandshakeReply
  BY <1>0, <1>4 DEF HandshakeStep, HandshakeReply, noteVars, Handler
<1>5. CASE HandshakeDone \/ HandshakeThrows
  BY <1>0, <1>5 DEF HandshakeDone, HandshakeThrows, recvVars, noteVars, Handler
<1>6. CASE RecvFrame \/ RecvFrameThrows \/ RecvFramesDone
  BY <1>0, <1>6 DEF RecvFrame, RecvFrameThrows, RecvFramesDone, noteVars, Handler
<1>7. CASE CloseSocket("recv") \/ NotifyClosed("recv")
  BY <1>0, <1>7 DEF CloseSocket, NotifyClosed, recvVars, noteVars, Handler
<1>8. CASE Application
  BY <1>8 DEF Application, SendCheck, SendCommit, SendThrows, AppClose,
     recvVars, noteVars
<1>9. CASE KernelSend \/ KernelRecv \/ PeerSend \/ PeerClose
  BY <1>9 DEF KernelSend, SocketSend, SocketSendFails, KernelRecv,
     SocketRecv, SocketRecvFails, PeerSend, PeerClose, recvVars, noteVars
<1>10. CASE UNCHANGED vars
  BY <1>10 DEF vars, recvVars, noteVars
<1>11. QED
  BY <1>1, <1>2, <1>3, <1>4, <1>5, <1>6, <1>7, <1>8, <1>9, <1>10
     DEF Next, RecvSteps

\* Only handle_recv() consumes, and of an established protocol only frames.
LEMMA ConsumingStep ==
  ASSUME ControlTypeOK, [Next]_vars, consumed' # consumed, consumed >= HandshakeSteps
  PROVE  pc["recv"] = "frames"
<1> USE SessionAssumption DEF recvVars
<1>1. CASE StartSteps \/ SendSteps \/ Application
  BY <1>1 DEF StartSteps, Start, StartThrows, StartNotify, SendSteps, HandleSend,
     OnSent, HandleSendErr, CloseSocket, NotifyClosed, Application, SendCheck,
     SendCommit, SendThrows, AppClose
<1>2. CASE RecvSteps
  BY <1>2 DEF RecvSteps, HandleRecv, OnReceived, HandleRecvErr, HandshakeWaits,
     HandshakeStep, HandshakeReply, HandshakeDone, HandshakeThrows, RecvFrame,
     RecvFrameThrows, RecvFramesDone, CloseSocket, NotifyClosed, ControlTypeOK
<1>3. CASE KernelSend \/ KernelRecv \/ PeerSend \/ PeerClose \/ UNCHANGED vars
  BY <1>3 DEF KernelSend, SocketSend, SocketSendFails, KernelRecv, SocketRecv,
     SocketRecvFails, PeerSend, PeerClose, vars
<1>4. QED
  BY <1>1, <1>2, <1>3 DEF Next

\* No frame is handed to on_receive() before on_established(), with any number
\* of runner threads and any protocol, but in the window between start_recv()
\* and the notification of a start() that had nothing to negotiate.
THEOREM EstablishedBeforeFrames == Spec => EstablishedFirst
<1> DEFINE First == consumed' # consumed /\ consumed >= HandshakeSteps =>
                      \/ onEstablished > 0 \/ IsClosed
                      \/ HandshakeSteps = 0 /\ pc["start"] = "est"
<1>1. Init => FirstInv
  BY SessionAssumption DEF Init, FirstInv, Handler
<1>2. TypeOK /\ FirstInv /\ [Next]_vars => FirstInv'
  BY FirstStep DEF TypeOK
<1>3. TypeOK /\ FirstInv /\ [Next]_vars => [First]_vars
  <2>1. SUFFICES ASSUME TypeOK, FirstInv, [Next]_vars, consumed' # consumed,
                        consumed >= HandshakeSteps
                 PROVE  \/ onEstablished > 0 \/ IsClosed
                        \/ HandshakeSteps = 0 /\ pc["start"] = "est"
    OBVIOUS
  <2>2. pc["recv"] = "frames"
    BY <2>1, ConsumingStep DEF TypeOK
  <2> QED BY <2>1, <2>2, SessionAssumption DEF FirstInv
<1>4. QED
  BY <1>1, <1>2, <1>3, TypeCorrect, PTL DEF Spec, EstablishedFirst

\* Every step keeps EstablishedInv, given one runner thread or no handshake.
LEMMA EstablishedStep ==
  ASSUME Threads = 1 \/ HandshakeSteps = 0, ControlTypeOK, OnceInv \/ Threads # 1,
         EstablishedInv, [Next]_vars
  PROVE  EstablishedInv'
<1> USE SessionAssumption DEF EstablishedInv, GoTo, Rearm
<1>0. /\ pc \in [Handler -> Step] /\ onEstablished \in Nat /\ consumed \in Nat
      /\ HandshakeSteps \in Nat
  BY DEF ControlTypeOK
<1>1. CASE StartSteps
  BY <1>0, <1>1 DEF StartSteps, Start, StartThrows, StartNotify, IsEstablished,
     recvVars, noteVars, Handler
<1>2. CASE SendSteps
  BY <1>0, <1>2 DEF SendSteps, HandleSend, OnSent, HandleSendErr, CloseSocket,
     NotifyClosed, recvVars, noteVars, Handler
<1>3. CASE HandleRecv \/ HandleRecvErr \/ HandshakeWaits
  BY <1>0, <1>3 DEF HandleRecv, OnReceived, HandleRecvErr, HandshakeWaits, noteVars, Handler
<1>4. CASE HandshakeStep \/ HandshakeDone \/ RecvFrame
  <2>1. pc["start"] \in {"init", "est"} => HandshakeSteps = 0
    BY <1>4 DEF HandshakeStep, HandshakeDone, RecvFrame, OnceInv, Exclusive,
       Running, Handler
  <2>2. QED
    BY <1>0, <1>4, <2>1 DEF HandshakeStep, HandshakeDone, RecvFrame, noteVars,
       Handler
<1>5. CASE HandshakeReply \/ HandshakeThrows
  BY <1>0, <1>5 DEF HandshakeReply, HandshakeThrows, recvVars, noteVars, Handler
<1>6. CASE RecvFrameThrows \/ RecvFramesDone
  BY <1>0, <1>6 DEF RecvFrameThrows, RecvFramesDone, noteVars, Handler
<1>7. CASE CloseSocket("recv") \/ NotifyClosed("recv")
  BY <1>0, <1>7 DEF CloseSocket, NotifyClosed, recvVars, noteVars, Handler
<1>8. CASE Application
  BY <1>8 DEF Application, SendCheck, SendCommit, SendThrows, AppClose,
     recvVars, noteVars
<1>9. CASE KernelSend \/ KernelRecv \/ PeerSend \/ PeerClose
  BY <1>9 DEF KernelSend, SocketSend, SocketSendFails, KernelRecv,
     SocketRecv, SocketRecvFails, PeerSend, PeerClose, recvVars, noteVars
<1>10. CASE UNCHANGED vars
  BY <1>10 DEF vars, recvVars, noteVars
<1>11. QED
  BY <1>1, <1>2, <1>3, <1>4, <1>5, <1>6, <1>7, <1>8, <1>9, <1>10
     DEF Next, RecvSteps

\* on_established() is called at most once, by start() or by handle_recv(),
\* with a single runner thread or a protocol without a handshake.
THEOREM EstablishedOnceSingle ==
  ASSUME Threads = 1 \/ HandshakeSteps = 0 PROVE Spec => []EstablishedOnce
<1> DEFINE Inv == (OnceInv \/ Threads # 1) /\ EstablishedInv
<1>1. Init => Inv
  BY SessionAssumption DEF Init, EstablishedInv, OnceInv, Exclusive, ClosedOnce,
     Running, Handler
<1>2. TypeOK /\ Inv /\ [Next]_vars => Inv'
  BY OnceStep, EstablishedStep DEF TypeOK
<1>3. Inv => EstablishedOnce
  BY DEF EstablishedInv, EstablishedOnce
<1>4. QED
  BY <1>1, <1>2, <1>3, TypeCorrect, PTL DEF Spec

-----------------------------------------------------------------------------
(* The buffer in flight. *)

\* What async_send was given is neither moved, changed nor replaced before it
\* completes, whoever calls send() meanwhile and even if writes are short.
THEOREM InFlight == Spec => InFlightStable
<1> DEFINE Stable == sendOp = "started" /\ sendOp' = "started"
                       => /\ acc' = acc /\ sendLen' = sendLen
                          /\ bufs'[1 - acc] = bufs[1 - acc]
<1>1. Init => CloseInv
  BY DEF Init, CloseInv, SendEnded, RecvEnded, Handler
<1>2. TypeOK /\ CloseInv /\ [Next]_vars => CloseInv'
  BY CloseStep
<1>3. TypeOK /\ CloseInv /\ [Next]_vars => [Stable]_vars
  <2> SUFFICES ASSUME TypeOK, CloseInv, [Next]_vars PROVE Stable
    OBVIOUS
  <2>1. CASE UNCHANGED <<sendVars, wire>>
    BY <2>1 DEF sendVars
  <2>2. CASE \E n \in {0, FrameLen} : Append2Acc(n) /\ UNCHANGED wire
    <3>1. acc \in {0, 1} /\ bufs \in [{0, 1} -> Seq(Nat)]
      BY DEF TypeOK, SendTypeOK
    <3>2. sendOp = "started" => Sending
      BY DEF TypeOK, SendTypeOK, CloseInv, Sending
    <3>3. QED BY <2>2, <3>1, <3>2 DEF Append2Acc
  <2>3. CASE Consume \/ (\E n \in 1..sendLen : Transfer(n)) \/ Fail
    BY <2>3 DEF Consume, Transfer, Fail
  <2>4. QED BY <2>1, <2>2, <2>3, SendSideSteps
<1>4. QED
  BY <1>1, <1>2, <1>3, TypeCorrect, PTL DEF Spec, InFlightStable

-----------------------------------------------------------------------------
(* Frames: all of them, and none too late. *)

\* Every step keeps DrainInv.
LEMMA DrainStep ==
  ASSUME ControlTypeOK, CloseInv, DrainInv, [Next]_vars
  PROVE  DrainInv'
<1> USE DEF DrainInv, FramesDrained, IsEstablished, IsOpen, IsClosed, GoTo, Rearm,
            StartRecv, Handler
<1>0. /\ pc \in [Handler -> Step] /\ arrived \in Nat /\ consumed \in Nat
      /\ HandshakeSteps \in Nat /\ FrameLen \in Nat \ {0}
      /\ pc["recv"] # "idle" => recvOp = "none" /\ pc["start"] # "init"
      /\ recvOp # "none" => pc["start"] # "init"
  BY SessionAssumption DEF ControlTypeOK, CloseInv
<1>1. UNCHANGED <<arrived, consumed>> => RecvSize' = RecvSize
  BY DEF RecvSize
<1>2. arrived = 0 /\ consumed = 0 => RecvSize < FrameLen
  BY <1>0 DEF RecvSize
<1>3. CASE StartSteps
  BY <1>0, <1>1, <1>2, <1>3 DEF StartSteps, Start, StartThrows, StartNotify, recvVars
<1>4. CASE HandleSend \/ HandleSendErr
  BY <1>0, <1>1, <1>4 DEF HandleSend, OnSent, HandleSendErr, recvVars
<1>5. ASSUME NEW h \in {"send", "recv"}, CloseSocket(h) \/ NotifyClosed(h)
      PROVE  DrainInv'
  BY <1>0, <1>1, <1>5 DEF CloseSocket, NotifyClosed, recvVars
<1>6. CASE HandleRecv \/ HandleRecvErr
  BY <1>0, <1>1, <1>6 DEF HandleRecv, OnReceived, HandleRecvErr
<1>7. CASE HandshakeWaits
  BY <1>0, <1>1, <1>7 DEF HandshakeWaits
<1>8. CASE HandshakeStep \/ HandshakeDone
  BY <1>0, <1>8 DEF HandshakeStep, HandshakeDone
<1>9. CASE HandshakeReply \/ HandshakeThrows
  BY <1>0, <1>1, <1>9 DEF HandshakeReply, HandshakeThrows, recvVars
<1>10. CASE RecvFrame
  BY <1>0, <1>10 DEF RecvFrame
<1>11. CASE RecvFrameThrows \/ RecvFramesDone
  BY <1>0, <1>1, <1>11 DEF RecvFrameThrows, RecvFramesDone
<1>12. CASE Application
  BY <1>1, <1>12 DEF Application, SendCheck, SendCommit, SendThrows, AppClose, recvVars
<1>13. CASE KernelRecv
  BY <1>0, <1>1, <1>13 DEF KernelRecv, SocketRecv, SocketRecvFails
<1>14. CASE KernelSend \/ PeerSend \/ PeerClose
  BY <1>1, <1>14 DEF KernelSend, SocketSend, SocketSendFails, PeerSend, PeerClose,
     recvVars
<1>15. CASE UNCHANGED vars
  BY <1>1, <1>15 DEF vars, recvVars
<1>16. QED
  BY <1>3, <1>4, <1>5, <1>6, <1>7, <1>8, <1>9, <1>10, <1>11, <1>12, <1>13, <1>14,
     <1>15 DEF Next, SendSteps, RecvSteps

\* However the bytes are cut into segments and however many threads run the
\* handlers, async_receive is armed on an open, established session only when
\* recv_buf_ holds no complete frame.
THEOREM FramesAreDrained == Spec => []FramesDrained
<1>1. Init => CloseInv /\ DrainInv
  BY DEF Init, CloseInv, SendEnded, RecvEnded, Handler, DrainInv, FramesDrained
<1>2. TypeOK /\ CloseInv /\ DrainInv /\ [Next]_vars => CloseInv' /\ DrainInv'
  BY CloseStep, DrainStep DEF TypeOK
<1>3. DrainInv => FramesDrained
  BY DEF DrainInv
<1>4. QED
  BY <1>1, <1>2, <1>3, TypeCorrect, PTL DEF Spec

\* Every step of a single runner thread keeps LiveFramesInv.
LEMMA LiveFramesStep ==
  ASSUME Threads = 1, ControlTypeOK, OnceInv, LiveFramesInv, [Next]_vars
  PROVE  LiveFramesInv'
<1> USE DEF LiveFramesInv, IsClosed, GoTo, Rearm, Handler
<1>0. pc \in [Handler -> Step] /\ onClosed \in Nat
  BY DEF ControlTypeOK
<1>1. CASE StartSteps
  BY <1>0, <1>1 DEF StartSteps, Start, StartThrows, StartNotify, noteVars
<1>2. CASE HandleSend \/ HandleSendErr
  BY <1>0, <1>2 DEF HandleSend, OnSent, HandleSendErr, noteVars
<1>3. ASSUME NEW h \in {"send", "recv"}, CloseSocket(h)
      PROVE  LiveFramesInv'
  BY <1>0, <1>3 DEF CloseSocket, noteVars
<1>4. ASSUME NEW h \in {"send", "recv"}, NotifyClosed(h)
      PROVE  LiveFramesInv'
  BY <1>0, <1>4 DEF NotifyClosed, OnceInv, Exclusive, Running
<1>5. CASE HandleRecv \/ HandleRecvErr \/ HandshakeWaits
  BY <1>0, <1>5 DEF HandleRecv, OnReceived, HandleRecvErr, HandshakeWaits,
     IsEstablished, noteVars
<1>6. CASE HandshakeStep \/ HandshakeReply \/ HandshakeDone \/ HandshakeThrows
  BY <1>0, <1>6 DEF HandshakeStep, HandshakeReply, HandshakeDone, HandshakeThrows,
     noteVars
<1>7. CASE RecvFrame \/ RecvFrameThrows \/ RecvFramesDone
  BY <1>0, <1>7 DEF RecvFrame, RecvFrameThrows, RecvFramesDone, noteVars
<1>8. CASE Application
  BY <1>8 DEF Application, SendCheck, SendCommit, SendThrows, AppClose, noteVars
<1>9. CASE KernelSend \/ KernelRecv \/ PeerSend \/ PeerClose
  BY <1>9 DEF KernelSend, SocketSend, SocketSendFails, KernelRecv, SocketRecv,
     SocketRecvFails, PeerSend, PeerClose, noteVars
<1>10. CASE UNCHANGED vars
  BY <1>10 DEF vars, noteVars
<1>11. QED
  BY <1>1, <1>2, <1>3, <1>4, <1>5, <1>6, <1>7, <1>8, <1>9, <1>10
     DEF Next, SendSteps, RecvSteps

\* With a single runner thread on_receive() is not called any more once
\* on_closed() was, also when frames are left in recv_buf_.
THEOREM NoLateFrame == ASSUME Threads = 1 PROVE Spec => NoFrameAfterClosed
<1> DEFINE Early == consumed' # consumed /\ consumed >= HandshakeSteps => onClosed = 0
<1>1. Init => OnceInv /\ LiveFramesInv
  BY DEF Init, OnceInv, Exclusive, ClosedOnce, Running, Handler, LiveFramesInv
<1>2. TypeOK /\ OnceInv /\ LiveFramesInv /\ [Next]_vars => OnceInv' /\ LiveFramesInv'
  BY OnceStep, LiveFramesStep DEF TypeOK
<1>3. TypeOK /\ LiveFramesInv /\ [Next]_vars => [Early]_vars
  BY ConsumingStep DEF TypeOK, ControlTypeOK, LiveFramesInv
<1>4. QED
  BY <1>1, <1>2, <1>3, TypeCorrect, PTL DEF Spec, NoFrameAfterClosed

-----------------------------------------------------------------------------
(* Short writes: the order may suffer, the bytes do not. *)

\* The elements of a sequence.
Elems(s) == {s[i] : i \in 1..Len(s)}

\* The elements of two sequences in a row.
LEMMA ConcatElems ==
  ASSUME NEW s \in Seq(Nat), NEW t \in Seq(Nat)
  PROVE  /\ s \o t \in Seq(Nat) /\ Len(s \o t) = Len(s) + Len(t)
         /\ Elems(s \o t) = Elems(s) \cup Elems(t)
<1>1. s \o t \in Seq(Nat) /\ Len(s \o t) = Len(s) + Len(t)
  OBVIOUS
<1>2. ASSUME NEW i \in 1..Len(s \o t)
      PROVE  (s \o t)[i] \in Elems(s) \cup Elems(t)
  <2>1. CASE i <= Len(s)
    <3>1. i \in 1..Len(s) /\ (s \o t)[i] = s[i]
      BY <1>1, <2>1
    <3>2. QED BY <3>1 DEF Elems
  <2>2. CASE i > Len(s)
    <3>1. i - Len(s) \in 1..Len(t) /\ (s \o t)[i] = t[i - Len(s)]
      BY <1>1, <2>2
    <3>2. QED BY <3>1 DEF Elems
  <2>3. QED BY <2>1, <2>2
<1>3. ASSUME NEW i \in 1..Len(s) PROVE s[i] \in Elems(s \o t)
  <2>1. i \in 1..Len(s \o t) /\ (s \o t)[i] = s[i]
    BY <1>1
  <2>2. QED BY <2>1 DEF Elems
<1>4. ASSUME NEW i \in 1..Len(t) PROVE t[i] \in Elems(s \o t)
  <2>1. Len(s) + i \in 1..Len(s \o t) /\ (s \o t)[Len(s) + i] = t[i]
    BY <1>1
  <2>2. QED BY <2>1 DEF Elems
<1>5. QED
  BY <1>1, <1>2, <1>3, <1>4 DEF Elems

\* A sequence cut in two has the elements of its parts.
LEMMA CutElems ==
  ASSUME NEW s \in Seq(Nat), NEW n \in 0..Len(s)
  PROVE  /\ SubSeq(s, 1, n) \in Seq(Nat) /\ SubSeq(s, n + 1, Len(s)) \in Seq(Nat)
         /\ Len(SubSeq(s, 1, n)) + Len(SubSeq(s, n + 1, Len(s))) = Len(s)
         /\ Elems(s) = Elems(SubSeq(s, 1, n)) \cup Elems(SubSeq(s, n + 1, Len(s)))
<1> DEFINE u == SubSeq(s, 1, n)
           v == SubSeq(s, n + 1, Len(s))
<1>1. /\ u \in Seq(Nat) /\ Len(u) = n /\ \A i \in 1..n : u[i] = s[i]
  OBVIOUS
<1>2. /\ v \in Seq(Nat) /\ Len(v) = Len(s) - n
      /\ \A i \in 1..(Len(s) - n) : v[i] = s[n + i]
  <2>1. PICK k \in Nat : k = Len(s) /\ n \in 0..k
    OBVIOUS
  <2>2. PICK w : w = SubSeq(s, n + 1, k)
    OBVIOUS
  <2>3. w \in Seq(Nat)
    BY <2>1, <2>2
  <2>4. Len(w) = k - n
    BY <2>1, <2>2, SMTT(20)
  <2>5. \A i \in 1..(k - n) : w[i] = s[n + i]
    BY <2>1, <2>2, SMTT(20)
  <2> QED BY <2>1, <2>2, <2>3, <2>4, <2>5
<1>3. \A i \in 1..Len(s) : s[i] \in Elems(u) \cup Elems(v)
  <2> SUFFICES ASSUME NEW i \in 1..Len(s) PROVE s[i] \in Elems(u) \cup Elems(v)
    OBVIOUS
  <2>1. CASE i <= n
    BY <1>1, <2>1 DEF Elems
  <2>2. CASE i > n
    <3>1. i - n \in 1..Len(v) /\ v[i - n] = s[i]
      BY <1>2, <2>2
    <3>2. QED BY <3>1 DEF Elems
  <2>3. QED BY <2>1, <2>2
<1>4. \A i \in 1..Len(u) : u[i] \in Elems(s)
  BY <1>1 DEF Elems
<1>5. \A i \in 1..Len(v) : v[i] \in Elems(s)
  <2> SUFFICES ASSUME NEW i \in 1..Len(v) PROVE v[i] \in Elems(s)
    OBVIOUS
  <2>1. n + i \in 1..Len(s) /\ v[i] = s[n + i]
    BY <1>2
  <2>2. QED BY <2>1 DEF Elems
<1>6. Elems(s) = Elems(u) \cup Elems(v)
  BY <1>3, <1>4, <1>5, Zenon DEF Elems
<1>7. Len(u) + Len(v) = Len(s)
  <2>1. Len(u) = n /\ Len(v) = Len(s) - n /\ Len(s) \in Nat /\ n \in Nat
    BY <1>1, <1>2
  <2> HIDE DEF u, v
  <2>2. QED BY <2>1
<1>8. QED
  BY <1>1, <1>2, <1>6, <1>7

\* NothingLost by lengths and elements of the three parts: the order in which
\* they stand does not matter to it.
Kept(w, u, a, c) ==
  /\ Len(w) + Len(u) + Len(a) = c
  /\ Elems(w) \cup Elems(u) \cup Elems(a) = 1..c

\* What has not been sent yet is a sequence.
LEMMA UnsentSeq ==
  SendTypeOK => Unsent \in Seq(Nat) /\ bufs[acc] \in Seq(Nat) /\ bufs[1 - acc] \in Seq(Nat)
<1> HAVE SendTypeOK
<1>1. bufs[acc] \in Seq(Nat) /\ bufs[1 - acc] \in Seq(Nat)
  BY DEF SendTypeOK
<1>2. sendOp = "ok" => sendLen \in 0..Len(bufs[1 - acc])
  BY <1>1 DEF SendTypeOK
<1>3. QED
  BY <1>1, <1>2, CutElems DEF Unsent

\* NothingLost in terms of the elements of its three parts
LEMMA KeptForm ==
  ASSUME NEW w \in Seq(Nat), NEW u \in Seq(Nat), NEW a \in Seq(Nat), NEW c
  PROVE  LET all == w \o u \o a
         IN  Len(all) = c /\ {all[i] : i \in DOMAIN all} = 1..c <=> Kept(w, u, a, c)
<1> DEFINE wu == w \o u
           all == w \o u \o a
<1>1. /\ wu \in Seq(Nat) /\ Len(wu) = Len(w) + Len(u)
      /\ Elems(wu) = Elems(w) \cup Elems(u)
  BY ConcatElems
<1>2. /\ all \in Seq(Nat) /\ Len(all) = Len(wu) + Len(a)
      /\ Elems(all) = Elems(wu) \cup Elems(a)
  <2>1. all = wu \o a OBVIOUS
  <2> HIDE DEF wu, all
  <2>2. QED BY <1>1, <2>1, ConcatElems
<1> HIDE DEF wu
<1>3. {all[i] : i \in DOMAIN all} = Elems(all)
  <2> HIDE DEF all
  <2>1. DOMAIN all = 1..Len(all) BY <1>2
  <2>2. QED BY <2>1 DEF Elems
<1> HIDE DEF all
<1>4. Len(all) = c /\ Elems(all) = 1..c <=> Kept(w, u, a, c)
  BY <1>1, <1>2 DEF Kept
<1>5. QED
  BY <1>3, <1>4 DEF all

\* So it reads in a state of the session.
LEMMA LostMeans ==
  SendTypeOK => (NothingLost <=> Kept(wire, Unsent, bufs[acc], committed))
<1> HAVE SendTypeOK
<1>1. wire \in Seq(Nat) /\ Unsent \in Seq(Nat) /\ bufs[acc] \in Seq(Nat)
  BY UnsentSeq DEF SendTypeOK
<1>2. QED
  BY <1>1, KeptForm, Zenon DEF NothingLost

\* The second and the third part may change places.
LEMMA KeptSwap ==
  ASSUME NEW w \in Seq(Nat), NEW u \in Seq(Nat), NEW a \in Seq(Nat), NEW c,
         Kept(w, u, a, c)
  PROVE  Kept(w, a, u, c)
<1>1. Len(w) \in Nat /\ Len(u) \in Nat /\ Len(a) \in Nat
  OBVIOUS
<1>2. Len(w) + Len(a) + Len(u) = Len(w) + Len(u) + Len(a)
  BY <1>1
<1>3. Elems(w) \cup Elems(a) \cup Elems(u) = Elems(w) \cup Elems(u) \cup Elems(a)
  BY Zenon
<1>4. QED
  BY <1>2, <1>3 DEF Kept

\* start_send() with what is left of the buffer sent and the other buffer keeps
\* both, in their place or swapped.
LEMMA StartSendKeeps ==
  ASSUME SendTypeOK, SendTypeOK', NEW b \in [{0, 1} -> Seq(Nat)], StartSend(b),
         UNCHANGED wire, Kept(wire, b[1 - acc], b[acc], committed')
  PROVE  Kept(wire', Unsent', bufs'[acc'], committed')
<1>0. acc \in {0, 1} /\ bufs' = b /\ wire' = wire
  BY DEF SendTypeOK, StartSend
<1>1. CASE b[acc] = <<>>
  <2>1. sendOp' = "none" /\ acc' = acc
    BY <1>1 DEF StartSend
  <2>2. Unsent' = b[1 - acc] /\ bufs'[acc'] = b[acc]
    BY <1>0, <2>1 DEF Unsent
  <2>3. QED BY <1>0, <2>2
<1>2. CASE b[acc] # <<>>
  <2>1. sendOp' = "started" /\ acc' = 1 - acc
    BY <1>2 DEF StartSend
  <2>2. Unsent' = b[acc] /\ bufs'[acc'] = b[1 - acc]
    BY <1>0, <2>1 DEF Unsent
  <2>3. Kept(wire, b[acc], b[1 - acc], committed')
    <3>1. b[acc] \in Seq(Nat) /\ b[1 - acc] \in Seq(Nat) /\ wire \in Seq(Nat)
      BY <1>0 DEF SendTypeOK
    <3>2. QED BY <3>1, KeptSwap
  <2>4. QED BY <1>0, <2>2, <2>3
<1>3. QED BY <1>1, <1>2

\* A locked send() adds the next n bytes to the accumulation buffer.
LEMMA AppendKeeps ==
  ASSUME SendTypeOK, SendTypeOK', tx = "idle" => sendOp = "none",
         NEW n \in Nat, Append2Acc(n), UNCHANGED wire,
         Kept(wire, Unsent, bufs[acc], committed)
  PROVE  Kept(wire', Unsent', bufs'[acc'], committed')
<1> DEFINE b == [bufs EXCEPT ![acc] = @ \o Fresh(n)]
<1>1. /\ acc \in {0, 1} /\ bufs \in [{0, 1} -> Seq(Nat)] /\ wire \in Seq(Nat)
      /\ committed \in Nat /\ Unsent \in Seq(Nat) /\ bufs[acc] \in Seq(Nat)
  BY UnsentSeq DEF SendTypeOK
<1>2. /\ Fresh(n) \in Seq(Nat) /\ Len(Fresh(n)) = n
      /\ Elems(Fresh(n)) = (committed + 1)..(committed + n)
  <2>1. /\ Fresh(n) \in Seq(Nat) /\ Len(Fresh(n)) = n
        /\ \A i \in 1..n : Fresh(n)[i] = committed + i
    BY <1>1, FreshSeq
  <2>2. \A x \in (committed + 1)..(committed + n) :
          x - committed \in 1..n /\ Fresh(n)[x - committed] = x
    BY <1>1, <2>1
  <2>3. \A i \in 1..n : Fresh(n)[i] \in (committed + 1)..(committed + n)
    BY <1>1, <2>1
  <2>4. QED BY <2>1, <2>2, <2>3 DEF Elems
<1>3. /\ b \in [{0, 1} -> Seq(Nat)] /\ b[acc] = bufs[acc] \o Fresh(n)
      /\ b[1 - acc] = bufs[1 - acc]
  BY <1>1, <1>2, SMTT(20)
<1>4. /\ Len(b[acc]) = Len(bufs[acc]) + n /\ b[acc] \in Seq(Nat)
      /\ Elems(b[acc]) = Elems(bufs[acc]) \cup (committed + 1)..(committed + n)
  <2> HIDE DEF b
  <2>1. /\ bufs[acc] \o Fresh(n) \in Seq(Nat)
        /\ Len(bufs[acc] \o Fresh(n)) = Len(bufs[acc]) + Len(Fresh(n))
        /\ Elems(bufs[acc] \o Fresh(n)) = Elems(bufs[acc]) \cup Elems(Fresh(n))
    BY <1>1, <1>2, ConcatElems
  <2>2. QED BY <1>2, <1>3, <2>1
<1>5. committed' = committed + n
  BY DEF Append2Acc
<1>6. Kept(wire, Unsent, b[acc], committed')
  <2>1. 1..(committed + n) = 1..committed \cup (committed + 1)..(committed + n)
    BY <1>1
  <2>2. Elems(wire) \cup Elems(Unsent) \cup Elems(b[acc]) = 1..(committed + n)
    BY <1>4, <2>1 DEF Kept
  <2>3. Len(wire) + Len(Unsent) + Len(b[acc]) = committed + n
    <3>1. Len(wire) \in Nat /\ Len(Unsent) \in Nat /\ Len(bufs[acc]) \in Nat
      BY <1>1
    <3>2. Len(wire) + Len(Unsent) + Len(bufs[acc]) = committed
      BY DEF Kept
    <3> DEFINE lw == Len(wire)
               lu == Len(Unsent)
               la == Len(bufs[acc])
               lb == Len(b[acc])
    <3>3. lb = la + n BY <1>4
    <3>4. lw + lu + lb = committed + n
      <4>1. lw \in Nat /\ lu \in Nat /\ la \in Nat /\ lw + lu + la = committed
        BY <3>1, <3>2
      <4> HIDE DEF lw, lu, la, lb
      <4>2. QED BY <3>3, <4>1
    <3>5. QED BY <3>4
  <2>4. QED BY <1>5, <2>2, <2>3 DEF Kept
<1> HIDE DEF b
<1>7. CASE Sending
  <2>1. UNCHANGED <<acc, sendOp, sendLen, wire>> /\ bufs' = b
    BY <1>7 DEF Append2Acc, b
  <2>2. Unsent' = Unsent /\ bufs'[acc'] = b[acc]
    BY <1>3, <2>1 DEF Unsent
  <2>3. QED BY <1>6, <2>1, <2>2
<1>8. CASE ~Sending
  <2>1. StartSend(b) BY <1>8 DEF Append2Acc, b
  <2>2. Unsent = b[1 - acc]
    BY <1>3, <1>8 DEF SendTypeOK, Sending, Unsent
  <2>3. QED BY <1>3, <1>6, <2>1, <2>2, StartSendKeeps
<1>9. QED BY <1>7, <1>8

\* A transfer of any part moves bytes from the buffer to the wire.
LEMMA TransferKeeps ==
  ASSUME SendTypeOK, NEW n \in 1..sendLen, Transfer(n),
         Kept(wire, Unsent, bufs[acc], committed)
  PROVE  Kept(wire', Unsent', bufs'[acc'], committed')
<1> DEFINE s == bufs[1 - acc]
           u == SubSeq(s, 1, n)
           v == SubSeq(s, n + 1, Len(s))
<1>1. /\ s \in Seq(Nat) /\ bufs[acc] \in Seq(Nat) /\ wire \in Seq(Nat)
      /\ n \in 0..Len(s) /\ Unsent = s
  <2>1. s \in Seq(Nat) /\ bufs[acc] \in Seq(Nat) BY UnsentSeq
  <2>2. QED BY <2>1 DEF SendTypeOK, Transfer, Unsent
<1>2. /\ wire' = wire \o u /\ Unsent' = v /\ bufs'[acc'] = bufs[acc]
      /\ committed' = committed
  BY DEF Transfer, Unsent
<1> HIDE DEF s
<1>3. /\ u \in Seq(Nat) /\ v \in Seq(Nat) /\ Len(u) + Len(v) = Len(s)
      /\ Elems(s) = Elems(u) \cup Elems(v)
  BY <1>1, CutElems
<1> HIDE DEF u, v
<1>4. /\ Len(wire \o u) = Len(wire) + Len(u)
      /\ Elems(wire \o u) = Elems(wire) \cup Elems(u)
  BY <1>1, <1>3, ConcatElems
<1>5. Len(wire \o u) + Len(v) + Len(bufs[acc]) = committed
  <2>1. Len(wire) + Len(s) + Len(bufs[acc]) = committed
    BY <1>1 DEF Kept
  <2>2. /\ Len(wire) \in Nat /\ Len(s) \in Nat /\ Len(bufs[acc]) \in Nat
        /\ Len(u) \in Nat /\ Len(v) \in Nat
    BY <1>1, <1>3
  <2> DEFINE lw == Len(wire)
             ls == Len(s)
             la == Len(bufs[acc])
             lu == Len(u)
             lv == Len(v)
             lx == Len(wire \o u)
  <2>3. /\ lw + ls + la = committed /\ lw \in Nat /\ ls \in Nat /\ la \in Nat
        /\ lu \in Nat /\ lv \in Nat /\ lx = lw + lu /\ lu + lv = ls
    BY <1>3, <1>4, <2>1, <2>2
  <2>4. lx + lv + la = committed
    <3> HIDE DEF lw, ls, la, lu, lv, lx
    <3>1. QED BY <2>3
  <2>5. QED BY <2>4
<1>6. Elems(wire \o u) \cup Elems(v) \cup Elems(bufs[acc]) = 1..committed
  BY <1>1, <1>3, <1>4 DEF Kept
<1>7. QED BY <1>2, <1>5, <1>6 DEF Kept

\* Every step keeps NothingLost.
LEMMA KeptStep ==
  ASSUME SendTypeOK, tx = "idle" => sendOp = "none", NothingLost, [Next]_vars
  PROVE  NothingLost'
<1>0. SendTypeOK' /\ Kept(wire, Unsent, bufs[acc], committed)
  BY LostMeans, SendTypeStep
<1> SUFFICES Kept(wire', Unsent', bufs'[acc'], committed')
  <2>1. (SendTypeOK => (NothingLost <=> Kept(wire, Unsent, bufs[acc], committed)))'
    BY LostMeans, PTL
  <2>2. QED BY <1>0, <2>1
<1>1. CASE UNCHANGED <<sendVars, wire>>
  <2>1. UNCHANGED <<sendOp, sendLen, bufs, acc, committed, wire>>
    BY <1>1 DEF sendVars
  <2>2. Unsent' = Unsent BY <2>1 DEF Unsent
  <2>3. QED BY <1>0, <2>1, <2>2
<1>2. ASSUME NEW n \in {0, FrameLen}, Append2Acc(n), UNCHANGED wire
      PROVE  Kept(wire', Unsent', bufs'[acc'], committed')
  BY <1>0, <1>2, AppendKeeps, SessionAssumption
<1>3. CASE Consume
  <2> DEFINE b == [bufs EXCEPT ![1 - acc] = SubSeq(@, sendLen + 1, Len(@))]
  <2>1. /\ acc \in {0, 1} /\ bufs \in [{0, 1} -> Seq(Nat)] /\ Unsent \in Seq(Nat)
        /\ sendOp = "ok"
    BY <1>3, UnsentSeq DEF SendTypeOK, Consume
  <2>2. /\ b[1 - acc] = Unsent /\ b[acc] = bufs[acc] /\ b \in [{0, 1} -> Seq(Nat)]
    BY <2>1, SMTT(20) DEF Unsent
  <2>3. StartSend(b) /\ UNCHANGED <<committed, wire>>
    BY <1>3 DEF Consume
  <2> HIDE DEF b
  <2>4. QED BY <1>0, <2>2, <2>3, StartSendKeeps
<1>4. ASSUME NEW n \in 1..sendLen, Transfer(n)
      PROVE  Kept(wire', Unsent', bufs'[acc'], committed')
  BY <1>0, <1>4, TransferKeeps
<1>5. CASE Fail
  <2>1. Unsent' = Unsent /\ UNCHANGED <<bufs, acc, committed, wire>>
    BY <1>5 DEF Fail, Unsent
  <2>2. QED BY <1>0, <2>1
<1>6. QED
  BY <1>1, <1>2, <1>3, <1>4, <1>5, SendSideSteps

\* Whatever part of a buffer each async_send transfers, every byte committed by
\* send() is on the wire or in a send buffer, and none is there twice: consume()
\* and the swap of the buffers lose nothing, though with short writes they may
\* change the order.
THEOREM NoByteLost == Spec => []NothingLost
<1>1. Init => SendTypeOK /\ (tx = "idle" => sendOp = "none") /\ NothingLost
  <2> SUFFICES ASSUME Init PROVE SendTypeOK /\ sendOp = "none" /\ NothingLost
    BY DEF Init
  <2>1. SendTypeOK /\ sendOp = "none"
    BY DEF Init, SendTypeOK, Op
  <2>2. wire = <<>> /\ Unsent = <<>> /\ bufs[acc] = <<>> /\ committed = 0
    BY DEF Init, Unsent
  <2>3. Kept(wire, Unsent, bufs[acc], committed)
    BY <2>2 DEF Kept, Elems
  <2>4. QED BY <2>1, <2>3, LostMeans
<1>2. SendTypeOK /\ (tx = "idle" => sendOp = "none") /\ NothingLost /\ [Next]_vars
        => SendTypeOK' /\ (tx = "idle" => sendOp = "none")' /\ NothingLost'
  BY SendTypeStep, SendingStep, KeptStep
<1>3. QED
  BY <1>1, <1>2, PTL DEF Spec
=============================================================================
