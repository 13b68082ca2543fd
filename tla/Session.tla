------------------------------ MODULE Session ------------------------------
(***************************************************************************)
(* One session<Protocol> of play/net: the double-buffered send side, the   *)
(* receive side with the protocol handshake, and the way a session closes  *)
(* and tells its handler.                                                  *)
(*                                                                         *)
(* Who runs concurrently: application threads (Senders) calling send(),    *)
(* at most Threads runner threads executing start(), handle_send() and     *)
(* handle_recv(), the kernel completing async_send / async_receive, and    *)
(* the peer.  mutex_ covers the bodies of both send()s and of              *)
(* handle_send(); handle_recv(), close() and is_open() are outside it.     *)
(*                                                                         *)
(* Data: a byte the send side commits is named by its position in the      *)
(* commit order, so the stream the kernel should see is 1, 2, 3, ...; what *)
(* the peer sends is known by its index.  Every message, frame or          *)
(* handshake, is FrameLen bytes long.                                      *)
(***************************************************************************)
EXTENDS Integers, Sequences, FiniteSets

CONSTANTS Senders,        \* application threads calling send(topic, ...)
          Threads,        \* runner threads serving the io_context
          FrameLen,       \* bytes of one encoded message
          HandshakeSteps, \* messages exchanged before is_established(): 0 or 2
          MaxSends,       \* bound: calls of send() by one thread
          MaxIn,          \* bound: messages the peer sends
          Malformed       \* may decoding or a handler throw on peer input?

ASSUME SessionAssumption ==
  /\ Threads \in Nat \ {0}
  /\ FrameLen \in Nat \ {0}
  /\ HandshakeSteps \in Nat
  /\ MaxSends \in Nat
  /\ MaxIn \in Nat
  /\ Malformed \in BOOLEAN

VARIABLES
  socket,        \* socket_: "open" or "closed"
  protocol,      \* protocol_: "live" until its closed_ is set
  tx,            \* sending_: "sending" or "idle"
  acc,           \* acc_buf_index_
  bufs,          \* send_bufs_
  sendOp,        \* the outstanding async_send
  sendLen,       \* bytes given to it or, once "ok", transferred by it
  recvOp,        \* the outstanding async_receive
  arrived,       \* bytes received so far: recv_buf_ keeps the unconsumed tail
  consumed,      \* messages consumed from recv_buf_ so far
  pc,            \* where start(), handle_send() and handle_recv() stand
  snd,           \* where each application thread stands in send()
  calls,         \* calls of send() each application thread has made
  committed,     \* history: bytes put in the send buffers so far
  wire,          \* history: bytes the kernel took, in order
  partial,       \* history: has async_send transferred less than it was given?
  peer,          \* "up" until the other end is gone
  peerSent,      \* messages the peer has sent
  onEstablished, \* history: calls of handler_.on_established()
  onClosed       \* history: calls of handler_.on_closed()

sendVars  == <<tx, acc, bufs, sendOp, sendLen, committed>>
recvVars  == <<recvOp, arrived, consumed>>
appVars   == <<snd, calls>>
envVars   == <<wire, partial, peer, peerSent>>
noteVars  == <<onEstablished, onClosed>>
vars == <<socket, protocol, sendVars, recvVars, pc, appVars, envVars, noteVars>>

IsOpen   == socket = "open"        \* is_open()
IsClosed == protocol = "closed"    \* the protocol's closed_
Sending  == tx = "sending"         \* sending_

Handler == {"start", "send", "recv"}
Step == {"init", "est", "done", "failed",           \* start()
         "idle", "closing", "notify",               \* handle_send(), handle_recv()
         "handshake", "reply", "frames"}            \* handle_recv()
Op == {"none", "started", "ok", "err"}

Init ==
  /\ socket = "open"
  /\ protocol = "live"
  /\ tx = "idle" /\ acc = 0 /\ bufs = [i \in {0, 1} |-> <<>>]
  /\ sendOp = "none" /\ sendLen = 0 /\ committed = 0
  /\ recvOp = "none" /\ arrived = 0 /\ consumed = 0
  /\ pc = [h \in Handler |-> IF h = "start" THEN "init" ELSE "idle"]
  /\ snd = [t \in Senders |-> "idle"]
  /\ calls = [t \in Senders |-> 0]
  /\ wire = <<>> /\ partial = FALSE /\ peer = "up" /\ peerSent = 0
  /\ onEstablished = 0 /\ onClosed = 0

-----------------------------------------------------------------------------
(* Scheduling. *)

Running(h) == pc[h] \notin {"idle", "done", "failed"}
Busy == (IF Running("start") THEN 1 ELSE 0)
      + (IF Running("send") THEN 1 ELSE 0)
      + (IF Running("recv") THEN 1 ELSE 0)

\* A runner thread is free to pick up a completion handler.
FreeThread == Busy < Threads

\* mutex_ is held between steps only by a handle_send() that runs
\* handle_close(): it took the lock_guard at its top.
Locked == pc["send"] # "idle"

GoTo(h, s) == pc' = [pc EXCEPT ![h] = s]

\* Mutant: closed_ is not looked at.
IsEstablishedOnceShaken == consumed >= HandshakeSteps

\* protocol_->is_established()
IsEstablished == ~IsClosed /\ consumed >= HandshakeSteps

\* recv_buf_.data().size()
RecvSize == arrived - consumed * FrameLen

-----------------------------------------------------------------------------
(* The send side, every operator under mutex_. *)

\* The next n bytes of the commit order.
Fresh(n) == [i \in 1..n |-> committed + i]

\* start_send() with the send buffers equal to b: the accumulation buffer
\* becomes the one being sent.
StartSend(b) ==
  /\ bufs' = b
  /\ \/ /\ b[acc] = <<>>
        /\ tx' = "idle"
        /\ sendOp' = "none"
        /\ sendLen' = 0
        /\ acc' = acc
     \/ /\ b[acc] # <<>>
        /\ tx' = "sending"
        /\ sendOp' = "started"
        /\ sendLen' = Len(b[acc])
        /\ acc' = 1 - acc

\* Mutant: sending_ is not looked at before start_send().
Append2AccUnguarded(n) ==
  /\ committed' = committed + n
  /\ StartSend([bufs EXCEPT ![acc] = @ \o Fresh(n)])

\* Append n bytes to the accumulation buffer and start sending it unless a
\* send is outstanding: the locked body of both send()s.
Append2Acc(n) ==
  LET b == [bufs EXCEPT ![acc] = @ \o Fresh(n)]
  IN  /\ committed' = committed + n
      /\ \/ /\ Sending
            /\ bufs' = b
            /\ UNCHANGED <<tx, acc, sendOp, sendLen>>
         \/ /\ ~Sending
            /\ StartSend(b)

\* start_recv()
StartRecv == recvOp' = "started"

-----------------------------------------------------------------------------
(* start(), on the runner thread that completed the accept or connect. *)

\* The protocol's first handshake message, if it has one, then start_recv().
Start ==
  /\ pc["start"] = "init"
  /\ IsOpen
  /\ IF HandshakeSteps > 0 THEN Append2Acc(FrameLen) ELSE UNCHANGED sendVars
  /\ StartRecv
  /\ GoTo("start", "est")
  /\ UNCHANGED <<socket, protocol, arrived, consumed, appVars, envVars, noteVars>>

\* socket_.remote_endpoint() throws when the connection is already gone:
\* start() is left before start_recv().
StartThrows ==
  /\ pc["start"] = "init"
  /\ ~IsOpen \/ peer = "down"
  /\ IF IsOpen /\ HandshakeSteps > 0 THEN Append2Acc(FrameLen)
                                   ELSE UNCHANGED sendVars
  /\ GoTo("start", "failed")
  /\ UNCHANGED <<socket, protocol, recvVars, appVars, envVars, noteVars>>

\* Mutant: the end of start() without the notification.
StartNotifySilent ==
  /\ pc["start"] = "est"
  /\ GoTo("start", "done")
  /\ UNCHANGED <<socket, protocol, sendVars, recvVars, appVars, envVars, noteVars>>

\* The notification at the end of start(), if the protocol is established.
StartNotify ==
  /\ pc["start"] = "est"
  /\ onEstablished' = onEstablished + IF IsEstablished THEN 1 ELSE 0
  /\ GoTo("start", "done")
  /\ UNCHANGED <<socket, protocol, sendVars, recvVars, appVars, envVars, onClosed>>

-----------------------------------------------------------------------------
(* send(topic, data, len) on an application thread.  The early returns for *)
(* a closed session or a length out of range change nothing.               *)

\* is_open(), read before the lock is taken.
SendCheck(t) ==
  /\ pc["start"] \in {"est", "done"}
  /\ snd[t] = "idle" /\ calls[t] < MaxSends
  /\ IsOpen
  /\ snd' = [snd EXCEPT ![t] = "checked"]
  /\ calls' = [calls EXCEPT ![t] = @ + 1]
  /\ UNCHANGED <<socket, protocol, sendVars, recvVars, pc, envVars, noteVars>>

\* The locked part.  encode() commits nothing when the protocol is closed or
\* not established; start_send() is tried all the same.
SendCommit(t) ==
  /\ snd[t] = "checked"
  /\ ~Locked
  /\ Append2Acc(IF IsEstablished THEN FrameLen ELSE 0)
  /\ snd' = [snd EXCEPT ![t] = "idle"]
  /\ UNCHANGED <<socket, protocol, recvVars, pc, calls, envVars, noteVars>>

\* encode() throws: the session is closed and nothing is committed.
SendThrows(t) ==
  /\ snd[t] = "checked"
  /\ ~Locked
  /\ socket' = "closed"
  /\ snd' = [snd EXCEPT ![t] = "idle"]
  /\ UNCHANGED <<protocol, sendVars, recvVars, pc, calls, envVars, noteVars>>

\* close() called by the application or by the destructor.
AppClose ==
  /\ IsOpen
  /\ socket' = "closed"
  /\ UNCHANGED <<protocol, sendVars, recvVars, pc, appVars, envVars, noteVars>>

-----------------------------------------------------------------------------
(* The kernel and the peer (external). *)

\* async_send transfers n bytes of the buffer it was given, all or a part.
SocketSend(n) ==
  /\ sendOp = "started" /\ IsOpen
  /\ partial' = (partial \/ n < sendLen)
  /\ wire' = wire \o SubSeq(bufs[1 - acc], 1, n)
  /\ sendOp' = "ok"
  /\ sendLen' = n
  /\ UNCHANGED <<socket, protocol, tx, acc, bufs, committed, recvVars, pc,
                 appVars, peer, peerSent, noteVars>>

SocketSendFails ==
  /\ sendOp = "started"
  /\ ~IsOpen \/ peer = "down"
  /\ sendOp' = "err"
  /\ UNCHANGED <<socket, protocol, tx, acc, bufs, sendLen, committed,
                 recvVars, pc, appVars, envVars, noteVars>>

\* async_receive returns with n more bytes of what the peer sent; they are
\* visible to handle_recv() only, which commits them to recv_buf_ first.
SocketRecv(n) ==
  /\ recvOp = "started" /\ IsOpen
  /\ arrived + n <= peerSent * FrameLen
  /\ arrived' = arrived + n
  /\ recvOp' = "ok"
  /\ UNCHANGED <<socket, protocol, sendVars, consumed, pc, appVars, envVars,
                 noteVars>>

SocketRecvFails ==
  /\ recvOp = "started"
  /\ ~IsOpen \/ peer = "down"
  /\ recvOp' = "err"
  /\ UNCHANGED <<socket, protocol, sendVars, arrived, consumed, pc, appVars,
                 envVars, noteVars>>

\* The peer sends its next message.  It answers the handshake message by
\* message and sends frames once established, so message j + 1 needs our
\* first min(j, HandshakeSteps) messages.
PeerSend ==
  /\ peer = "up" /\ peerSent < MaxIn
  /\ \/ Len(wire) >= peerSent * FrameLen
     \/ Len(wire) >= HandshakeSteps * FrameLen
  /\ peerSent' = peerSent + 1
  /\ UNCHANGED <<socket, protocol, sendVars, recvVars, pc, appVars, wire, partial,
                 peer, noteVars>>

PeerClose ==
  /\ peer = "up"
  /\ peer' = "down"
  /\ UNCHANGED <<socket, protocol, sendVars, recvVars, pc, appVars, wire, partial,
                 peerSent, noteVars>>

-----------------------------------------------------------------------------
(* handle_send() *)

\* A completed async_send is handled, leaving b in the send buffers.
OnSent(b) ==
  /\ sendOp = "ok"
  /\ FreeThread /\ ~Locked
  /\ StartSend(b)
  /\ UNCHANGED <<socket, protocol, committed, recvVars, pc, appVars, envVars,
                 noteVars>>

\* Mutants: the sent bytes are not consumed; the whole buffer is.
HandleSendWithoutConsume == OnSent(bufs)
HandleSendConsumesAll == OnSent([bufs EXCEPT ![1 - acc] = <<>>])

HandleSend == OnSent([bufs EXCEPT ![1 - acc] = SubSeq(@, sendLen + 1, Len(@))])

\* The error branch up to the is_open() of handle_close(); sending_ stays set.
HandleSendErr ==
  /\ sendOp = "err"
  /\ FreeThread /\ ~Locked
  /\ sendOp' = "none"
  /\ GoTo("send", IF IsOpen THEN "closing" ELSE "idle")
  /\ UNCHANGED <<socket, protocol, tx, acc, bufs, sendLen, committed,
                 recvVars, appVars, envVars, noteVars>>

-----------------------------------------------------------------------------
(* handle_recv() and recv_frames() *)

\* A completed async_receive is handled: handle_recv() goes on at step s.
OnReceived(result, op, s) ==
  /\ recvOp = result
  /\ FreeThread
  /\ recvOp' = op
  /\ GoTo("recv", s)
  /\ UNCHANGED <<socket, protocol, sendVars, arrived, consumed, appVars, envVars,
                 onClosed>>

HandleRecv ==
  /\ OnReceived("ok", "none", IF IsEstablished THEN "frames" ELSE "handshake")
  /\ UNCHANGED onEstablished

\* Mutants: handle_close() without is_open(); the error is ignored.
HandleRecvErrUnguarded == OnReceived("err", "none", "closing") /\ UNCHANGED noteVars
HandleRecvErrIgnored   == OnReceived("err", "none", "idle") /\ UNCHANGED noteVars

HandleRecvErr ==
  /\ OnReceived("err", "none", IF IsOpen THEN "closing" ELSE "idle")
  /\ UNCHANGED onEstablished

\* handle_recv() ends with start_recv().
Rearm == StartRecv /\ GoTo("recv", "idle")

\* protocol_->handshake() finds no complete message: nothing is consumed.
HandshakeWaits ==
  /\ pc["recv"] = "handshake"
  /\ HandshakeSteps = 0 \/ RecvSize < FrameLen
  /\ Rearm
  /\ UNCHANGED <<socket, protocol, sendVars, arrived, consumed, appVars, envVars,
                 noteVars>>

\* A message other than the last: it is consumed and answered.  The answer
\* goes through send(data, len), which reads is_open() before it locks.
HandshakeStep ==
  /\ pc["recv"] = "handshake"
  /\ RecvSize >= FrameLen /\ consumed + 1 < HandshakeSteps
  /\ consumed' = consumed + 1
  /\ \/ IsOpen /\ GoTo("recv", "reply") /\ UNCHANGED recvOp
     \/ ~IsOpen /\ Rearm
  /\ UNCHANGED <<socket, protocol, sendVars, arrived, appVars, envVars, noteVars>>

HandshakeReply ==
  /\ pc["recv"] = "reply"
  /\ ~Locked
  /\ Append2Acc(FrameLen)
  /\ Rearm
  /\ UNCHANGED <<socket, protocol, arrived, consumed, appVars, envVars, noteVars>>

\* Mutant: recv_frames() without the notification before it.
HandshakeDoneSilent ==
  /\ pc["recv"] = "handshake"
  /\ RecvSize >= FrameLen /\ consumed + 1 = HandshakeSteps
  /\ consumed' = consumed + 1
  /\ GoTo("recv", "frames")
  /\ UNCHANGED <<socket, protocol, sendVars, recvOp, arrived, appVars, envVars,
                 noteVars>>

\* The last message establishes the protocol; frames may follow it at once.
HandshakeDone ==
  /\ pc["recv"] = "handshake"
  /\ RecvSize >= FrameLen /\ consumed + 1 = HandshakeSteps
  /\ consumed' = consumed + 1
  /\ \/ /\ ~IsClosed
        /\ onEstablished' = onEstablished + 1
        /\ GoTo("recv", "frames")
        /\ UNCHANGED recvOp
     \/ /\ IsClosed
        /\ Rearm
        /\ UNCHANGED onEstablished
  /\ UNCHANGED <<socket, protocol, sendVars, arrived, appVars, envVars, onClosed>>

\* on_handshake() throws: on a message it cannot open, or on a frame taken
\* for one after closed().  Nothing on the way to the runner's loop catches
\* it, so start_recv() is not reached.
HandshakeThrows ==
  /\ pc["recv"] = "handshake"
  /\ HandshakeSteps > 0 /\ RecvSize >= FrameLen
  /\ Malformed \/ consumed >= HandshakeSteps
  /\ GoTo("recv", "idle")
  /\ UNCHANGED <<socket, protocol, sendVars, recvVars, appVars, envVars, noteVars>>

\* One round of recv_frames(): decode(), on_receive(), consume().
RecvFrame ==
  /\ pc["recv"] = "frames"
  /\ RecvSize >= FrameLen
  /\ consumed' = consumed + 1
  /\ UNCHANGED <<socket, protocol, sendVars, recvOp, arrived, pc, appVars, envVars,
                 noteVars>>

\* decode() or on_receive() throws: recv_frames() closes the socket.
RecvFrameThrows ==
  /\ pc["recv"] = "frames"
  /\ Malformed /\ RecvSize >= FrameLen
  /\ socket' = "closed"
  /\ Rearm
  /\ UNCHANGED <<protocol, sendVars, arrived, consumed, appVars, envVars,
                 noteVars>>

\* Mutant: the loop is left with a complete frame in recv_buf_.
RecvFramesDoneEarly ==
  /\ pc["recv"] = "frames"
  /\ Rearm
  /\ UNCHANGED <<socket, protocol, sendVars, arrived, consumed, appVars, envVars,
                 noteVars>>

RecvFramesDone ==
  /\ pc["recv"] = "frames"
  /\ RecvSize < FrameLen
  /\ Rearm
  /\ UNCHANGED <<socket, protocol, sendVars, arrived, consumed, appVars, envVars,
                 noteVars>>

-----------------------------------------------------------------------------
(* handle_close() after its is_open() returned true, in either handler. *)

CloseSocket(h) ==
  /\ pc[h] = "closing"
  /\ socket' = "closed"
  /\ GoTo(h, "notify")
  /\ UNCHANGED <<protocol, sendVars, recvVars, appVars, envVars, noteVars>>

NotifyClosed(h) ==
  /\ pc[h] = "notify"
  /\ protocol' = "closed"
  /\ onClosed' = onClosed + 1
  /\ GoTo(h, "idle")
  /\ UNCHANGED <<socket, sendVars, recvVars, appVars, envVars, onEstablished>>

-----------------------------------------------------------------------------
KernelSend == (\E n \in 1..sendLen : SocketSend(n)) \/ SocketSendFails
KernelRecv == (\E n \in 1..(peerSent * FrameLen - arrived) : SocketRecv(n))
              \/ SocketRecvFails

Application ==
  \/ \E t \in Senders : SendCheck(t) \/ SendCommit(t) \/ SendThrows(t)
  \/ AppClose

StartSteps == Start \/ StartThrows \/ StartNotify
SendSteps  == HandleSend \/ HandleSendErr
              \/ CloseSocket("send") \/ NotifyClosed("send")
RecvSteps ==
  \/ HandleRecv \/ HandleRecvErr
  \/ HandshakeWaits \/ HandshakeStep \/ HandshakeReply \/ HandshakeDone
  \/ HandshakeThrows
  \/ RecvFrame \/ RecvFrameThrows \/ RecvFramesDone
  \/ CloseSocket("recv") \/ NotifyClosed("recv")

Next ==
  \/ StartSteps \/ SendSteps \/ RecvSteps
  \/ Application
  \/ KernelSend \/ KernelRecv \/ PeerSend \/ PeerClose

Spec == Init /\ [][Next]_vars

\* The runner serves every queued completion, the kernel completes every
\* operation it can, and a thread inside send() leaves it; nobody is obliged
\* to send, to close or to answer.
Fairness ==
  /\ WF_vars(StartSteps) /\ WF_vars(SendSteps) /\ WF_vars(RecvSteps)
  /\ WF_vars(KernelSend) /\ WF_vars(KernelRecv)
  /\ \A t \in Senders : WF_vars(SendCommit(t) \/ SendThrows(t))

FairSpec == Spec /\ Fairness

-----------------------------------------------------------------------------
(* Properties. *)

\* Type invariant of the session's state and of what surrounds it.
SendTypeOK ==
  /\ tx \in {"idle", "sending"} /\ acc \in {0, 1}
  /\ bufs \in [{0, 1} -> Seq(Nat)]
  /\ sendOp \in Op /\ sendLen \in Nat /\ committed \in Nat
  /\ wire \in Seq(Nat)
  /\ sendOp \in {"started", "ok"} => sendLen <= Len(bufs[1 - acc])
ControlTypeOK ==
  /\ socket \in {"open", "closed"} /\ protocol \in {"live", "closed"}
  /\ recvOp \in Op /\ arrived \in Nat /\ consumed \in Nat
  /\ pc \in [Handler -> Step]
  /\ snd \in [Senders -> {"idle", "checked"}] /\ calls \in [Senders -> Nat]
  /\ partial \in BOOLEAN /\ peer \in {"up", "down"} /\ peerSent \in Nat
  /\ onEstablished \in Nat /\ onClosed \in Nat
TypeOK == SendTypeOK /\ ControlTypeOK

\* The two send buffers keep the order of send(): whatever threads call it
\* and whenever buffers swap, the bytes the kernel takes are those committed
\* by encode(), in commit order, without a gap or a repetition, as long as
\* async_send transferred all it was given.
StreamInOrder ==
  ~partial => /\ Len(wire) <= committed
              /\ \A i \in 1..Len(wire) : wire[i] = i

\* The inductive form of StreamInOrder before a partial transfer: wire, the buffer
\* being sent and the accumulation buffer, one after the other, spell out the
\* commit order, and nothing waits while no send is outstanding.
Base == IF sendOp = "ok" THEN Len(wire) - sendLen ELSE Len(wire)
Consecutive(s, from) == \A i \in 1..Len(s) : s[i] = from + i
OrderInv ==
  /\ tx = "idle" => sendOp = "none" /\ bufs[1 - acc] = <<>> /\ bufs[acc] = <<>>
  /\ sendOp \in {"started", "ok"} => sendLen = Len(bufs[1 - acc])
  /\ Base >= 0
  /\ Consecutive(wire, 0)
  /\ Consecutive(bufs[1 - acc], Base)
  /\ Consecutive(bufs[acc], Base + Len(bufs[1 - acc]))
  /\ committed = Base + Len(bufs[1 - acc]) + Len(bufs[acc])

\* The bytes of the buffer being sent that are not on the wire yet.
Unsent == IF sendOp = "ok"
          THEN SubSeq(bufs[1 - acc], sendLen + 1, Len(bufs[1 - acc]))
          ELSE bufs[1 - acc]

\* Even when async_send transfers only a part, consume() and the swap lose
\* and duplicate nothing: every committed byte is on the wire or in one of
\* the two buffers, once.
NothingLost ==
  LET all == wire \o Unsent \o bufs[acc]
  IN  /\ Len(all) = committed
      /\ {all[i] : i \in DOMAIN all} = 1..committed

\* While async_send holds a pointer into a send buffer nobody touches that
\* buffer and no second async_send is started (the reason for sending_ and
\* for the second buffer).
InFlightStable ==
  [][sendOp = "started" /\ sendOp' = "started"
       => /\ acc' = acc /\ sendLen' = sendLen
          /\ bufs'[1 - acc] = bufs[1 - acc]]_vars

\* handler_.on_closed() is called at most twice, once by each handler: the
\* "0 to 2" notifications the declaration of close() announces.
ClosedAtMostTwice == onClosed <= 2

\* The inductive form: a handler that notified has ended its chain of
\* asynchronous operations for good.  handle_send() leaves sending_ set, so
\* nobody starts another async_send; handle_recv() is the only one that
\* re-arms async_receive.
SendEnded == tx = "sending" /\ sendOp = "none" /\ pc["send"] = "idle"
RecvEnded == recvOp = "none" /\ pc["recv"] = "idle" /\ pc["start"] # "init"
CloseInv ==
  /\ tx = "idle" => sendOp = "none"
  /\ pc["send"] # "idle" => tx = "sending" /\ sendOp = "none"
  /\ pc["recv"] # "idle" => recvOp = "none" /\ pc["start"] # "init"
  /\ recvOp # "none" => pc["start"] # "init"
  /\ onClosed <= (IF SendEnded THEN 1 ELSE 0) + (IF RecvEnded THEN 1 ELSE 0)

\* on_closed() is called at most once.
ClosedOnce == onClosed <= 1

\* The inductive form for one runner thread: handlers exclude each other, and
\* the handler between its is_open() and its notification is the first.
Exclusive == \A g, h \in Handler : Running(g) /\ Running(h) => g = h
OnceInv ==
  /\ Exclusive
  /\ \A h \in Handler : pc[h] \in {"closing", "notify"} => onClosed = 0
  /\ onClosed > 0 \/ (\E h \in Handler : pc[h] = "notify") => ~IsOpen
  /\ ClosedOnce

\* on_established() is called at most once: by start() or by handle_recv().
EstablishedOnce == onEstablished <= 1

\* The inductive form for one runner thread or no handshake: which of the
\* two may still call on_established().
EstablishedInv ==
  /\ onEstablished <= 1
  /\ pc["start"] \in {"init", "est"} /\ HandshakeSteps = 0 => onEstablished = 0
  /\ HandshakeSteps > 0 =>
       /\ consumed < HandshakeSteps => onEstablished = 0
       /\ pc["start"] \in {"init", "est"} => consumed = 0

\* No frame reaches on_receive() before on_established() was called, except
\* where nothing was negotiated: there start() has armed the receive already
\* and is about to notify, and on another thread frames overtake it.
EstablishedFirst ==
  [][consumed' # consumed /\ consumed >= HandshakeSteps =>
       \/ onEstablished > 0 \/ IsClosed
       \/ HandshakeSteps = 0 /\ pc["start"] = "est"]_vars

\* The inductive form: recv_frames() runs after the notification, or the
\* notification is still to come, unless closed() came before it.
FirstInv ==
  /\ pc["start"] \in {"init", "est", "done", "failed"}
  /\ pc["recv"] # "idle" \/ recvOp # "none" => pc["start"] # "init"
  /\ pc["start"] = "failed" => pc["recv"] = "idle" /\ recvOp = "none"
  /\ HandshakeSteps = 0 /\ pc["start"] = "done" => onEstablished > 0 \/ IsClosed
  /\ HandshakeSteps > 0 =>
       /\ consumed >= HandshakeSteps => onEstablished > 0 \/ IsClosed
       /\ pc["recv"] = "frames" => onEstablished > 0

\* No frame reaches on_receive() after on_closed() was called.
NoFrameAfterClosed ==
  [][consumed' # consumed /\ consumed >= HandshakeSteps => onClosed = 0]_vars

\* The inductive form for one runner thread: the notification closes the
\* protocol, and recv_frames() runs on one that is live.
LiveFramesInv ==
  /\ onClosed > 0 => IsClosed
  /\ pc["recv"] = "frames" => ~IsClosed

\* handle_recv() re-arms async_receive only when recv_buf_ holds no complete
\* frame: a frame left there would wait for the peer to send again.
FramesDrained == recvOp = "started" /\ IsEstablished /\ IsOpen => RecvSize < FrameLen

\* The inductive form: handle_recv() takes the handshake branch of an
\* established protocol only after closed(), and answers only before the last
\* message.
DrainInv ==
  /\ pc["start"] = "init" => arrived = 0 /\ consumed = 0
  /\ pc["recv"] = "handshake" /\ consumed >= HandshakeSteps => IsClosed
  /\ pc["recv"] = "reply" => consumed < HandshakeSteps
  /\ FramesDrained

\* Every message of the peer is eventually consumed, unless the session
\* closes or the peer goes away: for the handshake, it completes.
Received ==
  \A n \in 1..MaxIn :
    peerSent >= n ~> consumed >= n \/ ~IsOpen \/ peer = "down"

\* A session that was started and is closed, by whomever, is eventually told
\* of to the handler.
\* Refuted: the README says how.
CloseTold == pc["start"] = "done" /\ ~IsOpen ~> onClosed > 0

\* The loss of the peer is eventually noticed and the socket closed.
PeerLossNoticed == peer = "down" /\ pc["start"] = "done" ~> ~IsOpen
=============================================================================
