-------------------------- MODULE PulseCallProofs --------------------------
(***************************************************************************)
(* Theorems about PulseCall for every set of calls and topics and every    *)
(* number of threads, with or without a strand.                            *)
(***************************************************************************)
EXTENDS PulseCall, FiniteSetTheorems, TLAPS

-----------------------------------------------------------------------------
\* What dispatch() posts is a sequence of topics.
LEMMA PostedSeq ==
  ASSUME TypeOK, NEW t \in Topics
  PROVE  Posted(t) \in Seq(Topics)
<1>1. subs[t] \in Nat
  BY DEF TypeOK
<1>2. [i \in 1..subs[t] |-> t] \in Seq(Topics)
  BY <1>1
<1>3. <<>> \in Seq(Topics)
  OBVIOUS
<1> QED BY <1>2, <1>3 DEF Posted

\* Taking one task from a sequence leaves a sequence.
LEMMA RemoveAtSeq ==
  ASSUME NEW S, NEW s \in Seq(S), NEW i \in 1..Len(s)
  PROVE  RemoveAt(s, i) \in Seq(S)
<1>1. SubSeq(s, 1, i - 1) \in Seq(S)
  OBVIOUS
<1>2. SubSeq(s, i + 1, Len(s)) \in Seq(S)
  OBVIOUS
<1> QED BY <1>1, <1>2 DEF RemoveAt

PcType == pc \in [Calls -> [step : Step, on : Topics]]

\* A call moves on to another step of call().
LEMMA AtType ==
  ASSUME PcType, NEW c \in Calls, NEW s \in Step, NEW t \in Topics, At(c, s, t)
  PROVE  PcType'
<1>1. [step |-> s, on |-> t] \in [step : Step, on : Topics]
  OBVIOUS
<1> QED BY <1>1 DEF PcType, At

\* The type invariant is inductive.
LEMMA TypeInit == Init => TypeOK
<1> SUFFICES ASSUME Init PROVE TypeOK
  OBVIOUS
<1>1. Empty \in TopicCalls
  BY DEF Empty, TopicCalls
<1>2. NoReq \in Reqs \cup {NoReq} /\ Closed \in Topics /\ AppSubs \subseteq Topics
  BY PulseCallAssumption DEF Topics
<1> QED BY <1>1, <1>2 DEF Init, TypeOK, Step

\* Each step keeps the types.
LEMMA TypeStep ==
  ASSUME TypeOK, [Next]_vars
  PROVE  TypeOK'
<1> USE DEF TypeOK
<1>0. Closed \in Topics /\ (\A c \in Calls : Res[c] \in Topics /\ Req[c] \in Reqs)
  BY DEF Topics, Reqs
<1>S. "check" \in Step /\ "push" \in Step /\ "show" \in Step /\ "register" \in Step
      /\ "done" \in Step
  BY DEF Step
<1>P. PcType /\ \A c \in Calls : pc[c].on \in Topics
  BY DEF PcType
<1>1. ASSUME NEW c \in Calls, Send(c) PROVE TypeOK'
  <2>1. PcType'
    BY <1>0, <1>1, <1>S, <1>P, AtType DEF Send, Sent, Refused
  <2>0. /\ requests' = requests \/ requests' = Append(requests, c)
        /\ failed' = failed \/ failed' = [failed EXCEPT ![c] = @ + 1]
    BY <1>1 DEF Send, Sent, Refused
  <2> HIDE DEF TypeOK
  <2>a. requests \in Seq(Calls) /\ failed \in [Calls -> Nat]
    BY DEF TypeOK
  <2>2. requests' \in Seq(Calls)
    BY <2>0, <2>a
  <2>3. failed' \in [Calls -> Nat]
    BY <2>0, <2>a
  <2> USE DEF TypeOK
  <2> QED BY <1>1, <2>1, <2>2, <2>3 DEF Send, Sent, Refused, PcType, subVars, callVars
<1>2. ASSUME NEW c \in Calls, Look(c) PROVE TypeOK'
  <2>1. PcType'
    BY <1>0, <1>2, <1>S, <1>P, AtType DEF Look
  <2> QED BY <1>2, <2>1 DEF Look, PcType, envVars, subVars, callVars
<1>3. ASSUME NEW c \in Calls, Subscribe(c) PROVE TypeOK'
  <2>1. PcType'
    BY <1>0, <1>3, <1>S, <1>P, AtType DEF Subscribe
  <2>2. subs' \in [Topics -> Nat]
    BY <1>3, <1>P DEF Subscribe
  <2> QED BY <1>3, <2>1, <2>2 DEF Subscribe, PcType, envVars, callVars
<1>4. ASSUME NEW c \in Calls, ShowInterest(c) PROVE TypeOK'
  <2>1. PcType'
    BY <1>0, <1>4, <1>S, <1>P, AtType DEF ShowInterest
  <2> QED BY <1>4, <1>P, <2>1 DEF ShowInterest, PcType, envVars, callVars
<1>5. ASSUME NEW c \in Calls, Register(c) PROVE TypeOK'
  <2>0. calls[Req[c]] \in TopicCalls
    BY <1>0
  <2>1. calls' \in [Reqs -> TopicCalls]
    <3> DEFINE q == [known |-> "yes",
                     call_index |-> calls[Req[c]].call_index + 1,
                     reply_index |-> calls[Req[c]].reply_index,
                     callers |-> Append(calls[Req[c]].callers, c)]
    <3>0. Append(calls[Req[c]].callers, c) \in Seq(Calls)
      BY <2>0 DEF TopicCalls
    <3>1. q \in TopicCalls
      BY <2>0, <3>0, SMTT(20) DEF TopicCalls
    <3>2. calls' = [calls EXCEPT ![Req[c]] = q]
      BY <1>5 DEF Register
    <3> HIDE DEF q
    <3> QED BY <1>0, <3>1, <3>2
  <2>2. callId' \in [Calls -> Nat] /\ pairs' \in [Topics -> Reqs \cup {NoReq}]
    BY <1>0, <1>5, <2>0, SMTT(20) DEF Register, TopicCalls
  <2>3. PcType'
    BY <1>0, <1>5, <1>S, <1>P, AtType DEF Register
  <2> QED BY <1>5, <2>1, <2>2, <2>3 DEF Register, PcType, envVars, subVars
<1>6. CASE PeerReply
  BY <1>6, SMTT(20) DEF PeerReply, subVars, callVars
<1>7. CASE OnReceive
  <2>1. Head(replies) \in Calls
    BY <1>7 DEF OnReceive
  <2>2. Posted(Res[Head(replies)]) \in Seq(Topics)
    BY <1>0, <2>1, PostedSeq
  <2> QED BY <1>7, <2>1, <2>2, SMTT(20) DEF OnReceive, subVars, callVars
<1>8. CASE OnClosed
  <2>1. Posted(Closed) \in Seq(Topics)
    BY <1>0, PostedSeq
  <2>2. notes' \in 0..2
    BY <1>8 DEF OnClosed
  <2> QED BY <1>8, <2>1, <2>2 DEF OnClosed, subVars, callVars
<1>9. ASSUME NEW i \in 1..Window, RunTask(i) PROVE TypeOK'
  <2>1. i \in 1..Len(tasks) /\ tasks[i] \in Topics
    BY <1>9 DEF RunTask
  <2>2. tasks' \in Seq(Topics)
    BY <1>9, <2>1, RemoveAtSeq DEF RunTask
  <2>3. CASE CallClosed
    <3>1. Empty \in TopicCalls
      BY DEF Empty, TopicCalls
    <3> QED BY <1>9, <2>2, <2>3, <3>1 DEF RunTask, CallClosed, envVars, subVars
  <2>4. CASE CallReceive(tasks[i])
    <3> DEFINE r == pairs[tasks[i]]
               q == [known |-> "yes", call_index |-> calls[r].call_index,
                     reply_index |-> calls[r].reply_index + 1,
                     callers |-> Tail(calls[r].callers)]
    <3>1. ASSUME r \in Reqs, calls[r].callers # <<>>, calls' = [calls EXCEPT ![r] = q]
          PROVE  calls' \in [Reqs -> TopicCalls]
      <4>1. calls[r] \in TopicCalls
        BY <3>1
      <4>0. Tail(calls[r].callers) \in Seq(Calls)
        BY <3>1, <4>1, SMTT(20) DEF TopicCalls
      <4> HIDE DEF TypeOK
      <4>2. q \in TopicCalls
        BY <4>0, <4>1 DEF TopicCalls
      <4> USE DEF TypeOK
      <4> QED BY <3>1, <4>2
    <3>2. calls' \in [Reqs -> TopicCalls]
      BY <2>1, <2>4, <3>1 DEF CallReceive
    <3>3. check' \in {"ok", "empty", "index"}
      BY <2>4 DEF CallReceive
    <3> QED BY <1>9, <2>2, <2>4, <3>2, <3>3 DEF RunTask, CallReceive, envVars, subVars
  <2> QED BY <1>9, <2>3, <2>4 DEF RunTask
<1>10. CASE CloseSilently \/ UNCHANGED vars
  BY <1>10 DEF CloseSilently, vars, envVars, subVars, callVars
<1> QED BY <1>1, <1>2, <1>3, <1>4, <1>5, <1>6, <1>7, <1>8, <1>9, <1>10
        DEF Next, CallSteps, Runner

\* The types: among them that call_pairs_ only ever leads to request topics,
\* which call_receive() uses as keys of calls_.
THEOREM TypeCorrect == Spec => []TypeOK
<1>1. TypeOK /\ [Next]_vars => TypeOK'
  BY TypeStep
<1> QED BY TypeInit, <1>1, PTL DEF Spec

-----------------------------------------------------------------------------
(* Which calls wait, and for how long. *)

\* Registering a call adds it at the end of its queue and nothing else.
LEMMA RegisterQueue ==
  ASSUME TypeOK, NEW c \in Calls, Register(c)
  PROVE  /\ \A r \in Reqs : r # Req[c] => calls'[r] = calls[r]
         /\ calls'[Req[c]].call_index = calls[Req[c]].call_index + 1
         /\ calls'[Req[c]].reply_index = calls[Req[c]].reply_index
         /\ calls'[Req[c]].callers = Append(calls[Req[c]].callers, c)
         /\ calls'[Req[c]].known = "yes"
<1>1. Req[c] \in Reqs
  BY DEF Reqs
<1> QED BY <1>1 DEF Register, TypeOK

\* call_receive() takes the first of one queue, or changes no queue.
LEMMA ReceiveQueue ==
  ASSUME TypeOK, NEW t \in Topics, CallReceive(t)
  PROVE  \/ calls' = calls
         \/ \E p \in Reqs :
              /\ calls[p].callers # <<>>
              /\ \A r \in Reqs : r # p => calls'[r] = calls[r]
              /\ calls'[p].call_index = calls[p].call_index
              /\ calls'[p].reply_index = calls[p].reply_index + 1
              /\ calls'[p].callers = Tail(calls[p].callers)
<1>1. pairs[t] \in Reqs \cup {NoReq}
  BY DEF TypeOK
<1> DEFINE p == pairs[t]
           q == [known |-> "yes", call_index |-> calls[p].call_index,
                 reply_index |-> calls[p].reply_index + 1,
                 callers |-> Tail(calls[p].callers)]
<1>2. \/ calls' = calls
      \/ p \in Reqs /\ calls[p].callers # <<>> /\ calls' = [calls EXCEPT ![p] = q]
  BY <1>1 DEF CallReceive
<1>3. CASE p \in Reqs /\ calls[p].callers # <<>> /\ calls' = [calls EXCEPT ![p] = q]
  <2>1. calls'[p] = q /\ \A r \in Reqs : r # p => calls'[r] = calls[r]
    BY <1>3 DEF TypeOK
  <2> QED BY <1>3, <2>1
<1> QED BY <1>2, <1>3

\* Registering lets nobody wait but the caller that registers.
LEMMA RegisterWaiting ==
  ASSUME TypeOK, NEW c \in Calls, Register(c), NEW d \in Calls, Waiting(d)'
  PROVE  Waiting(d) \/ d = c
<1>1. PICK r \in Reqs : \E i \in 1..Len(calls'[r].callers) : calls'[r].callers[i] = d
  BY DEF Waiting
<1>2. PICK i \in 1..Len(calls'[r].callers) : calls'[r].callers[i] = d
  BY <1>1
<1>3. CASE r # Req[c]
  BY <1>2, <1>3, RegisterQueue DEF Waiting
<1>4. CASE r = Req[c]
  <2>1. calls[r].callers \in Seq(Calls)
    BY DEF TypeOK, TopicCalls
  <2>2. calls'[r].callers = Append(calls[r].callers, c)
    BY <1>4, RegisterQueue
  <2>3. i \in 1..Len(calls[r].callers) \/ d = c
    BY <1>2, <2>1, <2>2
  <2>4. i \in 1..Len(calls[r].callers) => calls[r].callers[i] = d
    BY <1>2, <2>1, <2>2
  <2> QED BY <2>3, <2>4 DEF Waiting
<1> QED BY <1>3, <1>4

\* call_receive() lets nobody wait who did not.
LEMMA ReceiveWaiting ==
  ASSUME TypeOK, NEW t \in Topics, CallReceive(t), NEW d \in Calls, Waiting(d)'
  PROVE  Waiting(d)
<1>1. PICK r \in Reqs : \E i \in 1..Len(calls'[r].callers) : calls'[r].callers[i] = d
  BY DEF Waiting
<1>2. PICK i \in 1..Len(calls'[r].callers) : calls'[r].callers[i] = d
  BY <1>1
<1>3. CASE calls'[r] = calls[r]
  BY <1>2, <1>3 DEF Waiting
<1>4. CASE calls[r].callers # <<>> /\ calls'[r].callers = Tail(calls[r].callers)
  <2>1. calls[r].callers \in Seq(Calls)
    BY DEF TypeOK, TopicCalls
  <2>2. i + 1 \in 1..Len(calls[r].callers) /\ calls[r].callers[i + 1] = d
    BY <1>2, <1>4, <2>1
  <2> QED BY <2>2 DEF Waiting
<1> QED BY <1>3, <1>4, ReceiveQueue

\* After call_closed() nobody waits.
LEMMA ClosedWaiting ==
  ASSUME TypeOK, CallClosed, NEW d \in Calls
  PROVE  ~Waiting(d)'
BY DEF CallClosed, Waiting, Empty

\* No caller waits or has been reported at first.
LEMMA CallerInit == Init => CallerInv
BY DEF Init, CallerInv, Waiting, Empty

\* Each step keeps a caller in a queue only after its call and before its report.
LEMMA CallerStep ==
  ASSUME TypeOK, CallerInv, [Next]_vars
  PROVE  CallerInv'
<1> DEFINE Ok(d) == /\ pc[d].step # "done" => ~Waiting(d) /\ failed[d] = 0
                    /\ Waiting(d) => failed[d] = 0
                    /\ failed[d] <= 1
<1> SUFFICES ASSUME NEW d \in Calls PROVE Ok(d)'
  BY DEF CallerInv
<1>0. Ok(d) /\ failed[d] \in Nat
  BY DEF CallerInv, TypeOK
<1>a. calls' = calls => (Waiting(d)' <=> Waiting(d))
  BY DEF Waiting
<1>p. \A c \in Calls : \A s, t : At(c, s, t) =>
        /\ pc'[c].step = s
        /\ d # c => pc'[d] = pc[d]
  BY DEF At, TypeOK
<1>1. ASSUME NEW c \in Calls, Send(c) PROVE Ok(d)'
  <2>1. calls' = calls /\ pc[c].step # "done"
    BY <1>1 DEF Send, Sent, Refused, callVars
  <2>2. d # c => pc'[d] = pc[d] /\ failed'[d] = failed[d]
    BY <1>1, <1>p DEF Send, Sent, Refused, TypeOK
  <2>3. d = c => \/ pc'[d].step = "check" /\ failed'[d] = failed[d]
                 \/ pc'[d].step = "done" /\ failed'[d] = failed[d] + 1
    BY <1>1, <1>p DEF Send, Sent, Refused, TypeOK
  <2> QED BY <1>0, <1>a, <2>1, <2>2, <2>3
<1>2. ASSUME NEW c \in Calls, Look(c) \/ Subscribe(c) \/ ShowInterest(c) PROVE Ok(d)'
  <2>1. calls' = calls /\ failed' = failed /\ pc[c].step # "done"
    BY <1>2 DEF Look, Subscribe, ShowInterest, callVars
  <2>2. d # c => pc'[d] = pc[d]
    BY <1>2, <1>p DEF Look, Subscribe, ShowInterest
  <2> QED BY <1>0, <1>a, <2>1, <2>2
<1>3. ASSUME NEW c \in Calls, Register(c) PROVE Ok(d)'
  <2>1. failed' = failed /\ pc[c].step # "done" /\ pc'[c].step = "done"
    BY <1>3, <1>p DEF Register
  <2>2. d # c => pc'[d] = pc[d] /\ (Waiting(d)' => Waiting(d))
    BY <1>3, <1>p, RegisterWaiting DEF Register
  <2> QED BY <1>0, <2>1, <2>2
<1>4. CASE PeerReply \/ OnReceive \/ OnClosed \/ CloseSilently
  BY <1>0, <1>4, <1>a DEF PeerReply, OnReceive, OnClosed, CloseSilently, callVars
<1>5. ASSUME NEW i \in 1..Window, RunTask(i) PROVE Ok(d)'
  <2>1. pc' = pc /\ tasks[i] \in Topics
    BY <1>5 DEF RunTask, TypeOK
  <2>2. CASE CallClosed
    <3>1. failed'[d] = IF Waiting(d) THEN failed[d] + 1 ELSE failed[d]
      BY <2>2 DEF CallClosed
    <3> QED BY <1>0, <2>1, <2>2, <3>1, ClosedWaiting
  <2>3. CASE CallReceive(tasks[i])
    <3>1. failed' = failed
      BY <2>3 DEF CallReceive
    <3> QED BY <1>0, <2>1, <2>3, <3>1, ReceiveWaiting
  <2> QED BY <1>5, <2>2, <2>3 DEF RunTask
<1>6. CASE UNCHANGED vars
  BY <1>0, <1>6, <1>a DEF vars, callVars
<1> QED BY <1>1, <1>2, <1>3, <1>4, <1>5, <1>6 DEF Next, CallSteps, Runner

\* The error callback of a call is used at most once, for any number of
\* calls, notifications of the close and call_closed() subscriptions.
THEOREM ReportedOnce == Spec => []FailedOnce
<1>1. TypeOK /\ CallerInv /\ [Next]_vars => TypeOK' /\ CallerInv'
  BY TypeStep, CallerStep
<1>2. CallerInv => FailedOnce
  BY DEF CallerInv, FailedOnce
<1> QED BY TypeInit, CallerInit, <1>1, <1>2, PTL DEF Spec

-----------------------------------------------------------------------------
(* The numbers call_receive() compares. *)

\* The queues are empty at first.
LEMMA NumberedInit == Init => Numbered
BY DEF Init, Numbered, Empty

\* Register() and call_receive() keep the numbers of a queue consecutive.
LEMMA NumberedStep ==
  ASSUME TypeOK, CallerInv, Numbered, [Next]_vars
  PROVE  Numbered'
<1> DEFINE q(r) == calls[r].callers
           Ok(r) == /\ calls[r].call_index = calls[r].reply_index + Len(q(r))
                    /\ \A i \in 1..Len(q(r)) : callId[q(r)[i]] = calls[r].reply_index + i
<1> SUFFICES ASSUME NEW r \in Reqs PROVE Ok(r)'
  BY DEF Numbered
<1>0. /\ Ok(r)
      /\ q(r) \in Seq(Calls)
      /\ calls[r].call_index \in Nat /\ calls[r].reply_index \in Nat
  BY DEF Numbered, TypeOK, TopicCalls
<1>a. calls' = calls /\ callId' = callId => Ok(r)'
  BY <1>0
<1>1. ASSUME NEW c \in Calls, Send(c) \/ Look(c) \/ Subscribe(c) \/ ShowInterest(c)
      PROVE  Ok(r)'
  BY <1>1, <1>a DEF Send, Sent, Refused, Look, Subscribe, ShowInterest, callVars
<1>2. ASSUME NEW c \in Calls, Register(c) PROVE Ok(r)'
  <2>1. ~Waiting(c)
    BY <1>2 DEF CallerInv, Register
  <2>2. \A i \in 1..Len(q(r)) : q(r)[i] # c
    BY <2>1 DEF Waiting
  <2>3. \A i \in 1..Len(q(r)) : callId'[q(r)[i]] = callId[q(r)[i]]
    <3>1. ASSUME NEW d \in Calls, d # c PROVE callId'[d] = callId[d]
      BY <1>2, <3>1 DEF Register, TypeOK
    <3>2. \A i \in 1..Len(q(r)) : q(r)[i] \in Calls
      BY <1>0
    <3> QED BY <2>2, <3>1, <3>2
  <2>4. CASE r # Req[c]
    <3>1. calls'[r] = calls[r]
      BY <2>4, <1>2, RegisterQueue
    <3> QED BY <1>0, <2>3, <3>1
  <2>5. CASE r = Req[c]
    <3>1. /\ calls'[r].call_index = calls[r].call_index + 1
          /\ calls'[r].reply_index = calls[r].reply_index
          /\ q(r)' = Append(q(r), c)
      BY <2>5, <1>2, RegisterQueue
    <3>2. callId'[c] = calls[r].call_index + 1
      BY <2>5, <1>2 DEF Register, TypeOK
    <3>3. /\ Len(q(r)') = Len(q(r)) + 1
          /\ q(r)'[Len(q(r)) + 1] = c
          /\ \A i \in 1..Len(q(r)) : q(r)'[i] = q(r)[i]
      BY <1>0, <3>1
    <3>n. Len(q(r)) \in Nat
      BY <1>0
    <3> HIDE DEF q
    <3>4. ASSUME NEW i \in 1..Len(q(r)')
          PROVE  callId'[q(r)'[i]] = calls[r].reply_index + i
      <4>1. CASE i \in 1..Len(q(r))
        BY <1>0, <2>3, <3>3, <4>1
      <4>2. CASE i = Len(q(r)) + 1
        <5>1. q(r)'[i] = c /\ callId'[c] = calls[r].call_index + 1
          BY <3>2, <3>3, <4>2
        <5>2. calls[r].call_index + 1 = calls[r].reply_index + (Len(q(r)) + 1)
          BY <1>0, <3>n, SMTT(20)
        <5> QED BY <4>2, <5>1, <5>2
      <4> QED BY <3>3, <3>n, <4>1, <4>2
    <3>5. calls'[r].call_index = calls'[r].reply_index + Len(q(r)')
      BY <1>0, <3>n, <3>1, <3>3
    <3> QED BY <3>1, <3>4, <3>5
  <2> QED BY <2>4, <2>5
<1>3. CASE PeerReply \/ OnReceive \/ OnClosed \/ CloseSilently
  BY <1>3, <1>a DEF PeerReply, OnReceive, OnClosed, CloseSilently, callVars
<1>4. ASSUME NEW i \in 1..Window, RunTask(i) PROVE Ok(r)'
  <2>1. callId' = callId /\ tasks[i] \in Topics
    BY <1>4 DEF RunTask, CallClosed, CallReceive, TypeOK
  <2>2. CASE CallClosed
    <3>1. calls'[r].call_index = 0 /\ calls'[r].reply_index = 0 /\ q(r)' = <<>>
      BY <2>2 DEF CallClosed, Empty
    <3> QED BY <3>1
  <2>3. CASE CallReceive(tasks[i])
    <3>1. CASE calls'[r] = calls[r]
      BY <1>0, <2>1, <3>1
    <3>2. CASE /\ q(r) # <<>>
               /\ calls'[r].call_index = calls[r].call_index
               /\ calls'[r].reply_index = calls[r].reply_index + 1
               /\ q(r)' = Tail(q(r))
      <4>1. /\ Len(q(r)') = Len(q(r)) - 1
            /\ \A j \in 1..Len(q(r)') : q(r)'[j] = q(r)[j + 1] /\ j + 1 \in 1..Len(q(r))
        BY <1>0, <3>2
      <4>n. Len(q(r)) \in Nat
        BY <1>0
      <4> HIDE DEF q
      <4>2. ASSUME NEW j \in 1..Len(q(r)')
            PROVE  callId'[q(r)'[j]] = calls'[r].reply_index + j
        <5>1. callId[q(r)[j + 1]] = calls[r].reply_index + (j + 1)
          BY <1>0, <4>1
        <5>2. j \in Nat
          BY <4>1, <4>n
        <5>3. callId'[q(r)'[j]] = calls[r].reply_index + (j + 1)
          BY <2>1, <4>1, <5>1
        <5>4. calls[r].reply_index + (j + 1) = calls'[r].reply_index + j
          <6>1. calls[r].reply_index \in Nat
            BY <1>0
          <6>2. calls'[r].reply_index = calls[r].reply_index + 1
            BY <3>2
          <6>3. \A a \in Nat : a + (j + 1) = (a + 1) + j
            BY <5>2
          <6> QED BY <6>1, <6>2, <6>3, Zenon
        <5> QED BY <5>3, <5>4
      <4>3. calls'[r].call_index = calls'[r].reply_index + Len(q(r)')
        BY <1>0, <3>2, <4>1, <4>n
      <4> QED BY <4>2, <4>3
    <3> QED BY <2>1, <2>3, <3>1, <3>2, ReceiveQueue
  <2> QED BY <1>4, <2>2, <2>3 DEF RunTask
<1>5. CASE UNCHANGED vars
  BY <1>5, <1>a DEF vars, callVars
<1> QED BY <1>1, <1>2, <1>3, <1>4, <1>5 DEF Next, CallSteps, Runner

\* The callers of a topic always carry the numbers that follow reply_index,
\* so the comparison in call_receive() can never fail on a caller it finds.
THEOREM NumbersMatch == Spec => []Numbered
<1>1. TypeOK /\ CallerInv /\ Numbered /\ [Next]_vars
        => TypeOK' /\ CallerInv' /\ Numbered'
  BY TypeStep, CallerStep, NumberedStep
<1> QED BY TypeInit, CallerInit, NumberedInit, <1>1, PTL DEF Spec

-----------------------------------------------------------------------------
(* How often a topic is subscribed. *)

\* The sets that are counted are finite.
LEMMA Counted ==
  /\ IsFiniteSet(Active) /\ Cardinality(Active) \in Nat
  /\ \A t : /\ IsFiniteSet(Pushing(t)) /\ Cardinality(Pushing(t)) \in Nat
           /\ Cardinality(Pushing(t)) <= Cardinality(Active)
<1>1. IsFiniteSet(Active)
  BY PulseCallAssumption, FS_Subset DEF Active
<1>2. \A t : Pushing(t) \in SUBSET Active
  BY DEF Pushing, Active
<1>3. \A t : IsFiniteSet(Pushing(t)) /\ Cardinality(Pushing(t)) <= Cardinality(Active)
  BY <1>1, <1>2, FS_Subset
<1> QED BY <1>1, <1>3, FS_CardinalityType

\* Nobody calls or has subscribed at first.
LEMMA SubsInit == Init => SubsInv
<1> SUFFICES ASSUME Init PROVE SubsInv
  OBVIOUS
<1>1. Active = {} /\ \A t : Pushing(t) = {}
  BY DEF Init, Active, Pushing
<1>2. Cardinality(Active) = 0 /\ \A t : Cardinality(Pushing(t)) = 0
  BY <1>1, FS_EmptySet
<1>3. \A t \in Topics : subs[t] = 0
  BY DEF Init
<1> QED BY <1>2, <1>3, PulseCallAssumption DEF SubsInv

\* A step of call c that leaves subs alone and does not make c push.
LEMMA QuietCallStep ==
  ASSUME TypeOK, SubsInv, subs' = subs,
         NEW c \in Calls, NEW s, NEW t, At(c, s, t),
         pc[c].step # "push", s # "push",
         \/ c \in Active
         \/ s = "done"
         \/ Cardinality(Active) < Threads
  PROVE  SubsInv'
<1>1. pc'[c].step = s /\ \A d \in Calls : d # c => pc'[d] = pc[d]
  BY DEF At, TypeOK
<1>2. \A u : Pushing(u)' = Pushing(u)
  BY <1>1 DEF Pushing
<1>3. Active' = Active \/ Active' = Active \ {c}
      \/ (Active' = Active \cup {c} /\ Cardinality(Active) < Threads)
  BY <1>1 DEF Active
<1>a. Cardinality(Active \ {c}) <= Threads
  <2>1. IsFiniteSet(Active) /\ Active \ {c} \in SUBSET Active
    BY Counted
  <2>2. /\ Cardinality(Active \ {c}) <= Cardinality(Active)
        /\ Cardinality(Active \ {c}) \in Nat
    BY <2>1, FS_Subset, FS_CardinalityType
  <2> QED BY <2>2, Counted, PulseCallAssumption DEF SubsInv
<1>b. Cardinality(Active \cup {c}) <= Cardinality(Active) + 1
  <2>1. IsFiniteSet(Active) /\ Cardinality(Active) \in Nat
    BY Counted
  <2>2. Cardinality(Active \cup {c}) =
          IF c \in Active THEN Cardinality(Active) ELSE Cardinality(Active) + 1
    BY <2>1, FS_AddElement
  <2> QED BY <2>1, <2>2
<1>c. Cardinality(Active \cup {c}) \in Nat
  BY Counted, FS_AddElement, FS_CardinalityType
<1>d. Cardinality(Active) < Threads => Cardinality(Active \cup {c}) <= Threads
  BY <1>b, <1>c, Counted, PulseCallAssumption
<1>4. Cardinality(Active') <= Threads
  BY <1>3, <1>a, <1>d DEF SubsInv
<1> QED BY <1>2, <1>4 DEF SubsInv

\* A subscription is made by a call that was about to make it, so the bound is kept.
LEMMA SubsStep ==
  ASSUME TypeOK, SubsInv, [Next]_vars
  PROVE  SubsInv'
<1>a. pc' = pc /\ subs' = subs => SubsInv'
  BY DEF SubsInv, Active, Pushing
<1>1. ASSUME NEW c \in Calls, Send(c) PROVE SubsInv'
  <2>1. subs' = subs /\ pc[c].step = "idle" /\ Cardinality(Active) < Threads
    BY <1>1 DEF Send, Sent, Refused, subVars, FreeThread, Busy
  <2>2. At(c, "check", Closed) \/ At(c, "done", Closed)
    BY <1>1 DEF Send, Sent, Refused
  <2> QED BY <2>1, <2>2, QuietCallStep
<1>2. ASSUME NEW c \in Calls, Look(c) PROVE SubsInv'
  <2>0. PICK t \in Topics : t = pc[c].on
    BY DEF TypeOK
  <2>1. subs' = subs /\ pc[c].step = "check" /\ c \in Active
    BY <1>2 DEF Look, subVars, Active, TypeOK
  <2>2. CASE At(c, "check", Res[c]) \/ At(c, "register", t)
    BY <2>1, <2>2, QuietCallStep
  <2>3. CASE ~HasSubscription(t) /\ At(c, "push", t)
    <3>1. /\ pc'[c].step = "push" /\ pc'[c].on = t
          /\ \A d \in Calls : d # c => pc'[d] = pc[d]
      BY <2>3 DEF At, TypeOK
    <3>2. Active' = Active
      BY <2>1, <3>1 DEF Active
    <3>3. subs[t] = 0
      BY <2>1, <2>3 DEF HasSubscription, TypeOK
    <3>4. Pushing(t)' \in SUBSET Active
      BY <3>2 DEF Pushing, Active
    <3>5. Cardinality(Pushing(t)') <= Cardinality(Active) /\ Cardinality(Pushing(t)') \in Nat
      BY <3>4, Counted, FS_Subset, FS_CardinalityType
    <3>6. \A u : u # t => Pushing(u)' = Pushing(u)
      BY <2>1, <3>1 DEF Pushing
    <3>7. subs'[t] + Cardinality(Pushing(t)') <= Threads
      BY <2>1, <3>3, <3>5, Counted, PulseCallAssumption DEF SubsInv
    <3>8. \A u \in Topics : subs'[u] + Cardinality(Pushing(u)') <= Threads
      <4> SUFFICES ASSUME NEW u \in Topics
                   PROVE  subs'[u] + Cardinality(Pushing(u)') <= Threads
        OBVIOUS
      <4>1. CASE u = t
        BY <3>7, <4>1
      <4>2. CASE u # t
        BY <2>1, <3>6, <4>2 DEF SubsInv
      <4> QED BY <4>1, <4>2
    <3> QED BY <3>2, <3>8 DEF SubsInv
  <2> QED BY <1>2, <2>0, <2>2, <2>3 DEF Look
<1>3. ASSUME NEW c \in Calls, Subscribe(c) PROVE SubsInv'
  <2>0. PICK t \in Topics : t = pc[c].on
    BY DEF TypeOK
  <2>1. pc[c].step = "push" /\ c \in Pushing(t)
    BY <1>3, <2>0 DEF Subscribe, Pushing, TypeOK
  <2>2. pc'[c].step = "show" /\ \A d \in Calls : d # c => pc'[d] = pc[d]
    BY <1>3 DEF Subscribe, At, TypeOK
  <2>3. Active' = Active
    BY <2>1, <2>2 DEF Active
  <2>4. Pushing(t)' = Pushing(t) \ {c} /\ \A u : u # t => Pushing(u)' = Pushing(u)
    BY <2>0, <2>1, <2>2 DEF Pushing
  <2>5. Cardinality(Pushing(t)') = Cardinality(Pushing(t)) - 1
    BY <2>1, <2>4, Counted, FS_RemoveElement
  <2>6. subs'[t] = subs[t] + 1 /\ \A u \in Topics : u # t => subs'[u] = subs[u]
    BY <1>3, <2>0 DEF Subscribe, TypeOK
  <2>7. subs'[t] + Cardinality(Pushing(t)') <= Threads
    <3>1. subs[t] \in Nat /\ Cardinality(Pushing(t)) \in Nat
          /\ subs[t] + Cardinality(Pushing(t)) <= Threads
      BY <2>1, Counted DEF TypeOK, SubsInv
    <3> QED BY <2>5, <2>6, <3>1
  <2>8. \A u \in Topics : subs'[u] + Cardinality(Pushing(u)') <= Threads
    <3> SUFFICES ASSUME NEW u \in Topics
                 PROVE  subs'[u] + Cardinality(Pushing(u)') <= Threads
      OBVIOUS
    <3>1. CASE u = t
      BY <2>7, <3>1
    <3>2. CASE u # t
      BY <2>4, <2>6, <3>2 DEF SubsInv
    <3> QED BY <3>1, <3>2
  <2> QED BY <2>3, <2>8 DEF SubsInv
<1>4. ASSUME NEW c \in Calls, ShowInterest(c) PROVE SubsInv'
  <2>1. subs' = subs /\ pc[c].step = "show" /\ c \in Active
    BY <1>4 DEF ShowInterest, Active
  <2>2. At(c, "check", Res[c]) \/ At(c, "register", pc[c].on)
    BY <1>4 DEF ShowInterest
  <2> QED BY <2>1, <2>2, QuietCallStep
<1>5. ASSUME NEW c \in Calls, Register(c) PROVE SubsInv'
  <2>1. subs' = subs /\ pc[c].step = "register" /\ At(c, "done", Closed)
    BY <1>5 DEF Register, subVars
  <2> QED BY <2>1, QuietCallStep
<1>6. CASE PeerReply \/ OnReceive \/ OnClosed \/ CloseSilently \/ UNCHANGED vars
  BY <1>6, <1>a DEF PeerReply, OnReceive, OnClosed, CloseSilently, vars, subVars
<1>7. ASSUME NEW i \in 1..Window, RunTask(i) PROVE SubsInv'
  BY <1>7, <1>a DEF RunTask, subVars
<1> QED BY <1>1, <1>2, <1>3, <1>4, <1>5, <1>6, <1>7 DEF Next, CallSteps, Runner

\* A topic is subscribed at most once per thread of the runner, whatever the
\* number of calls; with one thread, exactly the first call subscribes.
THEOREM BoundedSubscriptions == Spec => []SubscribedOncePerThread
<1>1. TypeOK /\ SubsInv /\ [Next]_vars => TypeOK' /\ SubsInv'
  BY TypeStep, SubsStep
<1>2. TypeOK /\ SubsInv => SubscribedOncePerThread
  BY Counted, PulseCallAssumption DEF TypeOK, SubsInv, SubscribedOncePerThread
<1> QED BY TypeInit, SubsInit, <1>1, <1>2, PTL DEF Spec

-----------------------------------------------------------------------------
(* Sequences: what a runner of one thread does to them. *)

\* Where t stands in s
Places(s, t) == {i \in 1..Len(s) : s[i] = t}

\* The places can be counted.
LEMMA PlacesFinite ==
  ASSUME NEW S, NEW s \in Seq(S), NEW t
  PROVE  /\ IsFiniteSet(Places(s, t)) /\ Cardinality(Places(s, t)) \in Nat
         /\ Cardinality(Places(s, t)) = 0 <=> \A i \in 1..Len(s) : s[i] # t
<1>1. IsFiniteSet(1..Len(s))
  BY FS_Interval
<1>2. IsFiniteSet(Places(s, t))
  BY <1>1, FS_Subset DEF Places
<1>3. Places(s, t) = {} <=> \A i \in 1..Len(s) : s[i] # t
  BY DEF Places
<1> QED BY <1>2, <1>3, FS_CardinalityType, FS_EmptySet

\* One more at the end
LEMMA PlacesAppend ==
  ASSUME NEW S, NEW s \in Seq(S), NEW e \in S, NEW t
  PROVE  Cardinality(Places(Append(s, e), t)) =
           IF e = t THEN Cardinality(Places(s, t)) + 1 ELSE Cardinality(Places(s, t))
<1> DEFINE n == Len(s)
<1>1. /\ n \in Nat /\ Len(Append(s, e)) = n + 1 /\ Append(s, e)[n + 1] = e
      /\ \A i \in 1..n : Append(s, e)[i] = s[i]
  OBVIOUS
<1>2. 1..(n + 1) = (1..n) \union {n + 1} /\ n + 1 \notin 1..n
  BY <1>1
<1>3. CASE e = t
  <2>1. Places(Append(s, e), t) = Places(s, t) \union {n + 1} /\ n + 1 \notin Places(s, t)
    <3> HIDE DEF n
    <3>1. Len(s) = n
      BY DEF n
    <3> QED BY <1>1, <1>2, <1>3, <3>1 DEF Places
  <2> QED BY <1>3, <2>1, PlacesFinite, FS_AddElement
<1>4. CASE e # t
  <2>1. Places(Append(s, e), t) = Places(s, t)
    <3> HIDE DEF n
    <3>1. Len(s) = n
      BY DEF n
    <3> QED BY <1>1, <1>2, <1>4, <3>1 DEF Places
  <2> QED BY <1>4, <2>1
<1> QED BY <1>3, <1>4

\* The first one less
LEMMA PlacesTail ==
  ASSUME NEW S, NEW s \in Seq(S), s # <<>>, NEW t
  PROVE  Cardinality(Places(Tail(s), t)) =
           IF s[1] = t THEN Cardinality(Places(s, t)) - 1 ELSE Cardinality(Places(s, t))
<1> DEFINE n == Len(s)
           A == Places(s, t) \ {1}
           B == Places(Tail(s), t)
           f == [i \in A |-> i - 1]
<1>1. /\ n \in Nat /\ n # 0 /\ Tail(s) \in Seq(S) /\ Len(Tail(s)) = n - 1
      /\ \A i \in 1..(n - 1) : Tail(s)[i] = s[i + 1]
  OBVIOUS
<1>2. A = {i \in 2..n : s[i] = t} /\ B = {i \in 1..(n - 1) : s[i + 1] = t}
  <2>1. A = {i \in 2..n : s[i] = t}
    BY <1>1 DEF Places
  <2>2. B = {i \in 1..(n - 1) : s[i + 1] = t}
    BY <1>1 DEF Places
  <2> QED BY <2>1, <2>2
<1> HIDE DEF A, B, n
<1>3. f \in [A -> B]
  BY <1>1, <1>2
<1>4. \A i, j \in A : f[i] = f[j] => i = j
  BY <1>1, <1>2
<1>5. \A k \in B : \E i \in A : f[i] = k
  <2> SUFFICES ASSUME NEW k \in B PROVE \E i \in A : f[i] = k
    OBVIOUS
  <2>1. k + 1 \in A /\ (k + 1) - 1 = k
    BY <1>1, <1>2
  <2> QED BY <2>1
<1>6. f \in Bijection(A, B)
  <2> HIDE DEF f
  <2>1. f \in Injection(A, B)
    BY <1>3, <1>4 DEF Injection, IsInjective
  <2>2. f \in Surjection(A, B)
    BY <1>3, <1>5 DEF Surjection
  <2> QED BY <2>1, <2>2 DEF Bijection
<1>7. ExistsBijection(A, B)
  BY <1>6 DEF ExistsBijection
<1>8. IsFiniteSet(Places(s, t)) /\ IsFiniteSet(A)
  BY PlacesFinite, FS_RemoveElement DEF A
<1>9. Cardinality(B) = Cardinality(A)
  BY <1>7, <1>8, FS_Bijection
<1>10. 1 \in Places(s, t) <=> s[1] = t
  BY <1>1 DEF Places, n
<1>11. Cardinality(A) = IF s[1] = t THEN Cardinality(Places(s, t)) - 1 ELSE Cardinality(Places(s, t))
  BY <1>8, <1>10, FS_RemoveElement DEF A
<1> QED BY <1>9, <1>11 DEF B

\* Taking the first task
LEMMA TaskTaken == ASSUME NEW S, NEW s \in Seq(S), s # <<>> PROVE RemoveAt(s, 1) = Tail(s)
<1>1. SubSeq(s, 1, 1 - 1) = <<>> /\ SubSeq(s, 1 + 1, Len(s)) = Tail(s) /\ Tail(s) \in Seq(S)
  OBVIOUS
<1>2. <<>> \o Tail(s) = Tail(s)
  BY <1>1
<1> QED BY <1>1, <1>2 DEF RemoveAt

\* What is left stands one place further to the front.
LEMMA TailPlaces ==
  ASSUME NEW S, NEW s \in Seq(S), s # <<>>
  PROVE  /\ Tail(s) \in Seq(S) /\ Len(Tail(s)) = Len(s) - 1 /\ 1 \in 1..Len(s)
         /\ \A j \in 1..Len(Tail(s)) :
              /\ Tail(s)[j] = s[j + 1] /\ j + 1 \in 1..Len(s) /\ j + 1 # 1
              /\ j + 1 = Len(s) => j = Len(Tail(s))
<1> DEFINE n == Len(s)
<1>1. /\ n \in Nat /\ n # 0 /\ Tail(s) \in Seq(S) /\ Len(Tail(s)) = n - 1
      /\ \A i \in 1..(n - 1) : Tail(s)[i] = s[i + 1]
  OBVIOUS
<1>2. Len(s) = n
  OBVIOUS
<1> HIDE DEF n
<1>3. /\ 1 \in 1..n
      /\ \A j \in 1..(n - 1) : j + 1 \in 1..n /\ j + 1 # 1 /\ (j + 1 = n => j = n - 1)
  BY <1>1
<1> QED BY <1>1, <1>2, <1>3

\* What is added stands last.
LEMMA AppendPlaces ==
  ASSUME NEW S, NEW s \in Seq(S), NEW e \in S
  PROVE  /\ Append(s, e) \in Seq(S) /\ Append(s, e) # <<>> /\ Append(s, e)[Len(Append(s, e))] = e
         /\ \A j \in 1..Len(Append(s, e)) :
              \/ j = Len(Append(s, e)) /\ Append(s, e)[j] = e
              \/ j \in 1..Len(s) /\ Append(s, e)[j] = s[j]
<1> DEFINE n == Len(s)
<1>1. /\ n \in Nat /\ Append(s, e) \in Seq(S) /\ Len(Append(s, e)) = n + 1 /\ Append(s, e)[n + 1] = e
      /\ \A i \in 1..n : Append(s, e)[i] = s[i]
  OBVIOUS
<1>2. Len(s) = n
  OBVIOUS
<1>3. Append(s, e) # <<>>
  BY <1>1
<1> HIDE DEF n
<1>4. \A j \in 1..(n + 1) : j = n + 1 \/ j \in 1..n
  BY <1>1
<1> QED BY <1>1, <1>2, <1>3, <1>4

\* A reply takes the place of its request.
LEMMA LineReplied ==
  ASSUME NEW S, NEW s \in Seq(S), NEW u \in Seq(S), u # <<>>
  PROVE  Append(s, Head(u)) \o Tail(u) = s \o u
OBVIOUS

\* A call that is sent is the last.
LEMMA LineSent ==
  ASSUME NEW S, NEW s \in Seq(S), NEW u \in Seq(S), NEW c \in S
  PROVE  s \o Append(u, c) = Append(s \o u, c)
OBVIOUS

\* A response that is received was the first.
LEMMA LineReceived ==
  ASSUME NEW S, NEW s \in Seq(S), NEW u \in Seq(S), s # <<>>
  PROVE  Tail(s) \o u = Tail(s \o u) /\ Head(s) = (s \o u)[1] /\ s \o u # <<>>
OBVIOUS

-----------------------------------------------------------------------------
(* A queue of callers and the line of calls not answered yet. *)

\* A caller that is the last of the line joins the queue.
LEMMA OrderJoined ==
  ASSUME NEW S, NEW q \in Seq(S), NEW l \in Seq(S), NEW n \in Nat, NEW posted, NEW A,
         InOrder(q, n, posted, l, A), NEW c \in S, l # <<>>, c = l[Len(l)], c \notin A,
         \A a, b \in 1..Len(l) : l[a] = l[b] => a = b,
         \A i \in 1..Len(q) : q[i] # c
  PROVE  InOrder(Append(q, c), n, posted, l, A)
<1> DEFINE p == Append(q, c)
           k == Len(q)
           m == Len(l)
<1>1. /\ k \in Nat /\ m \in Nat /\ m # 0 /\ p \in Seq(S) /\ Len(p) = k + 1 /\ p[k + 1] = c
      /\ \A i \in 1..k : p[i] = q[i]
  OBVIOUS
<1>2. n <= k
  BY DEF InOrder
<1>3. ASSUME NEW i \in 1..(k + 1)
      PROVE  /\ p[i] \in A \/ \E a \in 1..m : l[a] = p[i]
             /\ posted => (p[i] \in A <=> i <= n)
  <2>1. CASE i = k + 1
    <3>1. p[i] = c /\ m \in 1..m /\ l[m] = c /\ ~(i <= n)
      BY <1>1, <1>2, <2>1
    <3> QED BY <3>1
  <2>2. CASE i # k + 1
    <3>1. i \in 1..k
      BY <1>1, <2>2
    <3> QED BY <1>1, <3>1 DEF InOrder
  <2> QED BY <2>1, <2>2
<1>4. ASSUME NEW i \in 1..(k + 1), NEW j \in 1..(k + 1), NEW a \in 1..m, NEW b \in 1..m,
             i < j, l[a] = p[i], l[b] = p[j]
      PROVE  a < b
  <2>1. i \in 1..k /\ p[i] = q[i]
    BY <1>1, <1>4
  <2>2. CASE j = k + 1
    <3>1. l[b] = c /\ l[a] # c /\ m \in 1..m
      BY <1>1, <1>4, <2>1, <2>2
    <3>2. b = m /\ a # m
      BY <3>1
    <3> QED BY <1>1, <3>2
  <2>3. CASE j # k + 1
    <3>1. j \in 1..k /\ p[j] = q[j]
      BY <1>1, <2>3
    <3> QED BY <1>4, <2>1, <3>1 DEF InOrder
  <2> QED BY <2>2, <2>3
<1>5. n <= Len(p)
  BY <1>1, <1>2
<1>6. \A i \in 1..Len(p) : /\ p[i] \in A \/ \E a \in 1..Len(l) : l[a] = p[i]
                           /\ posted => (p[i] \in A <=> i <= n)
  BY <1>1, <1>3
<1>7. \A i, j \in 1..Len(p), a, b \in 1..Len(l) : i < j /\ l[a] = p[i] /\ l[b] = p[j] => a < b
  BY <1>1, <1>4
<1> HIDE DEF p
<1>8. InOrder(p, n, posted, l, A)
  BY <1>5, <1>6, <1>7 DEF InOrder
<1> QED BY <1>8 DEF p

\* A call that is sent stands behind the others in the line.
LEMMA OrderSent ==
  ASSUME NEW S, NEW q \in Seq(S), NEW l \in Seq(S), NEW n \in Nat, NEW posted, NEW A,
         InOrder(q, n, posted, l, A), NEW c \in S, \A i \in 1..Len(q) : q[i] # c
  PROVE  InOrder(q, n, posted, Append(l, c), A)
<1> DEFINE p == Append(l, c)
           k == Len(q)
           m == Len(l)
<1>1. /\ k \in Nat /\ m \in Nat /\ p \in Seq(S) /\ Len(p) = m + 1 /\ p[m + 1] = c
      /\ \A a \in 1..m : p[a] = l[a] /\ a \in 1..(m + 1)
  OBVIOUS
<1>2. \A i \in 1..k : /\ q[i] \in A \/ \E a \in 1..(m + 1) : p[a] = q[i]
                      /\ posted => (q[i] \in A <=> i <= n)
  BY <1>1 DEF InOrder
<1>3. ASSUME NEW i \in 1..k, NEW j \in 1..k, NEW a \in 1..(m + 1), NEW b \in 1..(m + 1),
             i < j, p[a] = q[i], p[b] = q[j]
      PROVE  a < b
  <2>1. a # m + 1 /\ b # m + 1
    BY <1>1, <1>3
  <2>2. a \in 1..m /\ b \in 1..m
    BY <1>1, <2>1
  <2> QED BY <1>1, <1>3, <2>2 DEF InOrder
<1> HIDE DEF p
<1>4. InOrder(q, n, posted, p, A)
  <2>1. n <= k
    BY DEF InOrder
  <2> QED BY <1>1, <1>2, <1>3, <2>1 DEF InOrder
<1> QED BY <1>4 DEF p

\* The first caller is answered.
LEMMA OrderTaken ==
  ASSUME NEW S, NEW q \in Seq(S), NEW l \in Seq(S), NEW n \in Nat, n # 0, NEW posted, NEW A,
         InOrder(q, n, posted, l, A)
  PROVE  q # <<>> /\ InOrder(Tail(q), n - 1, posted, l, A)
<1> DEFINE p == Tail(q)
           k == Len(q)
<1>1. k \in Nat /\ n <= k
  BY DEF InOrder
<1>2. q # <<>> /\ k # 0
  BY <1>1
<1>3. p \in Seq(S) /\ Len(p) = k - 1 /\ \A i \in 1..(k - 1) : p[i] = q[i + 1] /\ i + 1 \in 1..k
  BY <1>2
<1> HIDE DEF p, k
<1>4. n - 1 <= Len(p)
  BY <1>1, <1>3
<1>5. \A i \in 1..Len(p) : /\ p[i] \in A \/ \E a \in 1..Len(l) : l[a] = p[i]
                           /\ posted => (p[i] \in A <=> i <= n - 1)
  <2> SUFFICES ASSUME NEW i \in 1..(k - 1)
               PROVE  /\ p[i] \in A \/ \E a \in 1..Len(l) : l[a] = p[i]
                      /\ posted => (p[i] \in A <=> i <= n - 1)
    BY <1>3
  <2>1. i <= n - 1 <=> i + 1 <= n
    BY <1>1
  <2> QED BY <1>3, <2>1 DEF InOrder, k
<1>6. \A i, j \in 1..Len(p), a, b \in 1..Len(l) : i < j /\ l[a] = p[i] /\ l[b] = p[j] => a < b
  <2> SUFFICES ASSUME NEW i \in 1..(k - 1), NEW j \in 1..(k - 1), NEW a \in 1..Len(l), NEW b \in 1..Len(l),
                      i < j, l[a] = p[i], l[b] = p[j]
               PROVE  a < b
    BY <1>3
  <2>1. PICK x, y \in 1..Len(q) : x = i + 1 /\ y = j + 1 /\ x < y
    BY <1>3 DEF k
  <2>2. l[a] = q[x] /\ l[b] = q[y]
    BY <1>3, <2>1
  <2> QED BY <2>1, <2>2 DEF InOrder
<1>7. InOrder(p, n - 1, posted, l, A)
  BY <1>4, <1>5, <1>6 DEF InOrder
<1> QED BY <1>2, <1>7 DEF p

\* The response to the first of the line is received: it is the first caller of its
\* queue that had none, if it is of this queue.
LEMMA OrderReceived ==
  ASSUME NEW S, NEW q \in Seq(S), NEW l \in Seq(S), NEW n \in Nat, NEW posted, NEW A,
         InOrder(q, n, posted, l, A), l # <<>>, l[1] \notin A,
         \A a, b \in 1..Len(l) : l[a] = l[b] => a = b,
         \A i, j \in 1..Len(q) : q[i] = q[j] => i = j,
         NEW k \in Nat,
         IF posted /\ \E i \in 1..Len(q) : q[i] = l[1] THEN k = n + 1 ELSE k = n
  PROVE  InOrder(q, k, posted, Tail(l), A \union {l[1]})
<1> DEFINE p == Tail(l)
           m == Len(l)
           z == Len(q)
           h == l[1]
           B == A \union {h}
<1>1. m \in Nat /\ m # 0 /\ z \in Nat
  OBVIOUS
<1>2. p \in Seq(S) /\ Len(p) = m - 1 /\ \A a \in 1..(m - 1) : p[a] = l[a + 1] /\ a + 1 \in 1..m
  OBVIOUS
<1>3. n <= z
  BY DEF InOrder
<1>4. ASSUME posted, NEW i \in 1..z, q[i] = h PROVE i = n + 1
  <2>1. ~(i <= n)
    BY <1>4 DEF InOrder
  <2>2. CASE i > n + 1
    <3> DEFINE j == n + 1
    <3>1. j \in 1..z /\ j < i /\ ~(j <= n)
      BY <1>1, <2>2
    <3>2. q[j] \notin A
      BY <1>4, <3>1 DEF InOrder
    <3>3. PICK a \in 1..m : l[a] = q[j]
      BY <3>1, <3>2 DEF InOrder
    <3>4. 1 \in 1..m /\ l[1] = q[i]
      BY <1>1, <1>4
    <3> HIDE DEF j
    <3>5. a < 1
      BY <3>1, <3>3, <3>4 DEF InOrder
    <3> QED BY <3>5
  <2> QED BY <1>1, <2>1, <2>2
<1>5. k <= z
  <2>1. CASE posted /\ \E i \in 1..z : q[i] = h
    <3>1. PICK i \in 1..z : q[i] = h
      BY <2>1
    <3>2. i = n + 1 /\ k = n + 1
      BY <1>4, <2>1, <3>1
    <3> QED BY <1>1, <3>2
  <2>2. CASE ~(posted /\ \E i \in 1..z : q[i] = h)
    BY <1>3, <2>2
  <2> QED BY <2>1, <2>2
<1>6. ASSUME NEW i \in 1..z
      PROVE  /\ q[i] \in B \/ \E a \in 1..(m - 1) : p[a] = q[i]
             /\ posted => (q[i] \in B <=> i <= k)
  <2>1. q[i] \in B \/ \E a \in 1..(m - 1) : p[a] = q[i]
    <3>1. CASE q[i] \notin B
      <4>1. PICK a \in 1..m : l[a] = q[i]
        BY <3>1 DEF InOrder
      <4>2. a # 1
        BY <3>1, <4>1
      <4>3. a - 1 \in 1..(m - 1) /\ (a - 1) + 1 = a
        BY <1>1, <4>2
      <4>4. p[a - 1] = q[i]
        BY <1>2, <4>1, <4>3
      <4> QED BY <4>3, <4>4
    <3> QED BY <3>1
  <2>2. ASSUME posted PROVE q[i] \in B <=> i <= k
    <3>1. q[i] \in A <=> i <= n
      BY <2>2 DEF InOrder
    <3>2. CASE q[i] = h
      <4>1. i = n + 1 /\ k = n + 1
        BY <1>4, <2>2, <3>2
      <4> QED BY <3>2, <4>1
    <3>3. CASE q[i] # h
      <4>1. q[i] \in B <=> i <= n
        BY <3>1, <3>3
      <4>2. k = n \/ (k = n + 1 /\ i # n + 1)
        <5>1. CASE \E j \in 1..z : q[j] = h
          <6>1. PICK j \in 1..z : q[j] = h
            BY <5>1
          <6>2. j = n + 1 /\ i # j
            BY <1>4, <2>2, <3>3, <6>1
          <6> QED BY <2>2, <5>1, <6>2
        <5>2. CASE ~\E j \in 1..z : q[j] = h
          BY <5>2
        <5> QED BY <5>1, <5>2
      <4> QED BY <1>1, <4>1, <4>2
    <3> QED BY <3>2, <3>3
  <2> QED BY <2>1, <2>2
<1>7. ASSUME NEW i \in 1..z, NEW j \in 1..z, NEW a \in 1..(m - 1), NEW b \in 1..(m - 1),
             i < j, p[a] = q[i], p[b] = q[j]
      PROVE  a < b
  <2>1. a + 1 < b + 1
    BY <1>2, <1>7 DEF InOrder
  <2> QED BY <2>1
<1> HIDE DEF p, B
<1>8. InOrder(q, k, posted, p, B)
  <2>1. Len(q) = z /\ Len(p) = m - 1
    BY <1>2
  <2>2. k <= Len(q)
    BY <1>5, <2>1
  <2>3. \A i \in 1..Len(q) : /\ q[i] \in B \/ \E a \in 1..Len(p) : p[a] = q[i]
                             /\ posted => (q[i] \in B <=> i <= k)
    BY <1>6, <2>1
  <2>4. \A i, j \in 1..Len(q), a, b \in 1..Len(p) : i < j /\ p[a] = q[i] /\ p[b] = q[j] => a < b
    BY <1>7, <2>1
  <2> QED BY <2>2, <2>3, <2>4 DEF InOrder
<1> QED BY <1>8 DEF p, B

-----------------------------------------------------------------------------
(* A runner of one thread *)

\* Each response topic belongs to one request topic.
Paired == \A c, d \in Calls : Req[c] = Req[d] <=> Res[c] = Res[d]

\* A call() is alone, and posted work runs in order.
LEMMA Alone ==
  ASSUME Threads = 1, TypeOK, SubsInv
  PROVE  /\ \A c, d \in Active : c = d
         /\ FreeThread => Active = {} /\ Window = 1
         /\ \A t \in Topics : subs[t] = 0 \/ subs[t] = 1
<1>1. /\ IsFiniteSet(Active) /\ Cardinality(Active) \in Nat /\ Cardinality(Active) <= 1
  BY Counted DEF SubsInv
<1>2. Cardinality(Active) = 0 \/ Cardinality(Active) = 1
  BY <1>1
<1>3. \A c, d \in Active : c = d
  BY <1>1, <1>2, FS_EmptySet, FS_Singleton
<1>4. ASSUME FreeThread PROVE Active = {} /\ Window = 1
  <2>1. Cardinality(Active) = 0
    BY <1>2, <1>4 DEF FreeThread, Busy
  <2> QED BY <1>1, <2>1, FS_EmptySet DEF Window, Busy
<1>5. ASSUME NEW t \in Topics PROVE subs[t] = 0 \/ subs[t] = 1
  <2>1. subs[t] \in Nat /\ Cardinality(Pushing(t)) \in Nat /\ subs[t] + Cardinality(Pushing(t)) <= 1
    BY Counted DEF SubsInv, TypeOK
  <2> QED BY <2>1
<1> QED BY <1>3, <1>4, <1>5

\* One subscriber is posted, or none.
LEMMA PostedOne ==
  ASSUME TypeOK, NEW t \in Topics, subs[t] = 0 \/ subs[t] = 1
  PROVE  tasks \o Posted(t) = IF subs[t] = 1 /\ t \in interest THEN Append(tasks, t) ELSE tasks
<1>1. tasks \in Seq(Topics)
  BY DEF TypeOK
<1>2. CASE subs[t] = 1 /\ t \in interest
  <2>1. Posted(t) = [i \in 1..1 |-> t]
    BY <1>2 DEF Posted
  <2>2. [i \in 1..1 |-> t] = <<t>>
    OBVIOUS
  <2>3. tasks \o <<t>> = Append(tasks, t)
    BY <1>1
  <2> QED BY <1>2, <2>1, <2>2, <2>3
<1>3. CASE ~(subs[t] = 1 /\ t \in interest)
  <2>1. Posted(t) = <<>>
    <3>1. CASE t \notin interest
      BY <3>1 DEF Posted
    <3>2. CASE subs[t] = 0
      <4>1. [i \in 1..0 |-> t] = <<>>
        OBVIOUS
      <4> QED BY <3>2, <4>1 DEF Posted
    <3> QED BY <1>3, <3>1, <3>2
  <2>2. tasks \o <<>> = tasks
    BY <1>1
  <2> QED BY <1>3, <2>1, <2>2
<1> QED BY <1>2, <1>3

\* One call moves on, the others stand.
LEMMA AtOther ==
  ASSUME TypeOK, NEW c \in Calls, NEW s, NEW t, At(c, s, t)
  PROVE  pc'[c].step = s /\ pc'[c].on = t /\ \A d \in Calls : d # c => pc'[d] = pc[d]
BY DEF At, TypeOK

\* The callers of a request topic
LEMMA Queues ==
  ASSUME TypeOK, NEW c \in Calls
  PROVE  /\ Req[c] \in Reqs /\ Res[c] \in Topics /\ Res[c] # Closed
         /\ calls[Req[c]].callers \in Seq(Calls) /\ Len(calls[Req[c]].callers) \in Nat
         /\ \A i \in 1..Len(calls[Req[c]].callers) : Waiting(calls[Req[c]].callers[i])
<1>1. Req[c] \in Reqs /\ Res[c] \in Topics /\ Res[c] # Closed
  BY PulseCallAssumption DEF Reqs, Topics
<1>2. calls[Req[c]].callers \in Seq(Calls)
  BY <1>1 DEF TypeOK, TopicCalls
<1>3. Len(calls[Req[c]].callers) \in Nat
  BY <1>2
<1> QED BY <1>1, <1>2, <1>3 DEF Waiting

\* A step that changes neither calls nor subscriptions
LEMMA WiredKept ==
  ASSUME WiredInv, subs' = subs, interest' = interest, calls' = calls, pairs' = pairs, pc' = pc
  PROVE  WiredInv'
BY DEF WiredInv, Wired, Waiting

\* Responses that a caller waits for are posted.
LEMMA WiredInit == Init => WiredInv
BY DEF Init, WiredInv, Wired, Waiting, Empty

\* Each step keeps the responses that a caller waits for posted and paired.
LEMMA WiredStep ==
  ASSUME Threads = 1, Paired, TypeOK, CallerInv, SubsInv, WiredInv, [Next]_vars
  PROVE  WiredInv'
<1>0. \A c \in Calls : Req[c] \in Reqs /\ Res[c] \in Topics /\ Res[c] # Closed
  BY Queues
<1>A. \A c, d \in Active : c = d
  BY Alone
<1>W. ASSUME calls' = calls PROVE \A c \in Calls : Waiting(c)' = Waiting(c)
  BY <1>W DEF Waiting
<1>1. ASSUME NEW c \in Calls, Send(c) PROVE WiredInv'
  <2>1. subs' = subs /\ interest' = interest /\ calls' = calls /\ pairs' = pairs /\ pc[c].step = "idle"
    BY <1>1 DEF Send, Sent, Refused, subVars, callVars
  <2>2. PICK s \in {"check", "done"} : At(c, s, Closed)
    BY <1>1 DEF Send, Sent, Refused
  <2>3. pc'[c].step = s /\ pc'[c].on = Closed /\ \A d \in Calls : d # c => pc'[d] = pc[d]
    BY <2>2, AtOther
  <2>4. \A d \in Calls : Waiting(d)' = Waiting(d)
    BY <1>W, <2>1
  <2> QED BY <2>1, <2>2, <2>3, <2>4 DEF WiredInv, Wired
<1>2. ASSUME NEW c \in Calls, Look(c) PROVE WiredInv'
  <2> DEFINE t == pc[c].on
  <2>1. subs' = subs /\ interest' = interest /\ calls' = calls /\ pairs' = pairs /\ pc[c].step = "check"
    BY <1>2 DEF Look, subVars, callVars
  <2>2. t \in {Closed, Res[c]} /\ t \in Topics
    BY DEF WiredInv, TypeOK
  <2>3. \A d \in Calls : pc[d].step # "show"
    BY <1>A, <2>1 DEF Active
  <2>4. HasSubscription(t) => Wired(t)
    BY <2>2, <2>3 DEF HasSubscription, Wired, WiredInv, TypeOK
  <2>5. \/ At(c, "push", t) /\ t \notin AppSubs
        \/ At(c, "check", Res[c])
        \/ At(c, "register", Res[c]) /\ Wired(Res[c])
    BY <1>2, <2>2, <2>4 DEF Look, HasSubscription
  <2>6. PICK s, u : /\ At(c, s, u) /\ u \in {Closed, Res[c]} /\ s \in {"push", "check", "register"}
                    /\ s = "push" => u \notin AppSubs
                    /\ s = "register" => u = Res[c] /\ Wired(Res[c])
    BY <2>2, <2>5
  <2>7. pc'[c].step = s /\ pc'[c].on = u /\ \A d \in Calls : d # c => pc'[d] = pc[d]
    BY <2>6, AtOther
  <2>8. \A d \in Calls : Waiting(d)' = Waiting(d)
    BY <1>W, <2>1
  <2>9. \A v : Wired(v)' = Wired(v)
    BY <2>1 DEF Wired
  <2> QED BY <2>1, <2>3, <2>6, <2>7, <2>8, <2>9 DEF WiredInv
<1>3. ASSUME NEW c \in Calls, Subscribe(c) PROVE WiredInv'
  <2>1. PICK t : t = pc[c].on
    OBVIOUS
  <2>2. /\ interest' = interest /\ calls' = calls /\ pairs' = pairs /\ pc[c].step = "push"
        /\ subs' = [subs EXCEPT ![t] = @ + 1] /\ At(c, "show", t)
    BY <1>3, <2>1 DEF Subscribe, callVars
  <2>3. t \in {Closed, Res[c]} /\ t \in Topics /\ t \notin AppSubs
    BY <2>1, <2>2 DEF WiredInv, TypeOK
  <2>4. pc'[c].step = "show" /\ pc'[c].on = t /\ \A d \in Calls : d # c => pc'[d] = pc[d]
    BY <2>2, AtOther
  <2>5. subs'[t] > 0 /\ \A u \in Topics : u # t => subs'[u] = subs[u]
    <3>1. subs[t] \in Nat /\ subs'[t] = subs[t] + 1
      BY <2>2, <2>3 DEF TypeOK
    <3>2. \A u \in Topics : u # t => subs'[u] = subs[u]
      BY <2>2 DEF TypeOK
    <3> QED BY <3>1, <3>2
  <2>6. \A d \in Calls : Waiting(d)' = Waiting(d)
    BY <1>W, <2>2
  <2>7. \A u \in Topics : Wired(u) => Wired(u)'
    BY <2>2, <2>5 DEF Wired
  <2>8. \A d \in Calls : pc[d].on \in Topics
    BY DEF TypeOK
  <2> QED BY <1>0, <2>2, <2>3, <2>4, <2>5, <2>6, <2>7, <2>8 DEF WiredInv
<1>4. ASSUME NEW c \in Calls, ShowInterest(c) PROVE WiredInv'
  <2>1. PICK t : t = pc[c].on
    OBVIOUS
  <2>2. /\ subs' = subs /\ calls' = calls /\ pairs' = pairs /\ pc[c].step = "show"
        /\ interest' = interest \union {t}
        /\ IF t = Closed THEN At(c, "check", Res[c]) ELSE At(c, "register", t)
    BY <1>4, <2>1 DEF ShowInterest, callVars
  <2>3. t \in {Closed, Res[c]} /\ t \notin AppSubs /\ subs[t] > 0
    BY <2>1, <2>2 DEF WiredInv
  <2>4. PICK s \in {"check", "register"} : At(c, s, Res[c]) /\ (s = "register" => t = Res[c])
    BY <2>2, <2>3
  <2>5. pc'[c].step = s /\ pc'[c].on = Res[c] /\ \A d \in Calls : d # c => pc'[d] = pc[d]
    BY <2>4, AtOther
  <2>6. \A d \in Calls : Waiting(d)' = Waiting(d)
    BY <1>W, <2>2
  <2>7. (\A u : Wired(u) => Wired(u)') /\ Wired(t)'
    BY <2>2, <2>3 DEF Wired
  <2> QED BY <2>1, <2>2, <2>3, <2>4, <2>5, <2>6, <2>7 DEF WiredInv
<1>5. ASSUME NEW c \in Calls, Register(c) PROVE WiredInv'
  <2>1. /\ subs' = subs /\ interest' = interest /\ pc[c].step = "register"
        /\ pairs' = [pairs EXCEPT ![Res[c]] = Req[c]] /\ At(c, "done", Closed)
    BY <1>5 DEF Register, subVars
  <2>2. pc'[c].step = "done" /\ pc'[c].on = Closed /\ \A d \in Calls : d # c => pc'[d] = pc[d]
    BY <2>1, AtOther
  <2>3. \A d \in Calls : Waiting(d)' => Waiting(d) \/ d = c
    BY <1>5, RegisterWaiting
  <2>4. \A u : Wired(u)' = Wired(u)
    BY <2>1 DEF Wired
  <2>5. pairs'[Res[c]] = Req[c] /\ \A u \in Topics : u # Res[c] => pairs'[u] = pairs[u]
    BY <1>0, <2>1 DEF TypeOK
  <2>6. \A d \in Calls : Waiting(d)' => Wired(Res[d])' /\ pairs'[Res[d]] = Req[d]
    BY <1>0, <2>1, <2>3, <2>4, <2>5 DEF WiredInv, Paired
  <2>7. \A u \in Topics : pairs'[u] # NoReq => \E d \in Calls : Res[d] = u /\ Req[d] = pairs'[u]
    BY <2>5 DEF WiredInv
  <2>8. \A u \in Topics : subs'[u] > 0 =>
          /\ u \notin AppSubs
          /\ u \in interest' \/ \E d \in Calls : pc'[d].step = "show" /\ pc'[d].on = u
    BY <2>1, <2>2 DEF WiredInv
  <2>9. \A d \in Calls :
          /\ pc'[d].on \in {Closed, Res[d]}
          /\ pc'[d].step \in {"push", "show"} => pc'[d].on \notin AppSubs
          /\ pc'[d].step = "show" => subs'[pc'[d].on] > 0
          /\ pc'[d].step = "register" => pc'[d].on = Res[d] /\ Wired(Res[d])'
    BY <2>1, <2>2, <2>4 DEF WiredInv
  <2> QED BY <2>6, <2>7, <2>8, <2>9 DEF WiredInv
<1>6. CASE PeerReply \/ OnReceive \/ OnClosed \/ CloseSilently \/ UNCHANGED vars
  <2>1. subs' = subs /\ interest' = interest /\ calls' = calls /\ pairs' = pairs /\ pc' = pc
    BY <1>6 DEF PeerReply, OnReceive, OnClosed, CloseSilently, subVars, callVars, vars
  <2> QED BY <2>1, WiredKept
<1>7. ASSUME NEW i \in 1..Window, RunTask(i) PROVE WiredInv'
  <2>1. subs' = subs /\ interest' = interest /\ pc' = pc /\ i \in 1..Len(tasks)
    BY <1>7 DEF RunTask, subVars
  <2>2. PICK t \in Topics : t = tasks[i]
    BY <2>1 DEF TypeOK
  <2>3. pairs' = pairs /\ \A d \in Calls : Waiting(d)' => Waiting(d)
    <3>1. CASE CallClosed
      BY <3>1, ClosedWaiting DEF CallClosed
    <3>2. CASE CallReceive(t)
      BY <3>2, ReceiveWaiting DEF CallReceive
    <3> QED BY <1>7, <2>2, <3>1, <3>2 DEF RunTask
  <2>4. \A u : Wired(u)' = Wired(u)
    BY <2>1 DEF Wired
  <2> QED BY <2>1, <2>3, <2>4 DEF WiredInv
<1> QED BY <1>1, <1>2, <1>3, <1>4, <1>5, <1>6, <1>7 DEF Next, CallSteps, Runner

-----------------------------------------------------------------------------
\* Nothing is posted at first.
LEMMA TaskInit == Init => TaskInv
BY DEF Init, TaskInv

\* What on_receive() does: the first of the line is answered and its call_receive()
\* is posted, if there is one.
LEMMA Received ==
  ASSUME Threads = 1, TypeOK, SubsInv, OnReceive
  PROVE  /\ notes = 0 /\ session' = session /\ notes' = notes /\ pc' = pc /\ calls' = calls
         /\ callId' = callId /\ failed' = failed /\ check' = check
         /\ FreeThread /\ Active = {}
         /\ Line \in Seq(Calls) /\ Line # <<>> /\ Line' = Tail(Line)
         /\ Line[1] \in Calls /\ answered' = answered \union {Line[1]}
         /\ tasks' = IF subs[Res[Line[1]]] = 1 /\ Res[Line[1]] \in interest
                     THEN Append(tasks, Res[Line[1]]) ELSE tasks
<1>1. replies \in Seq(Calls) /\ requests \in Seq(Calls) /\ replies # <<>>
  BY DEF TypeOK, OnReceive
<1>2. Tail(replies) \o requests = Tail(Line) /\ Head(replies) = Line[1] /\ Line # <<>> /\ Line \in Seq(Calls)
  BY <1>1, LineReceived DEF Line
<1>3. Line' = Tail(Line)
  BY <1>2 DEF Line, OnReceive
<1>4. Line[1] \in Calls
  BY <1>1, <1>2
<1>5. PICK h : h = Line[1]
  OBVIOUS
<1>6. Res[h] \in Topics /\ tasks' = tasks \o Posted(Res[h])
  BY <1>2, <1>4, <1>5 DEF OnReceive, Topics
<1>7. subs[Res[h]] = 0 \/ subs[Res[h]] = 1
  BY <1>6, Alone
<1>8. tasks' = IF subs[Res[h]] = 1 /\ Res[h] \in interest THEN Append(tasks, Res[h]) ELSE tasks
  BY <1>6, <1>7, PostedOne
<1>9. FreeThread /\ Active = {}
  BY Alone DEF OnReceive
<1> QED BY <1>2, <1>3, <1>4, <1>5, <1>8, <1>9 DEF OnReceive, callVars

\* What on_closed() does
LEMMA ClosedPosted ==
  ASSUME Threads = 1, TypeOK, SubsInv, TaskInv, OnClosed
  PROVE  /\ notes = 0 /\ session' = "closed" /\ notes' = 1
         /\ tasks' = IF subs[Closed] = 1 /\ Closed \in interest THEN Append(tasks, Closed) ELSE tasks
<1>1. Closed \in Topics
  BY DEF Topics
<1>2. subs[Closed] = 0 \/ subs[Closed] = 1
  BY <1>1, Alone
<1>3. tasks \o Posted(Closed) = IF subs[Closed] = 1 /\ Closed \in interest THEN Append(tasks, Closed) ELSE tasks
  BY <1>1, <1>2, PostedOne
<1>4. notes = 0 /\ session' = "closed" /\ notes' = 1
  BY DEF OnClosed, TaskInv, TypeOK
<1> QED BY <1>3, <1>4 DEF OnClosed

\* What the runner does: the first task.
LEMMA FirstRuns ==
  ASSUME Threads = 1, TypeOK, SubsInv, NEW i \in 1..Window, RunTask(i)
  PROVE  /\ tasks # <<>> /\ tasks' = Tail(tasks) /\ tasks[1] \in Topics
         /\ IF tasks[1] = Closed THEN CallClosed ELSE CallReceive(tasks[1])
         /\ session' = session /\ notes' = notes /\ pc' = pc /\ Line' = Line /\ answered' = answered
         /\ Active = {}
<1>1. FreeThread /\ tasks \in Seq(Topics) /\ i <= Len(tasks)
  BY DEF RunTask, TypeOK
<1>2. i = 1 /\ Active = {}
  BY <1>1, Alone
<1>3. tasks # <<>> /\ tasks[1] \in Topics
  BY <1>1, <1>2
<1>4. tasks' = Tail(tasks)
  BY <1>1, <1>2, <1>3, TaskTaken DEF RunTask
<1> QED BY <1>2, <1>3, <1>4 DEF RunTask, envVars, Line

\* A call_closed() is the last task.
LEMMA TaskStep ==
  ASSUME Threads = 1, TypeOK, SubsInv, WiredInv, TaskInv, [Next]_vars
  PROVE  TaskInv'
<1>1. ASSUME session' \in {session, "closed"}, notes' = notes, tasks' = tasks PROVE TaskInv'
  BY <1>1 DEF TaskInv
<1>2. tasks \in Seq(Topics) /\ Len(tasks) \in Nat
  BY DEF TypeOK
<1>3. CASE OnReceive
  <2>1. PICK t : t = Res[Line[1]]
    OBVIOUS
  <2>2. t \in Topics /\ t # Closed
    BY <1>3, <2>1, Received, Queues
  <2>3. notes = 0 /\ session' = session /\ notes' = notes
    BY <1>3, Received
  <2>4. \/ tasks' = tasks
        \/ tasks' = Append(tasks, t) /\ t \notin AppSubs
    <3>1. subs[t] = 1 => t \notin AppSubs
      BY <2>2 DEF WiredInv
    <3> QED BY <1>3, <2>1, <3>1, Received
  <2>5. CASE tasks' = Append(tasks, t) /\ t \notin AppSubs
    <3>1. Len(tasks') = Len(tasks) + 1
      BY <1>2, <2>2, <2>5
    <3>2. \A i \in 1..Len(tasks') : tasks'[i] = t \/ (i \in 1..Len(tasks) /\ tasks'[i] = tasks[i])
      BY <1>2, <2>2, <2>5, <3>1
    <3> QED BY <2>2, <2>3, <2>5, <3>2 DEF TaskInv
  <2> QED BY <1>1, <2>3, <2>4, <2>5
<1>4. CASE OnClosed
  <2>1. /\ notes = 0 /\ session' = "closed" /\ notes' = 1
        /\ \/ tasks' = tasks
           \/ tasks' = Append(tasks, Closed) /\ subs[Closed] = 1
    BY <1>4, ClosedPosted
  <2>2. Closed \in Topics /\ (subs[Closed] = 1 => Closed \notin AppSubs)
    BY DEF Topics, WiredInv
  <2>3. \A i \in 1..Len(tasks) : tasks[i] # Closed /\ tasks[i] \notin AppSubs
    BY <2>1 DEF TaskInv
  <2>4. CASE tasks' = tasks
    BY <2>1, <2>3, <2>4 DEF TaskInv
  <2>5. CASE tasks' = Append(tasks, Closed) /\ subs[Closed] = 1
    <3>1. Len(tasks') = Len(tasks) + 1
      BY <1>2, <2>2, <2>5
    <3>2. \A i \in 1..Len(tasks') : \/ i = Len(tasks') /\ tasks'[i] = Closed
                                    \/ i \in 1..Len(tasks) /\ tasks'[i] = tasks[i]
      BY <1>2, <2>2, <2>5, <3>1
    <3> QED BY <2>1, <2>2, <2>3, <2>5, <3>2 DEF TaskInv
  <2> QED BY <2>1, <2>4, <2>5
<1>5. ASSUME NEW i \in 1..Window, RunTask(i) PROVE TaskInv'
  <2>1. tasks # <<>> /\ tasks' = Tail(tasks) /\ session' = session /\ notes' = notes
    BY <1>5, FirstRuns
  <2>3. \A j \in 1..Len(tasks') : /\ tasks'[j] = tasks[j + 1] /\ j + 1 \in 1..Len(tasks)
                                  /\ j + 1 = Len(tasks) => j = Len(tasks')
    BY <1>2, <2>1, TailPlaces
  <2> QED BY <2>1, <2>3 DEF TaskInv
<1>6. CASE \/ \E c \in Calls : CallSteps(c)
           \/ PeerReply \/ CloseSilently \/ UNCHANGED vars
  BY <1>1, <1>6 DEF CallSteps, Send, Sent, Refused, Look, Subscribe, ShowInterest, Register,
                    PeerReply, CloseSilently, vars, envVars
<1> QED BY <1>3, <1>4, <1>5, <1>6 DEF Next, Runner

-----------------------------------------------------------------------------
\* No call was sent at first.
LEMMA LineInit == Init => LineInv
<1> SUFFICES ASSUME Init PROVE LineInv
  OBVIOUS
<1>1. Line = <<>> /\ Active = {} /\ answered = {}
  BY DEF Init, Line, Active
<1>2. Len(Line) = 0
  BY <1>1
<1> QED BY <1>1, <1>2 DEF LineInv

\* The line does not change while a call() subscribes and registers, nor when the
\* peer replies.
LEMMA LineKept ==
  ASSUME TypeOK, LineInv, Line' = Line, answered' = answered, notes' = notes, Active' = Active,
         \A c \in Calls : pc[c].step # "idle" => pc'[c].step # "idle",
         \A c \in Calls : Waiting(c) => Waiting(c)'
  PROVE  LineInv'
<1>1. Line \in Seq(Calls) /\ \A a \in 1..Len(Line) : Line[a] \in Calls
  BY DEF Line, TypeOK
<1>2. answered \subseteq Calls
  BY DEF TypeOK
<1> QED BY <1>1, <1>2 DEF LineInv

\* A call_receive() finds a caller, which is of the topic and whose response was received.
LEMMA CallerFound ==
  ASSUME Paired, TypeOK, Numbered, WiredInv, TaskInv, QueueInv,
         tasks # <<>>, tasks[1] # Closed, CallReceive(tasks[1])
  PROVE  \E c \in Calls :
           /\ tasks[1] = Res[c] /\ check' = check /\ failed' = failed
           /\ calls[Req[c]].callers # <<>> /\ calls[Req[c]].callers[1] \in answered
           /\ calls'[Req[c]].callers = Tail(calls[Req[c]].callers) /\ calls'[Req[c]].known = "yes"
           /\ \A r \in Reqs : r # Req[c] => calls'[r] = calls[r]
<1>1. tasks \in Seq(Topics) /\ 1 \in 1..Len(tasks) /\ tasks[1] \in Topics
  BY DEF TypeOK
<1>2. PICK c \in Calls : tasks[1] = Res[c]
  BY <1>1 DEF Topics
<1>3. PICK n \in Nat : n = Cardinality(Due(Res[c])) /\ n # 0
  <2>1. IsFiniteSet(Due(Res[c]))
    BY <1>1, PlacesFinite DEF Due, Places
  <2>2. 1 \in Due(Res[c])
    BY <1>1, <1>2 DEF Due
  <2> QED BY <2>1, <2>2, FS_CardinalityType, FS_EmptySet
<1>4. PICK q : q = calls[Req[c]].callers
  OBVIOUS
<1>5. q \in Seq(Calls) /\ Len(q) \in Nat /\ Req[c] \in Reqs
  BY <1>4, Queues
<1>6. n <= Len(q) /\ (q # <<>> => calls[Req[c]].known = "yes")
      /\ \A i \in 1..Len(q) : Req[q[i]] = Req[c] /\ (Res[c] \notin AppSubs => (q[i] \in answered <=> i <= n))
  BY <1>3, <1>4 DEF QueueInv, InOrder
<1>7. q # <<>> /\ 1 \in 1..Len(q) /\ 1 <= n /\ Head(q) = q[1]
  BY <1>3, <1>5, <1>6
<1>8. q[1] \in Calls /\ Req[q[1]] = Req[c] /\ q[1] \in answered
  BY <1>1, <1>2, <1>5, <1>6, <1>7 DEF TaskInv
<1>9. Waiting(q[1])
  BY <1>4, <1>7, Queues
<1>10. Res[q[1]] = Res[c]
  BY <1>8 DEF Paired
<1>11. pairs[Res[c]] = Req[c]
  BY <1>8, <1>9, <1>10 DEF WiredInv
<1>12. Req[c] # NoReq
  BY <1>5, PulseCallAssumption
<1>13. callId[q[1]] = calls[Req[c]].reply_index + 1
  BY <1>4, <1>5, <1>7 DEF Numbered
<1> DEFINE e == [known |-> "yes", call_index |-> calls[Req[c]].call_index,
                 reply_index |-> calls[Req[c]].reply_index + 1, callers |-> Tail(calls[Req[c]].callers)]
<1>14. calls' = [calls EXCEPT ![Req[c]] = e] /\ check' = check /\ failed' = failed
  BY <1>2, <1>4, <1>6, <1>7, <1>11, <1>12, <1>13 DEF CallReceive
<1>15. e.callers = Tail(q) /\ e.known = "yes"
  BY <1>4
<1> HIDE DEF e
<1>16. calls'[Req[c]] = e /\ \A r \in Reqs : r # Req[c] => calls'[r] = calls[r]
  BY <1>5, <1>14 DEF TypeOK
<1> QED BY <1>2, <1>4, <1>7, <1>8, <1>14, <1>15, <1>16

\* A registered call waits, and those that waited still do.
LEMMA RegisterJoins ==
  ASSUME TypeOK, NEW c \in Calls, Register(c)
  PROVE  Waiting(c)' /\ \A d \in Calls : Waiting(d) => Waiting(d)'
<1>1. PICK q : q = calls[Req[c]].callers
  OBVIOUS
<1>2. q \in Seq(Calls) /\ Req[c] \in Reqs
  BY <1>1, Queues
<1>3. calls'[Req[c]].callers = Append(q, c) /\ \A r \in Reqs : r # Req[c] => calls'[r] = calls[r]
  BY <1>1, RegisterQueue
<1>4. \E i \in 1..Len(Append(q, c)) : Append(q, c)[i] = c
  BY <1>2
<1>5. ASSUME NEW d, \E i \in 1..Len(q) : q[i] = d PROVE \E i \in 1..Len(Append(q, c)) : Append(q, c)[i] = d
  BY <1>2, <1>5
<1>6. Waiting(c)'
  BY <1>2, <1>3, <1>4 DEF Waiting
<1>7. ASSUME NEW d \in Calls, Waiting(d) PROVE Waiting(d)'
  <2>1. PICK r \in Reqs : \E i \in 1..Len(calls[r].callers) : calls[r].callers[i] = d
    BY <1>7 DEF Waiting
  <2>2. CASE r = Req[c]
    <3>1. \E i \in 1..Len(q) : q[i] = d
      BY <1>1, <2>1, <2>2
    <3>2. \E i \in 1..Len(calls'[Req[c]].callers) : calls'[Req[c]].callers[i] = d
      BY <1>3, <1>5, <3>1
    <3> QED BY <1>2, <3>2 DEF Waiting
  <2>3. CASE r # Req[c]
    BY <1>3, <2>1, <2>3 DEF Waiting
  <2> QED BY <2>2, <2>3
<1> QED BY <1>6, <1>7

\* Until the close is notified, each call in the line waits or still registers.
LEMMA LineStep ==
  ASSUME Threads = 1, Paired, TypeOK, SubsInv, Numbered, WiredInv, TaskInv, LineInv, QueueInv,
         [Next]_vars
  PROVE  LineInv'
<1>R. replies \in Seq(Calls) /\ requests \in Seq(Calls)
  BY DEF TypeOK
<1>0. PICK l \in Seq(Calls) : l = Line /\ \A a \in 1..Len(l) : l[a] \in Calls
  <2>1. Line \in Seq(Calls)
    BY <1>R DEF Line
  <2>2. \A a \in 1..Len(Line) : Line[a] \in Calls
    BY <2>1
  <2> QED BY <2>1, <2>2
<1>L. /\ \A a, b \in 1..Len(l) : l[a] = l[b] => a = b
      /\ \A a \in 1..Len(l) :
           /\ l[a] \notin answered /\ pc[l[a]].step # "idle"
           /\ notes = 0 => Waiting(l[a]) \/ l[a] \in Active
      /\ \A c \in Active : notes = 0 /\ l # <<>> /\ l[Len(l)] = c
      /\ \A c \in answered : pc[c].step # "idle"
  BY <1>0 DEF LineInv
<1>T. answered \subseteq Calls
  BY DEF TypeOK
<1>W. ASSUME calls' = calls PROVE \A c \in Calls : Waiting(c)' = Waiting(c)
  BY <1>W DEF Waiting
<1>1. ASSUME NEW c \in Calls, Send(c) PROVE LineInv'
  <2>1. pc[c].step = "idle" /\ Active = {} /\ calls' = calls /\ answered' = answered /\ notes' = notes
    BY <1>1, Alone DEF Send, Sent, Refused, callVars
  <2>2. \A d \in Calls : Waiting(d)' = Waiting(d)
    BY <1>W, <2>1
  <2>3. CASE Sent(c, Closed)
    <3>0. notes = 0
      BY <2>3 DEF Sent, TaskInv, TypeOK
    <3>1. requests' = Append(requests, c) /\ replies' = replies /\ At(c, "check", Closed)
      BY <1>1, <2>3 DEF Send, Sent
    <3>2. PICK p : p = Append(l, c)
      OBVIOUS
    <3>3. Line' = p
      <4>1. replies \o Append(requests, c) = Append(replies \o requests, c)
        BY <1>R, LineSent
      <4> QED BY <1>0, <3>1, <3>2, <4>1 DEF Line
    <3>4. /\ p # <<>> /\ p[Len(p)] = c
          /\ \A j \in 1..Len(p) : (j = Len(p) /\ p[j] = c) \/ (j \in 1..Len(l) /\ p[j] = l[j])
      BY <3>2, AppendPlaces
    <3>5. pc'[c].step = "check" /\ \A d \in Calls : d # c => pc'[d] = pc[d]
      BY <3>1, AtOther
    <3>6. Active' = {c}
      BY <2>1, <3>5 DEF Active
    <3>7. c \notin answered /\ \A a \in 1..Len(l) : l[a] # c
      BY <1>L, <2>1
    <3>8. \A a, b \in 1..Len(p) : p[a] = p[b] => a = b
      BY <1>L, <3>4, <3>7
    <3>9. \A a \in 1..Len(p) : /\ p[a] \notin answered /\ pc'[p[a]].step # "idle"
                               /\ Waiting(p[a])' \/ p[a] \in Active'
      <4> SUFFICES ASSUME NEW a \in 1..Len(p) PROVE /\ p[a] \notin answered /\ pc'[p[a]].step # "idle"
                                                    /\ Waiting(p[a])' \/ p[a] \in Active'
        OBVIOUS
      <4>1. CASE p[a] = c
        BY <3>5, <3>6, <3>7, <4>1
      <4>2. CASE a \in 1..Len(l) /\ p[a] = l[a]
        BY <1>0, <1>L, <2>1, <2>2, <3>0, <3>5, <3>7, <4>2
      <4> QED BY <3>4, <4>1, <4>2
    <3>10. \A d \in answered : pc'[d].step # "idle"
      BY <1>L, <1>T, <3>5, <3>7
    <3> QED BY <2>1, <3>0, <3>3, <3>4, <3>6, <3>8, <3>9, <3>10 DEF LineInv
  <2>4. CASE Refused(c)
    <3>1. requests' = requests /\ replies' = replies /\ At(c, "done", Closed)
      BY <1>1, <2>4 DEF Send, Refused
    <3>2. pc'[c].step = "done" /\ \A d \in Calls : d # c => pc'[d] = pc[d]
      BY <3>1, AtOther
    <3>3. Active' = Active /\ Line' = Line
      BY <2>1, <3>1, <3>2 DEF Active, Line
    <3>4. \A d \in Calls : pc[d].step # "idle" => pc'[d].step # "idle"
      BY <3>2
    <3> QED BY <2>1, <2>2, <3>3, <3>4, LineKept
  <2> QED BY <1>1, <2>3, <2>4 DEF Send
<1>2. ASSUME NEW c \in Calls, Look(c) \/ Subscribe(c) \/ ShowInterest(c) PROVE LineInv'
  <2>1. /\ pc[c].step \in {"check", "push", "show"} /\ calls' = calls /\ answered' = answered
        /\ notes' = notes /\ replies' = replies /\ requests' = requests
    BY <1>2 DEF Look, Subscribe, ShowInterest, callVars, envVars
  <2>2. PICK s \in {"check", "push", "show", "register"} : \E t : At(c, s, t)
    BY <1>2 DEF Look, Subscribe, ShowInterest
  <2>3. pc'[c].step = s /\ \A d \in Calls : d # c => pc'[d] = pc[d]
    BY <2>2, AtOther
  <2>4. Active' = Active /\ Line' = Line
    BY <2>1, <2>3 DEF Active, Line
  <2>5. \A d \in Calls : pc[d].step # "idle" => pc'[d].step # "idle"
    BY <2>3
  <2> QED BY <1>W, <2>1, <2>4, <2>5, LineKept
<1>3. ASSUME NEW c \in Calls, Register(c) PROVE LineInv'
  <2>1. /\ pc[c].step = "register" /\ answered' = answered /\ At(c, "done", Closed)
        /\ notes' = notes /\ replies' = replies /\ requests' = requests
    BY <1>3 DEF Register, envVars
  <2>2. pc'[c].step = "done" /\ \A d \in Calls : d # c => pc'[d] = pc[d]
    BY <2>1, AtOther
  <2>3. c \in Active /\ Active' = {} /\ Line' = l
    <3>1. c \in Active /\ \A d \in Active : d = c
      BY <2>1, Alone DEF Active
    <3>2. Active' = {}
      BY <2>2, <3>1 DEF Active
    <3> QED BY <1>0, <2>1, <3>1, <3>2 DEF Line
  <2>4. Waiting(c)' /\ \A d \in Calls : Waiting(d) => Waiting(d)'
    BY <1>3, RegisterJoins
  <2>5. \A a \in 1..Len(l) : /\ l[a] \notin answered /\ pc'[l[a]].step # "idle"
                             /\ notes = 0 => Waiting(l[a])'
    <3>1. \A d \in Active : d = c
      BY <2>3, Alone
    <3> QED BY <1>0, <1>L, <2>2, <2>4, <3>1
  <2>6. \A d \in answered : pc'[d].step # "idle"
    BY <1>L, <1>T, <2>2
  <2> QED BY <1>L, <2>1, <2>3, <2>5, <2>6 DEF LineInv
<1>4. CASE PeerReply
  <2>1. /\ replies' = Append(replies, Head(requests)) /\ requests' = Tail(requests) /\ requests # <<>>
        /\ notes' = notes /\ answered' = answered /\ pc' = pc /\ calls' = calls
    BY <1>4 DEF PeerReply, callVars
  <2>2. Line' = Line
    BY <2>1, LineReplied DEF Line, TypeOK
  <2>3. Active' = Active
    BY <2>1 DEF Active
  <2> QED BY <1>W, <2>1, <2>2, <2>3, LineKept
<1>5. CASE OnReceive
  <2>1. /\ notes = 0 /\ notes' = notes /\ pc' = pc /\ calls' = calls /\ Active = {}
        /\ l # <<>> /\ Line' = Tail(l) /\ answered' = answered \union {l[1]}
    BY <1>0, <1>5, Received
  <2>2. PICK p : p = Tail(l)
    OBVIOUS
  <2>3. /\ 1 \in 1..Len(l)
        /\ \A j \in 1..Len(p) : p[j] = l[j + 1] /\ j + 1 \in 1..Len(l) /\ j + 1 # 1
    BY <2>1, <2>2, TailPlaces
  <2>4. p \in Seq(Calls)
    BY <2>1, <2>2, TailPlaces
  <2>5. \A a, b \in 1..Len(p) : p[a] = p[b] => a = b
    <3> SUFFICES ASSUME NEW a \in 1..Len(p), NEW b \in 1..Len(p), p[a] = p[b] PROVE a = b
      OBVIOUS
    <3>1. a + 1 = b + 1
      BY <1>L, <2>3
    <3> QED BY <3>1
  <2>6. \A a \in 1..Len(p) : p[a] \notin answered' /\ pc[p[a]].step # "idle" /\ Waiting(p[a])
    <3> SUFFICES ASSUME NEW a \in 1..Len(p)
                 PROVE p[a] \notin answered' /\ pc[p[a]].step # "idle" /\ Waiting(p[a])
      OBVIOUS
    <3>1. PICK b \in 1..Len(l) : p[a] = l[b] /\ b # 1
      BY <2>3
    <3>2. l[b] # l[1]
      BY <1>L, <2>3, <3>1
    <3> QED BY <1>L, <2>1, <3>1, <3>2
  <2>7. \A a \in 1..Len(p) : Waiting(p[a])'
    <3>1. \A a \in 1..Len(p) : p[a] \in Calls
      BY <2>4
    <3> QED BY <1>W, <2>1, <2>6, <3>1
  <2>8. Active' = {}
    BY <2>1 DEF Active
  <2>9. \A d \in answered' : pc'[d].step # "idle"
    BY <1>L, <2>1, <2>3
  <2> QED BY <2>1, <2>2, <2>5, <2>6, <2>7, <2>8, <2>9 DEF LineInv
<1>6. CASE OnClosed
  <2>1. /\ Active = {} /\ pc' = pc /\ answered' = answered /\ notes' = 1
        /\ replies' = replies /\ requests' = requests
    BY <1>6, Alone, ClosedPosted DEF OnClosed
  <2>2. Active' = {} /\ Line' = l
    BY <1>0, <2>1 DEF Active, Line
  <2> QED BY <1>L, <2>1, <2>2 DEF LineInv
<1>7. ASSUME NEW i \in 1..Window, RunTask(i) PROVE LineInv'
  <2>1. /\ tasks # <<>> /\ notes' = notes /\ pc' = pc /\ Line' = l /\ answered' = answered
        /\ Active = {} /\ IF tasks[1] = Closed THEN CallClosed ELSE CallReceive(tasks[1])
    BY <1>0, <1>7, FirstRuns
  <2>2. Active' = {}
    BY <2>1 DEF Active
  <2>3. ASSUME notes = 0, NEW a \in 1..Len(l) PROVE Waiting(l[a])'
    <3>1. 1 \in 1..Len(tasks)
      BY <2>1 DEF TypeOK
    <3>2. tasks[1] # Closed
      BY <2>3, <3>1 DEF TaskInv
    <3>3. PICK c \in Calls :
            /\ calls[Req[c]].callers # <<>> /\ calls[Req[c]].callers[1] \in answered
            /\ calls'[Req[c]].callers = Tail(calls[Req[c]].callers)
            /\ \A r \in Reqs : r # Req[c] => calls'[r] = calls[r]
      BY <2>1, <3>2, CallerFound
    <3>4. Waiting(l[a]) /\ l[a] \notin answered
      BY <1>L, <2>1, <2>3
    <3>R. PICK r \in Reqs : \E j \in 1..Len(calls[r].callers) : calls[r].callers[j] = l[a]
      BY <3>4 DEF Waiting
    <3>5. PICK j \in 1..Len(calls[r].callers) : calls[r].callers[j] = l[a]
      BY <3>R
    <3>6. CASE r # Req[c]
      BY <3>3, <3>5, <3>6 DEF Waiting
    <3>7. CASE r = Req[c]
      <4>1. PICK q : q = calls[r].callers
        OBVIOUS
      <4>2. q \in Seq(Calls) /\ q # <<>> /\ j \in 1..Len(q) /\ q[j] = l[a] /\ q[1] \in answered
        BY <3>3, <3>5, <3>7, <4>1, Queues
      <4>3. j # 1
        BY <3>4, <4>2
      <4>4. \E k \in 1..Len(Tail(q)) : Tail(q)[k] = l[a]
        <5>1. j - 1 \in 1..Len(Tail(q)) /\ Tail(q)[j - 1] = q[j]
          BY <4>2, <4>3
        <5> QED BY <4>2, <5>1
      <4> QED BY <3>3, <3>7, <4>1, <4>4 DEF Waiting
    <3> QED BY <3>6, <3>7
  <2> QED BY <1>L, <2>1, <2>2, <2>3 DEF LineInv
<1>8. CASE CloseSilently \/ UNCHANGED vars
  BY <1>8, LineKept DEF CloseSilently, vars, envVars, callVars, Line, Active, Waiting
<1> QED BY <1>1, <1>2, <1>3, <1>4, <1>5, <1>6, <1>7, <1>8 DEF Next, CallSteps, Runner

-----------------------------------------------------------------------------
\* Nobody waits at first.
LEMMA QueueInit == Init => QueueInv
<1> SUFFICES ASSUME Init, NEW c \in Calls
             PROVE  LET q == calls[Req[c]].callers
                    IN  /\ InOrder(q, Cardinality(Due(Res[c])), Res[c] \notin AppSubs, Line, answered)
                        /\ q # <<>> => calls[Req[c]].known = "yes"
                        /\ \A i \in 1..Len(q) : Req[q[i]] = Req[c]
  BY DEF QueueInv
<1>1. calls[Req[c]].callers = <<>>
  BY DEF Init, Reqs, Empty
<1>2. Due(Res[c]) = {}
  BY DEF Init, Due
<1>3. Cardinality(Due(Res[c])) = 0
  BY <1>2, FS_EmptySet
<1> QED BY <1>1, <1>3 DEF InOrder

\* A queue holds no caller twice.
LEMMA QueueOnce ==
  ASSUME TypeOK, Numbered, NEW c \in Calls
  PROVE  \A i, j \in 1..Len(calls[Req[c]].callers) :
           calls[Req[c]].callers[i] = calls[Req[c]].callers[j] => i = j
<1>1. PICK k, q : k = calls[Req[c]].reply_index /\ q = calls[Req[c]].callers
  OBVIOUS
<1>2. k \in Nat /\ Req[c] \in Reqs
  BY <1>1 DEF TypeOK, TopicCalls, Reqs
<1>3. \A i \in 1..Len(q) : callId[q[i]] = k + i
  BY <1>1, <1>2 DEF Numbered
<1>4. \A i, j \in 1..Len(q) : k + i = k + j => i = j
  BY <1>2
<1> QED BY <1>1, <1>3, <1>4

\* A caller waits in the queue of its own request.
LEMMA OwnQueue ==
  ASSUME QueueInv, NEW d \in Calls, Waiting(d)
  PROVE  \E i \in 1..Len(calls[Req[d]].callers) : calls[Req[d]].callers[i] = d
<1>1. PICK r \in Reqs : \E i \in 1..Len(calls[r].callers) : calls[r].callers[i] = d
  BY DEF Waiting
<1>2. PICK c \in Calls : r = Req[c]
  BY <1>1 DEF Reqs
<1>3. Req[d] = r
  BY <1>1, <1>2 DEF QueueInv
<1> QED BY <1>1, <1>3

\* The queues keep the order of the line.
LEMMA QueueStep ==
  ASSUME Threads = 1, Paired, TypeOK, CallerInv, SubsInv, Numbered, WiredInv, TaskInv, LineInv, QueueInv,
         [Next]_vars
  PROVE  QueueInv'
<1> DEFINE Ok(c) == LET q == calls[Req[c]].callers
                    IN  /\ InOrder(q, Cardinality(Due(Res[c])), Res[c] \notin AppSubs, Line, answered)
                        /\ q # <<>> => calls[Req[c]].known = "yes"
                        /\ \A i \in 1..Len(q) : Req[q[i]] = Req[c]
<1> SUFFICES ASSUME NEW c \in Calls PROVE Ok(c)'
  BY DEF QueueInv
<1>R. replies \in Seq(Calls) /\ requests \in Seq(Calls) /\ tasks \in Seq(Topics)
  BY DEF TypeOK
<1>A. PICK l \in Seq(Calls) : l = Line
  <2>1. Line \in Seq(Calls)
    BY <1>R DEF Line
  <2> QED BY <2>1
<1>B. PICK q \in Seq(Calls) : q = calls[Req[c]].callers
  BY Queues
<1>C. PICK A : A = answered
  OBVIOUS
<1>0. l = Line /\ A = answered /\ q = calls[Req[c]].callers
  BY <1>A, <1>B, <1>C
<1>N. PICK n \in Nat : n = Cardinality(Places(tasks, Res[c])) /\ n = Cardinality(Due(Res[c]))
  <2>1. Due(Res[c]) = Places(tasks, Res[c])
    BY DEF Due, Places
  <2> QED BY <1>R, <2>1, PlacesFinite
<1>D. Due(Res[c])' = Places(tasks', Res[c])
  BY DEF Due, Places
<1>P. PICK posted : posted = (Res[c] \notin AppSubs)
  OBVIOUS
<1>Q. InOrder(q, n, posted, l, A) /\ (q # <<>> => calls[Req[c]].known = "yes")
      /\ \A i \in 1..Len(q) : Req[q[i]] = Req[c]
  BY <1>0, <1>N, <1>P DEF QueueInv
<1>T. /\ Req[c] \in Reqs /\ Res[c] \in Topics /\ Res[c] # Closed
      /\ \A i \in 1..Len(q) : q[i] \in Calls /\ Waiting(q[i])
  BY <1>0, Queues
<1>K. ASSUME NEW k \in Nat, NEW p, NEW m, NEW B, k = Cardinality(Places(tasks', Res[c])),
             p = calls'[Req[c]].callers, m = Line', B = answered', InOrder(p, k, posted, m, B),
             p # <<>> => calls'[Req[c]].known = "yes", \A i \in 1..Len(p) : Req[p[i]] = Req[c]
      PROVE  Ok(c)'
  BY <1>D, <1>K, <1>P
<1> HIDE DEF Ok
<1>1. ASSUME calls' = calls, Line' = Line, answered' = answered, tasks' = tasks PROVE Ok(c)'
  BY <1>0, <1>1, <1>K, <1>N, <1>Q
<1>2. ASSUME NEW d \in Calls, Send(d) PROVE Ok(c)'
  <2>1. /\ pc[d].step = "idle" /\ calls' = calls /\ tasks' = tasks /\ answered' = answered
        /\ replies' = replies /\ (requests' = requests \/ requests' = Append(requests, d))
    BY <1>2 DEF Send, Sent, Refused, callVars
  <2>2. CASE requests' = Append(requests, d)
    <3>1. PICK m : m = Append(l, d)
      OBVIOUS
    <3>2. Line' = m
      <4>1. replies \o Append(requests, d) = Append(replies \o requests, d)
        BY <1>R, LineSent
      <4> QED BY <1>0, <2>1, <2>2, <3>1, <4>1 DEF Line
    <3>3. \A i \in 1..Len(q) : q[i] # d
      BY <1>T, <2>1 DEF CallerInv
    <3>4. InOrder(q, n, posted, m, A)
      BY <1>Q, <3>1, <3>3, OrderSent
    <3> QED BY <1>0, <1>K, <1>N, <1>Q, <2>1, <3>2, <3>4
  <2>3. CASE requests' = requests
    <3>1. Line' = Line
      BY <2>1, <2>3 DEF Line
    <3> QED BY <1>1, <2>1, <3>1
  <2> QED BY <2>1, <2>2, <2>3
<1>3. ASSUME NEW d \in Calls, Look(d) \/ Subscribe(d) \/ ShowInterest(d) PROVE Ok(c)'
  BY <1>1, <1>3 DEF Look, Subscribe, ShowInterest, envVars, callVars, Line
<1>4. ASSUME NEW d \in Calls, Register(d) PROVE Ok(c)'
  <2>1. /\ pc[d].step = "register" /\ tasks' = tasks /\ answered' = answered
        /\ replies' = replies /\ requests' = requests
    BY <1>4 DEF Register, envVars
  <2>2. Line' = l /\ d \in Active /\ ~Waiting(d)
    BY <1>0, <2>1 DEF Line, Active, CallerInv
  <2>3. CASE Req[d] = Req[c]
    <3>1. PICK p : p = Append(q, d)
      OBVIOUS
    <3>2. calls'[Req[c]].callers = p /\ calls'[Req[c]].known = "yes"
      BY <1>0, <1>4, <2>3, <3>1, RegisterQueue
    <3>3. l # <<>> /\ l[Len(l)] = d /\ \A a, b \in 1..Len(l) : l[a] = l[b] => a = b
      BY <1>0, <2>2 DEF LineInv
    <3>4. Len(l) \in 1..Len(l)
      BY <3>3
    <3>5. d \notin A
      BY <1>0, <3>3, <3>4 DEF LineInv
    <3>6. \A i \in 1..Len(q) : q[i] # d
      BY <1>T, <2>2
    <3>7. InOrder(p, n, posted, l, A)
      BY <1>Q, <3>1, <3>3, <3>5, <3>6, OrderJoined
    <3>8. \A i \in 1..Len(p) : Req[p[i]] = Req[c]
      BY <1>Q, <2>3, <3>1, AppendPlaces
    <3> QED BY <1>0, <1>K, <1>N, <2>1, <2>2, <3>2, <3>7, <3>8
  <2>4. CASE Req[d] # Req[c]
    <3>1. calls'[Req[c]] = calls[Req[c]]
      BY <1>4, <1>T, <2>4, RegisterQueue
    <3> QED BY <1>0, <1>K, <1>N, <1>Q, <2>1, <2>2, <3>1
  <2> QED BY <2>3, <2>4
<1>5. CASE PeerReply
  <2>1. /\ replies' = Append(replies, Head(requests)) /\ requests' = Tail(requests) /\ requests # <<>>
        /\ answered' = answered /\ tasks' = tasks /\ calls' = calls
    BY <1>5 DEF PeerReply, callVars
  <2>2. Line' = Line
    BY <2>1, LineReplied DEF Line, TypeOK
  <2> QED BY <1>1, <2>1, <2>2
<1>6. CASE OnReceive
  <2>1. PICK h \in Calls : h = l[1]
    BY <1>0, <1>6, Received
  <2>2. /\ notes = 0 /\ calls' = calls /\ Active = {} /\ l # <<>> /\ Line' = Tail(l)
        /\ answered' = A \union {h}
        /\ tasks' = IF subs[Res[h]] = 1 /\ Res[h] \in interest THEN Append(tasks, Res[h]) ELSE tasks
    BY <1>0, <1>6, <2>1, Received
  <2>3. /\ 1 \in 1..Len(l) /\ h \notin A /\ Waiting(h)
        /\ \A a, b \in 1..Len(l) : l[a] = l[b] => a = b
    <3>1. 1 \in 1..Len(l)
      BY <2>2
    <3> QED BY <1>0, <2>1, <2>2, <3>1 DEF LineInv
  <2>4. Wired(Res[h]) /\ Res[h] \in Topics
    BY <2>3, Queues DEF WiredInv
  <2>5. subs[Res[h]] \in {0, 1} /\ (subs[Res[h]] = 1 => Res[h] \notin AppSubs)
    BY <2>4, Alone DEF WiredInv
  <2>6. (\E i \in 1..Len(q) : q[i] = h) <=> Res[h] = Res[c]
    <3>1. ASSUME Res[h] = Res[c] PROVE \E i \in 1..Len(q) : q[i] = h
      <4>1. Req[h] = Req[c]
        BY <3>1 DEF Paired
      <4> QED BY <1>0, <2>3, <4>1, OwnQueue
    <3>2. ASSUME NEW i \in 1..Len(q), q[i] = h PROVE Res[h] = Res[c]
      BY <1>Q, <3>2 DEF Paired
    <3> QED BY <3>1, <3>2
  <2>7. PICK k \in Nat : /\ k = Cardinality(Places(tasks', Res[c]))
                         /\ IF posted /\ \E i \in 1..Len(q) : q[i] = h THEN k = n + 1 ELSE k = n
    <3>1. CASE subs[Res[h]] = 1 /\ Res[h] \in interest
      <4>0. Cardinality(Places(Append(tasks, Res[h]), Res[c])) =
              IF Res[h] = Res[c] THEN Cardinality(Places(tasks, Res[c])) + 1
              ELSE Cardinality(Places(tasks, Res[c]))
        BY ONLY <1>R, <2>4, PlacesAppend
      <4>1. Cardinality(Places(Append(tasks, Res[h]), Res[c])) = IF Res[h] = Res[c] THEN n + 1 ELSE n
        BY <1>N, <4>0
      <4>2. tasks' = Append(tasks, Res[h]) /\ Res[h] \notin AppSubs
        BY <2>2, <2>5, <3>1
      <4>3. CASE Res[h] = Res[c]
        <5>1. (Res[c] \notin AppSubs) /\ \E i \in 1..Len(q) : q[i] = h
          BY <2>6, <4>2, <4>3
        <5>2. posted
          BY <1>P, <5>1, Zenon
        <5>3. n + 1 \in Nat /\ n + 1 = Cardinality(Places(tasks', Res[c]))
          BY <4>1, <4>2, <4>3
        <5> QED BY <5>1, <5>2, <5>3
      <4>4. CASE Res[h] # Res[c]
        BY <2>6, <4>1, <4>2, <4>4
      <4> QED BY <4>3, <4>4
    <3>2. CASE ~(subs[Res[h]] = 1 /\ Res[h] \in interest)
      <4>1. tasks' = tasks /\ Res[h] \in AppSubs
        BY <2>2, <2>4, <2>5, <3>2 DEF Wired
      <4> QED BY <1>N, <1>P, <2>6, <4>1
    <3> QED BY <3>1, <3>2
  <2>8. \A i, j \in 1..Len(q) : q[i] = q[j] => i = j
    BY <1>0, QueueOnce
  <2>9. InOrder(q, k, posted, Tail(l), A \union {h})
    BY <1>Q, <2>1, <2>2, <2>3, <2>7, <2>8, OrderReceived
  <2>10. PICK m, B : m = Tail(l) /\ B = A \union {h}
    OBVIOUS
  <2> QED BY <1>0, <1>K, <1>Q, <2>2, <2>7, <2>9, <2>10
<1>7. CASE OnClosed
  <2>1. /\ calls' = calls /\ answered' = answered /\ replies' = replies /\ requests' = requests
        /\ tasks' = tasks \/ tasks' = Append(tasks, Closed)
    BY <1>7, ClosedPosted DEF OnClosed, callVars
  <2>2. Line' = l /\ Closed \in Topics
    BY <1>0, <2>1 DEF Line, Topics
  <2>3. n = Cardinality(Places(tasks', Res[c]))
    <3>0. Cardinality(Places(Append(tasks, Closed), Res[c])) =
            IF Closed = Res[c] THEN Cardinality(Places(tasks, Res[c])) + 1
            ELSE Cardinality(Places(tasks, Res[c]))
      BY ONLY <1>R, <2>2, PlacesAppend
    <3>1. Cardinality(Places(Append(tasks, Closed), Res[c])) = n
      BY <1>N, <1>T, <3>0
    <3> QED BY <1>N, <2>1, <3>1
  <2> QED BY <1>0, <1>K, <1>Q, <2>1, <2>2, <2>3
<1>8. ASSUME NEW i \in 1..Window, RunTask(i) PROVE Ok(c)'
  <2>1. /\ tasks # <<>> /\ tasks' = Tail(tasks) /\ Line' = l /\ answered' = A /\ 1 \in 1..Len(tasks)
        /\ IF tasks[1] = Closed THEN CallClosed ELSE CallReceive(tasks[1])
    BY <1>0, <1>8, <1>R, FirstRuns
  <2>2. Cardinality(Places(tasks', Res[c])) = IF tasks[1] = Res[c] THEN n - 1 ELSE n
    BY <1>N, <1>R, <2>1, PlacesTail
  <2>3. CASE tasks[1] = Closed
    <3>1. calls'[Req[c]].callers = <<>>
      BY <1>T, <2>1, <2>3 DEF CallClosed, Empty
    <3>2. Len(tasks) = 1
      BY <2>1, <2>3 DEF TaskInv
    <3>3. Len(Tail(tasks)) = 0
      BY <1>R, <2>1, <3>2, TailPlaces
    <3>4. Places(tasks', Res[c]) = {}
      <4>1. Len(tasks') = 0
        BY <2>1, <3>3
      <4>2. 1..Len(tasks') = {}
        BY <4>1
      <4> QED BY <4>2 DEF Places
    <3>5. Cardinality(Places(tasks', Res[c])) = 0
      BY <3>4, FS_EmptySet
    <3>6. InOrder(<<>>, 0, posted, l, A)
      BY DEF InOrder
    <3>7. PICK p : p = <<>>
      OBVIOUS
    <3>8. \A j \in 1..Len(p) : Req[p[j]] = Req[c]
      BY <3>7
    <3> QED BY <1>K, <2>1, <3>1, <3>5, <3>6, <3>7, <3>8
  <2>4. CASE tasks[1] # Closed
    <3>1. PICK d \in Calls :
            /\ tasks[1] = Res[d] /\ calls[Req[d]].callers # <<>>
            /\ calls'[Req[d]].callers = Tail(calls[Req[d]].callers) /\ calls'[Req[d]].known = "yes"
            /\ \A r \in Reqs : r # Req[d] => calls'[r] = calls[r]
      BY <2>1, <2>4, CallerFound
    <3>2. CASE Req[d] = Req[c]
      <4>1. tasks[1] = Res[c]
        BY <3>1, <3>2 DEF Paired
      <4>2. n # 0
        BY <1>N, <1>R, <2>1, <4>1, PlacesFinite
      <4>3. PICK k \in Nat : k = n - 1
        BY <4>2
      <4>4. PICK p : p = Tail(q)
        OBVIOUS
      <4>5. q # <<>> /\ InOrder(p, k, posted, l, A)
        BY <1>Q, <4>2, <4>3, <4>4, OrderTaken
      <4>6. \A j \in 1..Len(p) : Req[p[j]] = Req[c]
        BY <1>Q, <4>4, <4>5, TailPlaces
      <4> QED BY <1>0, <1>K, <2>1, <2>2, <3>1, <3>2, <4>1, <4>3, <4>4, <4>5, <4>6
    <3>3. CASE Req[d] # Req[c]
      <4>1. tasks[1] # Res[c] /\ calls'[Req[c]] = calls[Req[c]]
        BY <1>T, <3>1, <3>3 DEF Paired
      <4> QED BY <1>0, <1>K, <1>Q, <2>1, <2>2, <4>1
    <3> QED BY <3>2, <3>3
  <2> QED BY <2>3, <2>4
<1>9. CASE CloseSilently \/ UNCHANGED vars
  BY <1>1, <1>9 DEF CloseSilently, vars, envVars, callVars, Line
<1> QED BY <1>2, <1>3, <1>4, <1>5, <1>6, <1>7, <1>8, <1>9 DEF Next, CallSteps, Runner

-----------------------------------------------------------------------------
(* What call_receive() and call_closed() promise on one thread *)

\* One thread's inductive invariant
OneThreadInv ==
  /\ TypeOK /\ CallerInv /\ SubsInv /\ Numbered
  /\ WiredInv /\ TaskInv /\ LineInv /\ QueueInv
  /\ ChecksHold

\* It is inductive: no step fails a check.
LEMMA OneThreadInit == Init => OneThreadInv
BY TypeInit, CallerInit, SubsInit, NumberedInit, WiredInit, TaskInit, LineInit, QueueInit
   DEF OneThreadInv, Init, ChecksHold

\* Each step keeps it.
LEMMA OneThreadStep ==
  ASSUME Threads = 1, Paired, OneThreadInv, [Next]_vars
  PROVE  OneThreadInv'
<1> USE DEF OneThreadInv
<1>1. /\ TypeOK' /\ CallerInv' /\ SubsInv' /\ Numbered'
      /\ WiredInv' /\ TaskInv' /\ LineInv' /\ QueueInv'
  BY TypeStep, CallerStep, SubsStep, NumberedStep, WiredStep, TaskStep, LineStep, QueueStep
<1>2. ChecksHold'
  <2>1. ASSUME NEW i \in 1..Window, RunTask(i) PROVE check' = check
    <3>1. tasks # <<>> /\ IF tasks[1] = Closed THEN CallClosed ELSE CallReceive(tasks[1])
      BY <2>1, FirstRuns
    <3>2. CASE tasks[1] = Closed
      BY <3>1, <3>2 DEF CallClosed
    <3>3. CASE tasks[1] # Closed
      BY <3>1, <3>3, CallerFound
    <3> QED BY <3>2, <3>3
  <2>2. CASE \/ \E c \in Calls : CallSteps(c)
             \/ PeerReply \/ OnReceive \/ OnClosed \/ CloseSilently \/ UNCHANGED vars
    BY <2>2 DEF CallSteps, Send, Sent, Refused, Look, Subscribe, ShowInterest, Register,
                PeerReply, OnReceive, OnClosed, CloseSilently, vars, ChecksHold
  <2> QED BY <2>1, <2>2 DEF Next, Runner, ChecksHold
<1> QED BY <1>1, <1>2

\* On one thread, when every request topic has a response topic of its own, the
\* PLAY_CHECKs of call_receive() never fail: each response finds the caller with the
\* next number, however calls, responses and the close are interleaved.
THEOREM ChecksNeverFail ==
  ASSUME Threads = 1, Paired
  PROVE  Spec => []ChecksHold
<1>1. OneThreadInv /\ [Next]_vars => OneThreadInv'
  BY OneThreadStep
<1>2. OneThreadInv => ChecksHold
  BY DEF OneThreadInv
<1> QED BY OneThreadInit, <1>1, <1>2, PTL DEF Spec

\* The responses that were received when call_closed() runs were handed out before.
LEMMA ErrorStep ==
  ASSUME Threads = 1, Paired, \A c \in Calls : Res[c] \notin AppSubs,
         OneThreadInv, NoFalseError, [Next]_vars
  PROVE  NoFalseError'
<1> USE DEF OneThreadInv
<1> SUFFICES ASSUME NEW c \in Calls, failed'[c] > 0 PROVE c \notin answered'
  BY DEF NoFalseError
<1>0. failed[c] \in Nat /\ (failed[c] > 0 => c \notin answered)
  BY DEF TypeOK, NoFalseError
<1>1. ASSUME NEW d \in Calls, Send(d) PROVE c \notin answered'
  <2>1. pc[d].step = "idle" /\ answered' = answered
    BY <1>1 DEF Send, Sent, Refused
  <2>2. c # d => failed'[c] = failed[c]
    BY <1>1 DEF Send, Sent, Refused, TypeOK
  <2>3. d \notin answered
    BY <2>1 DEF LineInv
  <2> QED BY <1>0, <2>1, <2>2, <2>3
<1>2. CASE OnReceive
  <2>1. PICK h \in Calls : h = Line[1]
    BY <1>2, Received
  <2>2. /\ failed' = failed /\ answered' = answered \union {h} /\ Active = {} /\ notes = 0
        /\ Line \in Seq(Calls) /\ Line # <<>>
    BY <1>2, <2>1, Received
  <2>3. 1 \in 1..Len(Line)
    BY <2>2
  <2>4. Waiting(h)
    BY <2>1, <2>2, <2>3 DEF LineInv
  <2>5. failed[h] = 0
    BY <2>4 DEF CallerInv
  <2> QED BY <1>0, <2>2, <2>5
<1>3. ASSUME NEW i \in 1..Window, RunTask(i) PROVE c \notin answered'
  <2>1. /\ tasks # <<>> /\ answered' = answered
        /\ IF tasks[1] = Closed THEN CallClosed ELSE CallReceive(tasks[1])
    BY <1>3, FirstRuns
  <2>2. CASE tasks[1] # Closed
    <3>1. failed' = failed
      BY <2>1, <2>2 DEF CallReceive
    <3> QED BY <1>0, <2>1, <3>1
  <2>3. CASE tasks[1] = Closed
    <3>1. failed'[c] = IF Waiting(c) THEN failed[c] + 1 ELSE failed[c]
      BY <2>1, <2>3 DEF CallClosed
    <3>2. ASSUME Waiting(c) PROVE c \notin answered
      <4>1. tasks \in Seq(Topics) /\ 1 \in 1..Len(tasks)
        BY <2>1 DEF TypeOK
      <4>2. Len(tasks) = 1
        BY <2>3, <4>1 DEF TaskInv
      <4>3. Due(Res[c]) = {}
        <5>1. Res[c] # Closed
          BY Queues
        <5> QED BY <2>3, <4>2, <5>1 DEF Due
      <4>4. Cardinality(Due(Res[c])) = 0
        BY <4>3, FS_EmptySet
      <4>5. PICK j \in 1..Len(calls[Req[c]].callers) : calls[Req[c]].callers[j] = c
        BY <3>2, OwnQueue
      <4>6. InOrder(calls[Req[c]].callers, 0, Res[c] \notin AppSubs, Line, answered)
        BY <4>4 DEF QueueInv
      <4>7. c \in answered <=> j <= 0
        BY <4>5, <4>6 DEF InOrder
      <4> QED BY <4>7
    <3> QED BY <1>0, <2>1, <3>1, <3>2
  <2> QED BY <2>2, <2>3
<1>4. CASE \/ \E d \in Calls : Look(d) \/ Subscribe(d) \/ ShowInterest(d) \/ Register(d)
           \/ PeerReply \/ OnClosed \/ CloseSilently \/ UNCHANGED vars
  BY <1>0, <1>4 DEF Look, Subscribe, ShowInterest, Register, PeerReply, OnClosed, CloseSilently,
                    vars, envVars
<1> QED BY <1>1, <1>2, <1>3, <1>4 DEF Next, CallSteps, Runner

\* On one thread, when the application has not subscribed to a response topic itself,
\* the error callback is never used for a call whose response was received, although
\* the close may be notified while call_receive() are still posted.
THEOREM NeverFalseError ==
  ASSUME Threads = 1, Paired, \A c \in Calls : Res[c] \notin AppSubs
  PROVE  Spec => []NoFalseError
<1>1. Init => NoFalseError
  BY DEF Init, NoFalseError
<1>2. OneThreadInv /\ NoFalseError /\ [Next]_vars => OneThreadInv' /\ NoFalseError'
  BY OneThreadStep, ErrorStep
<1> QED BY OneThreadInit, <1>1, <1>2, PTL DEF Spec
=============================================================================
