----------------------------- MODULE PulseCall -----------------------------
(***************************************************************************)
(* pulse::call(): a request sent over the session of a child pulse, kept   *)
(* until its response arrives, and answered by its error callback when the *)
(* close of the session is notified first.                                 *)
(*                                                                         *)
(* call() is made on a runner thread, at most Threads of them work at the  *)
(* same time, and takes its locks one after the other: the session's to    *)
(* send, the subscriptions' once to look and twice to subscribe, call_mutex_ *)
(* to register.  Replies and the close arrive through the root's           *)
(* dispatch(), which posts the child's subscribers to the runner.          *)
(***************************************************************************)
EXTENDS Integers, Sequences, FiniteSets, SequencesExt

CONSTANTS Calls,    \* the calls made, each once
          Req,      \* Req[c]: request topic of call c
          Res,      \* Res[c]: response topic of call c
          AppSubs,  \* topics the application subscribed on the child before
          Threads,  \* runner threads
          Strand    \* does the child have a strand (with_strand())?

Closed == "closed"                     \* topic_closed
Reqs   == {Req[c] : c \in Calls}
Topics == {Res[c] : c \in Calls} \cup {Closed}
NoReq  == "none"

ASSUME PulseCallAssumption ==
  /\ Threads \in Nat \ {0}
  /\ IsFiniteSet(Calls)
  /\ Strand \in BOOLEAN
  /\ AppSubs \subseteq Topics
  /\ Closed \notin {Res[c] : c \in Calls}
  /\ NoReq \notin Reqs

VARIABLES
  session,   \* "open" until it is closed, notified or not
  notes,     \* calls of on_closed() so far
  pc,        \* where each call() stands, and on which topic
  subs,      \* call_receive / call_closed subscribers per topic
  interest,  \* topics with an entry for (session_, topic) in the root's interests_
  calls,     \* calls_
  callId,    \* call_id of each registered call
  pairs,     \* call_pairs_
  requests,  \* requests on their way to the peer
  replies,   \* responses on their way back
  tasks,     \* call_receive(topic) and call_closed() posted and not run yet
  answered,  \* history: calls whose response the session received
  failed,    \* history: error callbacks called or posted per call
  check      \* "ok" until a PLAY_CHECK of call_receive() fails

envVars  == <<session, notes, requests, replies, answered>>
subVars  == <<subs, interest>>
callVars == <<calls, callId, pairs>>
vars == <<envVars, pc, subVars, callVars, tasks, failed, check>>

Step == {"idle", "check", "push", "show", "register", "done"}
TopicCalls == [known : {"no", "yes"}, call_index : Nat, reply_index : Nat,
               callers : Seq(Calls)]
Empty == [known |-> "no", call_index |-> 0, reply_index |-> 0, callers |-> <<>>]

Init ==
  /\ session = "open" /\ notes = 0
  /\ pc = [c \in Calls |-> [step |-> "idle", on |-> Closed]]
  /\ subs = [t \in Topics |-> 0] /\ interest = AppSubs
  /\ calls = [r \in Reqs |-> Empty]
  /\ callId = [c \in Calls |-> 0]
  /\ pairs = [t \in Topics |-> NoReq]
  /\ requests = <<>> /\ replies = <<>> /\ tasks = <<>>
  /\ answered = {} /\ failed = [c \in Calls |-> 0] /\ check = "ok"

-----------------------------------------------------------------------------
Active == {c \in Calls : pc[c].step \notin {"idle", "done"}}
Busy == Cardinality(Active)
FreeThread == Busy < Threads /\ check = "ok"

At(c, s, t) == pc' = [pc EXCEPT ![c] = [step |-> s, on |-> t]]

\* has_subscription(): the application's own subscriptions count too.
HasSubscription(t) == subs[t] > 0 \/ t \in AppSubs

\* What dispatch(session_, t) at the root posts: every subscriber the child
\* has for t, provided the child has shown interest.
Posted(t) == IF t \in interest THEN [i \in 1..subs[t] |-> t] ELSE <<>>

-----------------------------------------------------------------------------
(* call() *)

\* send() answers: the request is on its way and call() goes on with topic t ...
Sent(c, t) ==
  /\ session = "open"
  /\ requests' = Append(requests, c)
  /\ At(c, "check", t)
  /\ UNCHANGED <<session, failed>>

\* ... or it returns false, and call() uses the callback: the session is closed,
\* the message is too large, or encode() throws, which closes the session.
Refused(c) ==
  /\ failed' = [failed EXCEPT ![c] = @ + 1]
  /\ At(c, "done", Closed)
  /\ session' \in {session, "closed"}
  /\ UNCHANGED requests

\* Mutant: call_subscribe_closed() forgotten.
SendReplyOnly(c) ==
  /\ pc[c].step = "idle" /\ FreeThread
  /\ Sent(c, Res[c]) \/ Refused(c)
  /\ UNCHANGED <<notes, replies, answered, subVars, callVars, tasks, check>>

\* Mutant: the callback, and the registration all the same.
SendFailsThrough(c) ==
  /\ pc[c].step = "idle" /\ FreeThread
  /\ \/ Sent(c, Closed)
     \/ /\ failed' = [failed EXCEPT ![c] = @ + 1]
        /\ At(c, "check", Closed)
        /\ UNCHANGED <<session, requests>>
  /\ UNCHANGED <<notes, replies, answered, subVars, callVars, tasks, check>>

\* pulse_fb::call(): send first.
Send(c) ==
  /\ pc[c].step = "idle" /\ FreeThread
  /\ Sent(c, Closed) \/ Refused(c)
  /\ UNCHANGED <<notes, replies, answered, subVars, callVars, tasks, check>>

\* call_subscribe_closed() and then call_subscribe_reply(): look ...
Look(c) ==
  LET t == pc[c].on
  IN  /\ pc[c].step = "check"
      /\ IF ~HasSubscription(t) THEN At(c, "push", t)
         ELSE IF t = Closed THEN At(c, "check", Res[c]) ELSE At(c, "register", t)
      /\ UNCHANGED <<envVars, subVars, callVars, tasks, failed, check>>

\* ... then subscribe(): the child's subscriptions_ ...
Subscribe(c) ==
  LET t == pc[c].on
  IN  /\ pc[c].step = "push"
      /\ subs' = [subs EXCEPT ![t] = @ + 1]
      /\ At(c, "show", t)
      /\ UNCHANGED <<envVars, interest, callVars, tasks, failed, check>>

\* ... and show_interest() at the root.
ShowInterest(c) ==
  LET t == pc[c].on
  IN  /\ pc[c].step = "show"
      /\ interest' = interest \cup {t}
      /\ IF t = Closed THEN At(c, "check", Res[c]) ELSE At(c, "register", t)
      /\ UNCHANGED <<envVars, subs, callVars, tasks, failed, check>>

\* The caller joins the queue of its request topic, under call_mutex_.
Register(c) ==
  LET r == Req[c]
  IN  /\ pc[c].step = "register"
      /\ calls' = [calls EXCEPT ![r] =
                     [known |-> "yes",
                      call_index |-> @.call_index + 1,
                      reply_index |-> @.reply_index,
                      callers |-> Append(@.callers, c)]]
      /\ callId' = [callId EXCEPT ![c] = calls[r].call_index + 1]
      /\ pairs' = [pairs EXCEPT ![Res[c]] = r]
      /\ At(c, "done", Closed)
      /\ UNCHANGED <<envVars, subVars, tasks, failed, check>>

-----------------------------------------------------------------------------
(* The peer and the session (external here; Session models the latter). *)

\* The peer answers the requests in order while the connection lasts.
PeerReply ==
  /\ session = "open" /\ requests # <<>>
  /\ requests' = Tail(requests)
  /\ replies' = Append(replies, Head(requests))
  /\ UNCHANGED <<session, notes, answered, pc, subVars, callVars, tasks, failed, check>>

\* on_receive() of a response: dispatch() posts the subscribers it finds.  What
\* was received before a silent close is handled after it; after handle_close()
\* only a recv_frames() on another thread goes on.
OnReceive ==
  /\ FreeThread /\ replies # <<>>
  /\ notes = 0 \/ Threads > 1
  /\ replies' = Tail(replies)
  /\ answered' = answered \cup {Head(replies)}
  /\ tasks' = tasks \o Posted(Res[Head(replies)])
  /\ UNCHANGED <<session, notes, requests, pc, subVars, callVars, failed, check>>

\* handle_close() finds the session open, closes it and calls on_closed(); when
\* two threads run the session's handlers both may have found it open.
OnClosed ==
  /\ FreeThread
  /\ session = "open" \/ Threads > 1
  /\ notes < 2
  /\ session' = "closed"
  /\ notes' = notes + 1
  /\ tasks' = tasks \o Posted(Closed)
  /\ UNCHANGED <<requests, replies, answered, pc, subVars, callVars, failed, check>>

\* close() of the application, of recv_frames() after an exception, or of a send()
\* whose encode() throws: handle_close() finds the session closed and is silent.
CloseSilently ==
  /\ session = "open"
  /\ session' = "closed"
  /\ UNCHANGED <<notes, requests, replies, answered, pc, subVars, callVars, tasks, failed,
                 check>>

-----------------------------------------------------------------------------
(* What was posted runs: in order on a strand or a single thread, otherwise *)
(* every other thread may hold back one task.                               *)

Window == IF Strand THEN 1 ELSE Threads - Busy

\* Mutant: the number is compared before it is advanced.
CallReceiveLateIndex(t) ==
  LET r == pairs[t]
  IN  /\ IF r = NoReq \/ calls[r].known = "no" THEN UNCHANGED <<calls, check>>
         ELSE IF calls[r].callers = <<>>
         THEN check' = "empty" /\ UNCHANGED calls
         ELSE /\ calls' = [calls EXCEPT ![r] =
                             [known |-> "yes",
                              call_index |-> @.call_index,
                              reply_index |-> @.reply_index + 1,
                              callers |-> Tail(@.callers)]]
              /\ check' = IF callId[Head(calls[r].callers)] = calls[r].reply_index
                          THEN check ELSE "index"
      /\ UNCHANGED <<callId, pairs, failed>>

\* Mutant: the pair is looked up by the request, and never found.
CallReceiveUnpaired(t) == UNCHANGED <<callVars, failed, check>>

\* call_receive(): the oldest caller of the paired request is answered.
CallReceive(t) ==
  LET r == pairs[t]
  IN  /\ IF r = NoReq \/ calls[r].known = "no" THEN UNCHANGED <<calls, check>>
         ELSE IF calls[r].callers = <<>>
         THEN check' = "empty" /\ UNCHANGED calls
         ELSE /\ calls' = [calls EXCEPT ![r] =
                             [known |-> "yes",
                              call_index |-> @.call_index,
                              reply_index |-> @.reply_index + 1,
                              callers |-> Tail(@.callers)]]
              /\ check' = IF callId[Head(calls[r].callers)] = calls[r].reply_index + 1
                          THEN check ELSE "index"
      /\ UNCHANGED <<callId, pairs, failed>>

Waiting(c) == \E r \in Reqs : \E i \in 1..Len(calls[r].callers) : calls[r].callers[i] = c

\* call_closed(): every caller's callback is posted and calls_ is cleared;
\* call_pairs_ stays.
CallClosed ==
  /\ failed' = [c \in Calls |-> IF Waiting(c) THEN failed[c] + 1 ELSE failed[c]]
  /\ calls' = [r \in Reqs |-> Empty]
  /\ UNCHANGED <<callId, pairs, check>>

RunTask(i) ==
  /\ FreeThread /\ i <= Len(tasks)
  /\ IF tasks[i] = Closed THEN CallClosed ELSE CallReceive(tasks[i])
  /\ tasks' = RemoveAt(tasks, i)
  /\ UNCHANGED <<envVars, pc, subVars>>

-----------------------------------------------------------------------------
CallSteps(c) == Send(c) \/ Look(c) \/ Subscribe(c) \/ ShowInterest(c) \/ Register(c)
Runner == \E i \in 1..Window : RunTask(i)

Next ==
  \/ \E c \in Calls : CallSteps(c)
  \/ PeerReply \/ OnReceive \/ OnClosed \/ CloseSilently
  \/ Runner

Spec == Init /\ [][Next]_vars

\* A call that was begun is carried through and posted work is done; nobody
\* has to call, to answer or to close.
Fairness ==
  /\ \A c \in Calls : WF_vars(Look(c) \/ Subscribe(c) \/ ShowInterest(c) \/ Register(c))
  /\ WF_vars(Runner)

FairSpec == Spec /\ Fairness

-----------------------------------------------------------------------------
(* Properties. *)

TypeOK ==
  /\ session \in {"open", "closed"} /\ notes \in 0..2
  /\ pc \in [Calls -> [step : Step, on : Topics]]
  /\ subs \in [Topics -> Nat] /\ interest \subseteq Topics
  /\ calls \in [Reqs -> TopicCalls]
  /\ callId \in [Calls -> Nat] /\ pairs \in [Topics -> Reqs \cup {NoReq}]
  /\ requests \in Seq(Calls) /\ replies \in Seq(Calls) /\ tasks \in Seq(Topics)
  /\ answered \subseteq Calls /\ failed \in [Calls -> Nat]
  /\ check \in {"ok", "empty", "index"}

\* The error callback of a call is used at most once, however often the
\* close is notified and however many call_closed() were subscribed.
FailedOnce == \A c \in Calls : failed[c] <= 1

\* However many calls share a topic, it gets one call_receive() (one
\* call_closed()) per thread at most: a lost race of look and subscribe()
\* is the only way to a second one, which would answer a caller too many.
SubscribedOncePerThread == \A t \in Topics : subs[t] <= Threads

\* The numbering call_receive() checks: a topic's callers carry the numbers
\* after reply_index up to call_index.
Numbered ==
  \A r \in Reqs :
    /\ calls[r].call_index = calls[r].reply_index + Len(calls[r].callers)
    /\ \A i \in 1..Len(calls[r].callers) :
         callId[calls[r].callers[i]] = calls[r].reply_index + i

\* The checks of call_receive() hold: a response finds a caller, and it is
\* the one with the next number.
ChecksHold == check = "ok"

\* The error callback is never used for a call whose response was received.
NoFalseError == \A c \in Calls : failed[c] > 0 => c \notin answered

\* A call that was made is answered or, once the close of the session was
\* notified, reported.
Settled ==
  \A c \in Calls : pc[c].step # "idle" /\ notes > 0 ~> c \in answered \/ failed[c] > 0

\* The same of a session that is closed, notified or not.
\* Refuted: the README says how.
ReportedWhenClosed ==
  \A c \in Calls :
    pc[c].step # "idle" /\ session = "closed" ~> c \in answered \/ failed[c] > 0

-----------------------------------------------------------------------------
(* Inductive invariants. *)

\* A call is registered once, after its last other step, and its callback is
\* used only by a call that is not registered any more.
CallerInv ==
  \A c \in Calls :
    /\ pc[c].step # "done" => ~Waiting(c) /\ failed[c] = 0
    /\ Waiting(c) => failed[c] = 0
    /\ failed[c] <= 1

\* Who is about to subscribe to t found no subscription.
Pushing(t) == {c \in Calls : pc[c].step = "push" /\ pc[c].on = t}

SubsInv ==
  /\ Cardinality(Active) <= Threads
  /\ \A t \in Topics : subs[t] + Cardinality(Pushing(t)) <= Threads

-----------------------------------------------------------------------------
(* Inductive invariants for a runner of one thread, on which a call() is not  *)
(* interrupted.                                                               *)

\* The calls whose response was not received yet, in the order they were sent
Line == replies \o requests

\* Where the call_receive() of t stand that were posted
Due(t) == {i \in 1..Len(tasks) : tasks[i] = t}

\* A response of topic t is posted, unless the application has subscribed to t.
Wired(t) == t \in AppSubs \/ (subs[t] > 0 /\ t \in interest)

\* A caller waits only for a response that is posted, and is found by its topic.
WiredInv ==
  /\ \A t \in Topics :
       /\ subs[t] > 0 =>
            /\ t \notin AppSubs
            /\ t \in interest \/ \E c \in Calls : pc[c].step = "show" /\ pc[c].on = t
       /\ pairs[t] # NoReq => \E c \in Calls : Res[c] = t /\ Req[c] = pairs[t]
  /\ \A c \in Calls :
       /\ pc[c].on \in {Closed, Res[c]}
       /\ pc[c].step \in {"push", "show"} => pc[c].on \notin AppSubs
       /\ pc[c].step = "show" => subs[pc[c].on] > 0
       /\ pc[c].step = "register" => pc[c].on = Res[c] /\ Wired(Res[c])
       /\ Waiting(c) => Wired(Res[c]) /\ pairs[Res[c]] = Req[c]

\* A call_closed() is the last that is posted.
TaskInv ==
  /\ notes > 0 => session = "closed"
  /\ \A i \in 1..Len(tasks) :
       /\ tasks[i] \notin AppSubs
       /\ tasks[i] = Closed => i = Len(tasks) /\ notes > 0

\* Each call is in the line once, and waits, or is the last and still registers.
LineInv ==
  /\ \A a, b \in 1..Len(Line) : Line[a] = Line[b] => a = b
  /\ \A a \in 1..Len(Line) :
       /\ Line[a] \notin answered /\ pc[Line[a]].step # "idle"
       /\ notes = 0 => Waiting(Line[a]) \/ Line[a] \in Active
  /\ \A c \in Active : notes = 0 /\ Line # <<>> /\ Line[Len(Line)] = c
  /\ \A c \in answered : pc[c].step # "idle"

\* The callers in q stand in the order of the line l; the first n of them, as many as
\* call_receive() are posted, are those whose response was received.
InOrder(q, n, posted, l, A) ==
  /\ n <= Len(q)
  /\ \A i \in 1..Len(q) :
       /\ q[i] \in A \/ \E a \in 1..Len(l) : l[a] = q[i]
       /\ posted => (q[i] \in A <=> i <= n)
  /\ \A i, j \in 1..Len(q), a, b \in 1..Len(l) : i < j /\ l[a] = q[i] /\ l[b] = q[j] => a < b

\* The callers of a request topic made that request, and stand in order.
QueueInv ==
  \A c \in Calls :
    LET q == calls[Req[c]].callers
    IN  /\ InOrder(q, Cardinality(Due(Res[c])), Res[c] \notin AppSubs, Line, answered)
        /\ q # <<>> => calls[Req[c]].known = "yes"
        /\ \A i \in 1..Len(q) : Req[q[i]] = Req[c]
=============================================================================
