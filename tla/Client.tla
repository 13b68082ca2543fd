------------------------------- MODULE Client -------------------------------
(***************************************************************************)
(* client<Protocol> of play/net: the one session it owns, the connects and *)
(* reconnects of its socket, and an application that connects again when    *)
(* the connection is lost (on_closed_back() of the sample).                 *)
(*                                                                         *)
(* The completion of async_connect captures the client only, so             *)
(* handle_connect() works on whatever session_ is when it runs.  on_closed() *)
(* and connect() change session_ without a lock.  Session models what        *)
(* happens inside a session; here it is connected, lost and notified.        *)
(* PLAY_CHECK only logs, as it does in a build with NDEBUG: check records a  *)
(* failed one of reconnect(), and the client goes on.                        *)
(***************************************************************************)
EXTENDS Naturals, Sequences, FiniteSets

CONSTANTS Threads,         \* runner threads
          MaxSessions,     \* bound: sessions made
          MaxTasks,        \* bound: connect() calls waiting on the runner
          StopRunnerFirst  \* is the runner stopped before close()?

ASSUME ClientAssumption ==
  /\ Threads \in Nat \ {0}
  /\ MaxSessions \in Nat \ {0}
  /\ MaxTasks \in Nat
  /\ StopRunnerFirst \in BOOLEAN

Ids == 1..MaxSessions       \* sessions, in the order they are made
Null == 0                   \* session_ is empty

VARIABLES
  current,      \* session_
  made,         \* sessions made so far
  socket,       \* "closed", "open" (by async_connect) or "connected"
  connects,     \* outstanding async_connects on the session's socket
  completions,  \* completed connects whose handle_connect() has not run
  started,      \* calls of start() of each session
  threw,        \* sessions whose start() threw
  lost,         \* sessions whose peer is gone
  notes,        \* calls of on_closed() begun for each session
  closing,      \* those that have notified and not yet reset session_
  tasks,        \* connect() calls posted to the runner
  app,          \* "new", "running" or "stopped"
  check,        \* "held" until PLAY_CHECK(!session_->is_open()) fails
  fault         \* "none" until session_ is used while empty

sessionVars == <<started, threw, lost, notes, closing>>
vars == <<current, made, socket, connects, completions, sessionVars, tasks, app, check, fault>>

Init ==
  /\ current = Null /\ made = 0
  /\ socket = [i \in Ids |-> "closed"] /\ connects = [i \in Ids |-> 0]
  /\ completions = <<>>
  /\ started = [i \in Ids |-> 0] /\ threw = {} /\ lost = {}
  /\ notes = [i \in Ids |-> 0] /\ closing = {}
  /\ tasks = 0 /\ app = "new" /\ check = "held" /\ fault = "none"

-----------------------------------------------------------------------------
IsOpen(i) == socket[i] # "closed"

\* Mutant: close() while the runner is at work.
RunnerWorksOn == fault = "none"

\* The application does not run on the runner, which may be stopped first.
RunnerWorks == fault = "none" /\ (StopRunnerFirst => app # "stopped")

\* on_closed() keeps its thread from the notification to the reset.
FreeThread == RunnerWorks /\ Cardinality(closing) < Threads

\* Two handlers of one session may both notify when there are two threads.
MaxNotes == IF Threads = 1 THEN 1 ELSE 2

\* The sockets once session_ lets go of its session: a session that was not
\* started has no other owner and is destroyed.
Released == [i \in Ids |-> IF i = current /\ started[i] = 0 THEN "closed" ELSE socket[i]]

-----------------------------------------------------------------------------
(* connect(), close() and their callers. *)

\* A session is made and its socket opened by async_connect.
MakeSession ==
  /\ made < MaxSessions
  /\ made' = made + 1
  /\ current' = made + 1
  /\ socket' = [Released EXCEPT ![made + 1] = "open"]
  /\ connects' = [connects EXCEPT ![made + 1] = @ + 1]

\* Mutant: is_open() is not looked at.
ConnectAlways == MakeSession

\* connect(): refused while the present session is open.
Connect ==
  IF current # Null /\ IsOpen(current)
  THEN UNCHANGED <<current, made, socket, connects>>
  ELSE MakeSession

\* pulse::start()
Begin ==
  /\ app = "new"
  /\ app' = "running"
  /\ Connect
  /\ UNCHANGED <<completions, sessionVars, tasks, check, fault>>

\* The application posts a connect() of its own.
AppPosts ==
  /\ app = "running" /\ fault = "none" /\ tasks < MaxTasks
  /\ tasks' = tasks + 1
  /\ UNCHANGED <<current, made, socket, connects, completions, sessionVars, app, check, fault>>

\* A posted connect() runs: on_closed_back(), or the application's.
RunConnect ==
  /\ FreeThread /\ tasks > 0
  /\ tasks' = tasks - 1
  /\ Connect
  /\ UNCHANGED <<completions, sessionVars, app, check, fault>>

\* pulse::stop(): close() uses session_ unchecked; on_closed() is not called
\* for a session closed here.
Close ==
  /\ app = "running" /\ fault = "none"
  /\ app' = "stopped"
  /\ IF current = Null
     THEN fault' = "close" /\ UNCHANGED <<current, socket>>
     ELSE /\ current' = IF IsOpen(current) THEN Null ELSE current
          /\ socket' = [socket EXCEPT ![current] = "closed"]
          /\ UNCHANGED fault
  /\ UNCHANGED <<made, connects, completions, sessionVars, tasks, check>>

-----------------------------------------------------------------------------
(* The network (external). *)

Completes(i, ec) ==
  /\ connects[i] > 0
  /\ connects' = [connects EXCEPT ![i] = @ - 1]
  /\ completions' = Append(completions, [of |-> i, ec |-> ec])
  /\ UNCHANGED <<current, made, sessionVars, tasks, app, check, fault>>

Accepted(i) ==
  /\ IsOpen(i)
  /\ Completes(i, "ok")
  /\ socket' = [socket EXCEPT ![i] = "connected"]

Refused(i) ==
  /\ IsOpen(i)
  /\ Completes(i, "refused")
  /\ UNCHANGED socket

\* Closing the socket, or destroying the session, aborts its connects.
Aborted(i) ==
  /\ ~IsOpen(i)
  /\ Completes(i, "aborted")
  /\ UNCHANGED socket

\* The peer of a connection goes away (as long as another session can be made).
PeerGone(i) ==
  /\ socket[i] = "connected" /\ i \notin lost /\ made < MaxSessions
  /\ lost' = lost \cup {i}
  /\ UNCHANGED <<current, made, socket, connects, completions, started, threw,
                 notes, closing, tasks, app, check, fault>>

-----------------------------------------------------------------------------
(* handle_connect() *)

\* The first completion is handled; session_ is used unchecked.
Handling ==
  /\ FreeThread /\ completions # <<>>
  /\ completions' = Tail(completions)
  /\ fault' = IF current = Null THEN "connect" ELSE fault
  /\ UNCHANGED <<current, made, lost, notes, closing, tasks, app>>

Succeeded == completions # <<>> /\ Head(completions).ec = "ok"

\* Mutant: session_ is given away.
HandleConnectedMoved ==
  /\ FreeThread /\ Succeeded
  /\ completions' = Tail(completions)
  /\ started' = [i \in Ids |-> IF i = current THEN started[i] + 1 ELSE started[i]]
  /\ current' = Null
  /\ UNCHANGED <<made, socket, connects, threw, lost, notes, closing, tasks, app, check,
                 fault>>

\* Connected: start() the session.
HandleConnected ==
  /\ Handling /\ Succeeded
  /\ started' = [i \in Ids |-> IF i = current THEN started[i] + 1 ELSE started[i]]
  /\ UNCHANGED <<socket, connects, threw, check>>

\* start() throws: the peer is already gone, and no receive is started.
StartThrows ==
  /\ Handling /\ Succeeded
  /\ current \in lost
  /\ threw' = threw \cup {current}
  /\ UNCHANGED <<socket, connects, started, check>>

\* Not connected: reconnect() with the socket of the present session, which the
\* failed async_connect has left open.
HandleFailed ==
  /\ Handling /\ ~Succeeded
  /\ check' = IF current # Null /\ IsOpen(current) THEN "failed" ELSE check
  /\ connects' = [i \in Ids |-> IF i = current THEN connects[i] + 1 ELSE connects[i]]
  /\ socket' = [i \in Ids |-> IF i = current /\ ~IsOpen(i) THEN "open" ELSE socket[i]]
  /\ UNCHANGED <<started, threw>>

-----------------------------------------------------------------------------
(* on_closed() *)

\* Mutant: the listener is not told.
OnClosedUntold(i) ==
  /\ FreeThread
  /\ i \in lost /\ started[i] > 0
  /\ notes[i] < MaxNotes
  /\ socket[i] = "connected" \/ notes[i] > 0
  /\ socket' = [socket EXCEPT ![i] = "closed"]
  /\ notes' = [notes EXCEPT ![i] = @ + 1]
  /\ closing' = closing \cup {<<i, notes[i] + 1>>}
  /\ UNCHANGED <<current, made, connects, completions, started, threw, lost, tasks, app,
                 check, fault>>

\* The session closes and notifies; the application posts connect().
OnClosed(i) ==
  /\ FreeThread
  /\ i \in lost /\ started[i] > 0
  /\ notes[i] < MaxNotes
  /\ socket[i] = "connected" \/ notes[i] > 0
  /\ socket' = [socket EXCEPT ![i] = "closed"]
  /\ notes' = [notes EXCEPT ![i] = @ + 1]
  /\ closing' = closing \cup {<<i, notes[i] + 1>>}
  /\ tasks' = tasks + 1
  /\ UNCHANGED <<current, made, connects, completions, started, threw, lost, app, check,
                 fault>>

\* session_.reset() at its end.
Reset(c) ==
  /\ RunnerWorks /\ c \in closing
  /\ closing' = closing \ {c}
  /\ current' = Null
  /\ socket' = Released
  /\ UNCHANGED <<made, connects, completions, started, threw, lost, notes, tasks, app,
                 check, fault>>

-----------------------------------------------------------------------------
Network(i) == Accepted(i) \/ Refused(i) \/ Aborted(i) \/ PeerGone(i)
HandleConnect == HandleConnected \/ StartThrows \/ HandleFailed

Next ==
  \/ Begin \/ AppPosts \/ RunConnect \/ Close
  \/ HandleConnect
  \/ \E i \in Ids : Network(i) \/ OnClosed(i)
  \/ \E c \in closing : Reset(c)

Spec == Init /\ [][Next]_vars

\* The runner runs what is posted and completed, a started session notices
\* the loss of its peer, and a server that is asked again and again accepts.
Fairness ==
  /\ WF_vars(RunConnect) /\ WF_vars(HandleConnect)
  /\ WF_vars(\E c \in closing : Reset(c))
  /\ \A i \in Ids : WF_vars(OnClosed(i)) /\ WF_vars(Aborted(i)) /\ SF_vars(Accepted(i))

FairSpec == Spec /\ Fairness

-----------------------------------------------------------------------------
(* Properties. *)

TypeOK ==
  /\ current \in Ids \cup {Null} /\ made \in Nat
  /\ socket \in [Ids -> {"closed", "open", "connected"}]
  /\ connects \in [Ids -> Nat]
  /\ completions \in Seq([of : Ids, ec : {"ok", "refused", "aborted"}])
  /\ started \in [Ids -> Nat] /\ threw \subseteq Ids /\ lost \subseteq Ids
  /\ notes \in [Ids -> 0..2] /\ closing \subseteq Ids \X (1..2)
  /\ tasks \in Nat
  /\ app \in {"new", "running", "stopped"}
  /\ check \in {"held", "failed"} /\ fault \in {"none", "close", "connect"}

\* handle_connect() finds a session: the PLAY_CHECK(session_) of reconnect().
SessionPresent == fault # "connect"

\* reconnect() finds the socket closed: its PLAY_CHECK(!session_->is_open()).
\* Refuted: the README says how.
ReconnectsClosed == check = "held"

\* While the runner works a connect, under way or completed, belongs to the
\* present session, so handle_connect() starts the session that connected.
ConnectsCurrent ==
  app # "stopped" =>
    /\ \A i \in Ids : connects[i] > 0 => i = current
    /\ \A k \in 1..Len(completions) : completions[k].of = current

\* A session is started once, when it has connected.
StartedOnce == \A i \in Ids : started[i] <= 1

\* A connection in use is the one get_session() returns.
NoneForgotten ==
  app = "running" => \A i \in Ids : socket[i] = "connected" => i = current

\* A lost connection that was notified is replaced by a started session, unless
\* the application stops or start() throws.  The retries on the way go on only
\* because PLAY_CHECK does: each of them fails ReconnectsClosed.
Restored ==
  \A i \in Ids :
    notes[i] > 0 ~> app = "stopped" \/ threw # {} \/ \E j \in Ids : j > i /\ started[j] > 0

-----------------------------------------------------------------------------
(* Inductive invariants for one runner thread, stopped before close(). *)

\* Sessions not made yet are untouched.
FreshInv ==
  /\ made <= MaxSessions /\ current <= made
  /\ \A i \in Ids : i > made =>
       /\ socket[i] = "closed" /\ connects[i] = 0
       /\ started[i] = 0 /\ notes[i] = 0 /\ i \notin lost
  /\ app = "new" => made = 0 /\ tasks = 0

\* A connect is under way, or its completion waits.
Connecting == completions # <<>> \/ \E i \in Ids : connects[i] > 0

\* While the runner works: there is one connect at most, of a session that is
\* open and not started; on_closed() is about the present session, which is
\* closed.
WorkingInv ==
  /\ fault = "none"
  /\ \A i \in Ids : connects[i] > 0 => i = current /\ connects[i] = 1 /\ completions = <<>>
  /\ completions # <<>> => Len(completions) = 1 /\ completions[1].of = current
  /\ Connecting => current # Null /\ IsOpen(current) /\ started[current] = 0
  /\ \A c \in closing : c[1] = current /\ ~IsOpen(current) /\ ~Connecting
  /\ \A c, d \in closing : c = d
  /\ \A i \in Ids : IsOpen(i) => i = current

ClientInv ==
  /\ FreshInv
  /\ SessionPresent
  /\ StartedOnce
  /\ app # "stopped" => WorkingInv
=============================================================================
