------------------------------- MODULE Server -------------------------------
(***************************************************************************)
(* server<Protocol> of play/net: the accept loop, the map sessions_, and   *)
(* what the pulse bound to the server is told of its sessions.             *)
(*                                                                         *)
(* handle_accept() runs as the steps between which other runner threads    *)
(* can work: the insertion under mutex_, start() of the session, its       *)
(* notification, and the next start_accept().  A session is identified by  *)
(* its handle_, the descriptor of its socket, which the kernel gives to    *)
(* another connection once the socket is closed.  Session models what      *)
(* happens inside a session.                                               *)
(***************************************************************************)
EXTENDS Naturals, FiniteSets

CONSTANTS Threads,         \* runner threads
          MaxSessions,     \* bound: sessions made by start_accept()
          MaxConns,        \* bound: connections of clients
          MaxErrors,       \* bound: accepts that fail
          Fds,             \* descriptors the kernel hands out
          StopRunnerFirst  \* is the runner stopped before stop()?

ASSUME ServerAssumption ==
  /\ Threads \in Nat \ {0}
  /\ MaxSessions \in Nat \ {0}
  /\ MaxConns \in Nat /\ MaxErrors \in Nat
  /\ Fds \subseteq Nat \ {0}
  /\ StopRunnerFirst \in BOOLEAN

Ids == 1..MaxSessions    \* sessions, in the order they are made
Null == 0                \* no session; the handle_ of a session not started;
                         \* the descriptor of a closed socket
Keys == Fds \cup {Null}

VARIABLES
  acceptor,  \* "none", "listening" or "failed" (open, bind or listen threw)
  backlog,   \* connections the kernel holds for the acceptor
  conns,     \* connections made so far
  errors,    \* accepts failed so far
  made,      \* sessions made so far
  stage,     \* where each session stands in the accept loop
  fd,        \* the descriptor of its socket
  handle,    \* its handle_
  sessions,  \* sessions_
  known,     \* what the pulse was told last: "no", "up" or "down"
  lost,      \* sessions whose peer is gone
  silent,    \* sessions closed without on_closed()
  closing,   \* sessions whose socket is closed and on_closed() not done
  app,       \* "new", "running" or "stopped"
  fault      \* "none" until acceptor_ is used while empty

loopVars == <<acceptor, made, stage>>
netVars  == <<backlog, conns, errors>>
toldVars == <<sessions, known>>
vars == <<loopVars, netVars, fd, handle, toldVars, lost, silent, closing, app, fault>>

Stage == {"none", "waiting", "ok", "error",   \* not made, async_accept, its result
          "start", "notify", "again",         \* handle_accept() on a thread
          "done", "threw"}                    \* left, or left by an exception
Looping == {"waiting", "ok", "error", "start", "notify", "again"}

Init ==
  /\ acceptor = "none" /\ backlog = 0 /\ conns = 0 /\ errors = 0 /\ made = 0
  /\ stage = [i \in Ids |-> "none"]
  /\ fd = [i \in Ids |-> Null] /\ handle = [i \in Ids |-> Null]
  /\ sessions = [h \in Keys |-> Null]
  /\ known = [i \in Ids |-> "no"]
  /\ lost = {} /\ silent = {} /\ closing = {}
  /\ app = "new" /\ fault = "none"

-----------------------------------------------------------------------------
IsOpen(i) == fd[i] # Null

Handling == {i \in Ids : stage[i] \in {"start", "notify", "again"}}
Busy == Cardinality(Handling) + Cardinality(closing)

\* Mutant: stop() while the runner is at work.
RunnerWorksOn == fault = "none"

\* app::stop() stops the runner first, and joins its threads.
RunnerWorks == fault = "none" /\ (StopRunnerFirst => app # "stopped")

FreeThread == RunnerWorks /\ Busy < Threads

To(i, s) == stage' = [stage EXCEPT ![i] = s]

-----------------------------------------------------------------------------
(* start(), stop() and the accept loop. *)

\* start_accept() with the stages s: acceptor_ is used unchecked.
StartAccept(s) ==
  IF acceptor = "listening"
  THEN /\ made < MaxSessions
       /\ made' = made + 1
       /\ stage' = [s EXCEPT ![made + 1] = "waiting"]
       /\ UNCHANGED fault
  ELSE /\ fault' = "accept" /\ stage' = s
       /\ UNCHANGED made

\* start(): listen, and the first start_accept().
Start ==
  /\ app = "new" /\ app' = "running"
  /\ acceptor' = "listening"
  /\ made' = 1 /\ To(1, "waiting")
  /\ UNCHANGED <<netVars, fd, handle, toldVars, lost, silent, closing, fault>>

\* start(): open, bind or listen throws; acceptor_ stays as it is.
StartFails ==
  /\ app = "new" /\ app' = "running"
  /\ acceptor' = "failed"
  /\ UNCHANGED <<made, stage, netVars, fd, handle, toldVars, lost, silent, closing, fault>>

\* stop(): the acceptor goes, and its async_accept is aborted.
Stop ==
  /\ app = "running" /\ app' = "stopped"
  /\ acceptor' = "none"
  /\ stage' = [i \in Ids |-> IF stage[i] = "waiting" THEN "error" ELSE stage[i]]
  /\ UNCHANGED <<made, netVars, fd, handle, toldVars, lost, silent, closing, fault>>

\* handle_accept(): insert() leaves an entry with the same key alone, and the
\* key is the handle_ of a session that was not started.
HandleAccept(i) ==
  /\ FreeThread /\ stage[i] = "ok"
  /\ sessions' = [sessions EXCEPT ![handle[i]] = IF @ = Null THEN i ELSE @]
  /\ To(i, "start")
  /\ UNCHANGED <<acceptor, made, netVars, fd, handle, known, lost, silent, closing, app, fault>>

\* handle_accept() with an error: accept again.
HandleAcceptError(i) ==
  /\ FreeThread /\ stage[i] = "error"
  /\ StartAccept([stage EXCEPT ![i] = "done"])
  /\ UNCHANGED <<acceptor, netVars, fd, handle, toldVars, lost, silent, closing, app>>

\* session::start(): the handle is known and the receive is armed; without a
\* handshake on_established() is next.
StartSession(i) ==
  /\ RunnerWorks /\ stage[i] = "start"
  /\ handle' = [handle EXCEPT ![i] = fd[i]]
  /\ To(i, "notify") \/ To(i, "again")
  /\ UNCHANGED <<acceptor, made, netVars, fd, toldVars, lost, silent, closing, app, fault>>

\* session::start() throws: the peer is already gone.  handle_accept() is left
\* before start_accept(), and a session that is not in the map is destroyed.
StartThrows(i) ==
  /\ RunnerWorks /\ stage[i] = "start" /\ i \in lost
  /\ handle' = [handle EXCEPT ![i] = fd[i]]
  /\ fd' = [fd EXCEPT ![i] = IF \E h \in Keys : sessions[h] = i THEN @ ELSE Null]
  /\ To(i, "threw")
  /\ UNCHANGED <<acceptor, made, netVars, toldVars, lost, silent, closing, app, fault>>

\* on_established(), called by session::start()
OnEstablished(i) ==
  /\ RunnerWorks /\ stage[i] = "notify"
  /\ known' = [known EXCEPT ![i] = "up"]
  /\ To(i, "again")
  /\ UNCHANGED <<acceptor, made, netVars, fd, handle, sessions, lost, silent, closing, app, fault>>

\* Mutant: a second accept is kept outstanding.
AcceptAgainTwice(i) ==
  /\ RunnerWorks /\ stage[i] = "again"
  /\ made + 1 < MaxSessions
  /\ made' = made + 2
  /\ stage' = [stage EXCEPT ![i] = "done", ![made + 1] = "waiting", ![made + 2] = "waiting"]
  /\ UNCHANGED <<acceptor, netVars, fd, handle, toldVars, lost, silent, closing, app, fault>>

\* Mutant: the next accept waits for the end of the session.
AcceptAgainLater(i) ==
  /\ RunnerWorks /\ stage[i] = "again" /\ ~IsOpen(i)
  /\ StartAccept([stage EXCEPT ![i] = "done"])
  /\ UNCHANGED <<acceptor, netVars, fd, handle, toldVars, lost, silent, closing, app>>

\* The end of handle_accept().
AcceptAgain(i) ==
  /\ RunnerWorks /\ stage[i] = "again"
  /\ StartAccept([stage EXCEPT ![i] = "done"])
  /\ UNCHANGED <<acceptor, netVars, fd, handle, toldVars, lost, silent, closing, app>>

-----------------------------------------------------------------------------
(* Handlers of started sessions (see Session). *)

Started(i) == stage[i] \in {"notify", "again", "done"} /\ IsOpen(i)

\* on_established() at the end of a handshake.
OnHandshaken(i) ==
  /\ FreeThread /\ Started(i) /\ stage[i] # "notify" /\ known[i] = "no"
  /\ known' = [known EXCEPT ![i] = "up"]
  /\ UNCHANGED <<loopVars, netVars, fd, handle, sessions, lost, silent, closing, app, fault>>

\* handle_close(): the socket is closed; on_closed() is next.
HandleClose(i) ==
  /\ FreeThread /\ Started(i) /\ i \in lost
  /\ fd' = [fd EXCEPT ![i] = Null]
  /\ closing' = closing \cup {i}
  /\ UNCHANGED <<loopVars, netVars, handle, toldVars, lost, silent, app, fault>>

\* Mutant: the pulse is told only of sessions in the map.
OnClosedIfFound(i) ==
  /\ RunnerWorks /\ i \in closing
  /\ closing' = closing \ {i}
  /\ sessions' = [sessions EXCEPT ![handle[i]] = Null]
  /\ known' = IF sessions[handle[i]] = i THEN [known EXCEPT ![i] = "down"] ELSE known
  /\ UNCHANGED <<loopVars, netVars, fd, handle, lost, silent, app, fault>>

\* on_closed(): erase by handle, and tell the pulse.
OnClosed(i) ==
  /\ RunnerWorks /\ i \in closing
  /\ closing' = closing \ {i}
  /\ sessions' = [sessions EXCEPT ![handle[i]] = Null]
  /\ known' = [known EXCEPT ![i] = "down"]
  /\ UNCHANGED <<loopVars, netVars, fd, handle, lost, silent, app, fault>>

\* recv_frames() closes the session on a bad frame; no handler is told.
CloseSilently(i) ==
  /\ FreeThread /\ Started(i) /\ known[i] = "up"
  /\ fd' = [fd EXCEPT ![i] = Null]
  /\ silent' = silent \cup {i}
  /\ UNCHANGED <<loopVars, netVars, handle, toldVars, lost, closing, app, fault>>

-----------------------------------------------------------------------------
(* The kernel and the clients (external). *)

Connect ==
  /\ acceptor = "listening" /\ conns < MaxConns
  /\ conns' = conns + 1 /\ backlog' = backlog + 1
  /\ UNCHANGED <<errors, loopVars, fd, handle, toldVars, lost, silent, closing, app, fault>>

\* The descriptor of a connection is one no open socket has.
Accepted(i) ==
  /\ stage[i] = "waiting" /\ backlog > 0
  /\ backlog' = backlog - 1
  /\ \E f \in Fds \ {fd[j] : j \in Ids} : fd' = [fd EXCEPT ![i] = f]
  /\ To(i, "ok")
  /\ UNCHANGED <<acceptor, made, conns, errors, handle, toldVars, lost, silent, closing, app, fault>>

AcceptFails(i) ==
  /\ stage[i] = "waiting" /\ errors < MaxErrors
  /\ errors' = errors + 1
  /\ To(i, "error")
  /\ UNCHANGED <<acceptor, made, backlog, conns, fd, handle, toldVars, lost, silent, closing,
                 app, fault>>

PeerGone(i) ==
  /\ IsOpen(i) /\ i \notin lost
  /\ lost' = lost \cup {i}
  /\ UNCHANGED <<loopVars, netVars, fd, handle, toldVars, silent, closing, app, fault>>

-----------------------------------------------------------------------------
AcceptSteps(i) ==
  \/ HandleAccept(i) \/ HandleAcceptError(i)
  \/ StartSession(i) \/ StartThrows(i) \/ OnEstablished(i) \/ AcceptAgain(i)
SessionSteps(i) == OnHandshaken(i) \/ HandleClose(i) \/ OnClosed(i) \/ CloseSilently(i)
Network(i) == Accepted(i) \/ AcceptFails(i) \/ PeerGone(i)

Next ==
  \/ Start \/ StartFails \/ Stop \/ Connect
  \/ \E i \in Ids : AcceptSteps(i) \/ SessionSteps(i) \/ Network(i)

Spec == Init /\ [][Next]_vars

\* The runner serves its completions and finishes what it began, and the
\* kernel accepts what is connected.
Fairness ==
  \A i \in Ids : WF_vars(AcceptSteps(i)) /\ WF_vars(OnClosed(i)) /\ WF_vars(HandleClose(i))
                 /\ WF_vars(Accepted(i))

FairSpec == Spec /\ Fairness

-----------------------------------------------------------------------------
(* Properties. *)

TypeOK ==
  /\ acceptor \in {"none", "listening", "failed"}
  /\ backlog \in Nat /\ conns \in Nat /\ errors \in Nat /\ made \in 0..MaxSessions
  /\ stage \in [Ids -> Stage]
  /\ fd \in [Ids -> Keys] /\ handle \in [Ids -> Keys]
  /\ sessions \in [Keys -> Ids \cup {Null}]
  /\ known \in [Ids -> {"no", "up", "down"}]
  /\ lost \subseteq Ids /\ silent \subseteq Ids /\ closing \subseteq Ids
  /\ app \in {"new", "running", "stopped"} /\ fault \in {"none", "accept"}

\* handle_accept() never calls start_accept() after stop() took acceptor_ away.
AcceptorPresent == fault = "none"

\* A listening server has exactly one accept outstanding or being handled,
\* unless start() of a session threw.
OneAccept ==
  acceptor = "listening" /\ (\A i \in Ids : stage[i] # "threw") =>
    \E i \in Ids : \A j \in Ids : stage[j] \in Looping <=> j = i

\* Two sessions the pulse takes for established never have one handle, unless
\* one was closed without on_closed().
HandlesDistinct ==
  \A i, j \in Ids :
    known[i] = "up" /\ known[j] = "up" /\ handle[i] = handle[j] /\ i # j =>
      i \in silent \/ j \in silent

\* A session whose on_closed() was called is out of sessions_.
\* Refuted: the README says how.
ClosedRemoved == \A i \in Ids : known[i] = "down" => \A h \in Keys : sessions[h] # i

\* Every connection is accepted, unless the server stops or start() of a
\* session throws.
Served ==
  \A n \in 1..MaxConns :
    conns >= n ~> \/ conns - backlog >= n \/ app = "stopped"
                  \/ \E i \in Ids : stage[i] = "threw"

-----------------------------------------------------------------------------
(* Inductive invariants. *)

\* The loop begins with start(), which lists no session twice; without an
\* acceptor nothing loops before stop().
LoopInv ==
  /\ \A i \in Ids : i > made => stage[i] = "none"
  /\ app # "stopped" /\ acceptor # "listening" => \A i \in Ids : stage[i] = "none"
  /\ app = "new" => acceptor = "none"
  /\ OneAccept

\* One runner thread: what a session's stage says of its socket, its handle and
\* what was told of it.
PhaseInv ==
  \A i \in Ids :
    /\ stage[i] \in {"none", "waiting", "error"} => ~IsOpen(i)
    /\ stage[i] \in {"ok", "start", "notify"} => IsOpen(i)
    /\ stage[i] \in {"notify", "again", "done"} /\ IsOpen(i) => handle[i] = fd[i]
    /\ known[i] # "no" => stage[i] \in {"again", "done"}
    /\ i \in closing => stage[i] = "done" /\ ~IsOpen(i)
    /\ known[i] = "up" /\ i \notin silent /\ i \notin closing => IsOpen(i)

\* Open sockets have different descriptors, and one session at most is in the
\* hands of the thread.
FdsDistinct == \A i, j \in Ids : IsOpen(i) /\ fd[i] = fd[j] => i = j
Exclusive == \A i, j \in Handling \cup closing : i = j

HandleInv == PhaseInv /\ FdsDistinct /\ Exclusive /\ HandlesDistinct
=============================================================================
