---------------------------- MODULE ClientProofs ----------------------------
(***************************************************************************)
(* Theorems about Client for any number of sessions and posted connects:   *)
(* its types for any number of threads, and the bond between session_ and  *)
(* the connect under way for one runner thread that is stopped first.      *)
(***************************************************************************)
EXTENDS Client, FiniteSetTheorems, TLAPS

\* Sessions are numbered from 1; 0 is the empty session_.
LEMMA IdsType == Ids \subseteq Nat \ {0} /\ Null \notin Ids
BY ClientAssumption DEF Ids, Null

-----------------------------------------------------------------------------
(* Types. *)

\* The types hold before start().
LEMMA TypeInit == Init => TypeOK
BY DEF Init, TypeOK, Null

\* Letting go of a session keeps the type of the sockets.
LEMMA ReleasedType ==
  ASSUME TypeOK
  PROVE  Released \in [Ids -> {"closed", "open", "connected"}]
BY DEF TypeOK, Released

\* connect() keeps the types of what it changes.
LEMMA ConnectType ==
  ASSUME TypeOK, Connect
  PROVE  /\ current' \in Ids \cup {Null} /\ made' \in Nat
         /\ socket' \in [Ids -> {"closed", "open", "connected"}]
         /\ connects' \in [Ids -> Nat]
<1>1. CASE UNCHANGED <<current, made, socket, connects>>
  BY <1>1 DEF TypeOK
<1>2. CASE MakeSession
  <2>1. made + 1 \in Ids
    BY <1>2, ClientAssumption DEF MakeSession, TypeOK, Ids
  <2> QED BY <1>2, <2>1, ReleasedType DEF MakeSession, TypeOK
<1> QED BY <1>1, <1>2 DEF Connect

\* Every step keeps the types.
LEMMA TypeStep ==
  ASSUME TypeOK, [Next]_vars
  PROVE  TypeOK'
<1>1. CASE Begin
  BY <1>1, ConnectType DEF Begin, TypeOK, sessionVars
<1>2. CASE AppPosts
  BY <1>2 DEF AppPosts, TypeOK, sessionVars
<1>3. CASE RunConnect
  <2>1. tasks' \in Nat
    BY <1>3 DEF RunConnect, TypeOK
  <2> QED BY <1>3, <2>1, ConnectType DEF RunConnect, TypeOK, sessionVars
<1>4. CASE Close
  BY <1>4 DEF Close, TypeOK, sessionVars
<1>5. ASSUME Handling
      PROVE  /\ completions' \in Seq([of : Ids, ec : {"ok", "refused", "aborted"}])
             /\ fault' \in {"none", "close", "connect"}
  BY <1>5 DEF Handling, TypeOK
<1>6. CASE HandleConnected
  BY <1>5, <1>6 DEF HandleConnected, Handling, TypeOK
<1>7. CASE StartThrows
  BY <1>5, <1>7 DEF StartThrows, Handling, TypeOK
<1>8. CASE HandleFailed
  BY <1>5, <1>8 DEF HandleFailed, Handling, TypeOK
<1>9. ASSUME NEW i \in Ids, NEW ec \in {"ok", "refused", "aborted"}, Completes(i, ec)
      PROVE  /\ connects' \in [Ids -> Nat]
             /\ completions' \in Seq([of : Ids, ec : {"ok", "refused", "aborted"}])
  BY <1>9 DEF Completes, TypeOK
<1>10. ASSUME NEW i \in Ids, Accepted(i) PROVE TypeOK'
  BY <1>9, <1>10 DEF Accepted, Completes, TypeOK, sessionVars
<1>11. ASSUME NEW i \in Ids, Refused(i) \/ Aborted(i) PROVE TypeOK'
  BY <1>9, <1>11 DEF Refused, Aborted, Completes, TypeOK, sessionVars
<1>12. ASSUME NEW i \in Ids, PeerGone(i) PROVE TypeOK'
  BY <1>12 DEF PeerGone, TypeOK
<1>13. ASSUME NEW i \in Ids, OnClosed(i) PROVE TypeOK'
  <2>1. notes[i] + 1 \in 1..2
    <3>1. notes[i] \in 0..2 /\ notes[i] < MaxNotes
      BY <1>13 DEF OnClosed, TypeOK
    <3>2. MaxNotes \in {1, 2}
      BY DEF MaxNotes
    <3> QED BY <3>1, <3>2
  <2>2. notes' \in [Ids -> 0..2] /\ closing' \subseteq Ids \X (1..2)
    BY <1>13, <2>1 DEF OnClosed, TypeOK
  <2> QED BY <1>13, <2>2 DEF OnClosed, TypeOK
<1>14. ASSUME NEW c \in closing, Reset(c) PROVE TypeOK'
  BY <1>14, ReleasedType DEF Reset, TypeOK
<1>15. CASE UNCHANGED vars
  BY <1>15 DEF vars, sessionVars, TypeOK
<1> QED BY <1>1, <1>2, <1>3, <1>4, <1>6, <1>7, <1>8, <1>10, <1>11, <1>12, <1>13,
           <1>14, <1>15 DEF Next, HandleConnect, Network

\* The state of the client stays in its types, on any number of threads.
THEOREM TypeCorrect == Spec => []TypeOK
BY TypeInit, TypeStep, PTL DEF Spec

-----------------------------------------------------------------------------
(* session_ and the connect under way, on one runner thread. *)

\* A runner of one thread that can take up work has no on_closed() under way.
LEMMA FreeMeansIdle ==
  ASSUME TypeOK, Threads = 1, FreeThread
  PROVE  closing = {}
<1>1. IsFiniteSet(Ids \X (1..2))
  <2>1. IsFiniteSet(Ids) /\ IsFiniteSet(1..2)
    <3>1. MaxSessions \in Int /\ 1 \in Int /\ 2 \in Int
      BY ClientAssumption
    <3> QED BY ONLY <3>1, FS_Interval DEF Ids
  <2> QED BY ONLY <2>1, FS_Product
<1>2. IsFiniteSet(closing)
  BY <1>1, FS_Subset DEF TypeOK
<1>3. Cardinality(closing) \in Nat /\ Cardinality(closing) < 1
  BY <1>2, FS_CardinalityType DEF FreeThread
<1> QED BY <1>2, <1>3, FS_EmptySet

\* The single connect() of a client without one under way: the new session is
\* the only open one and the only one connecting.
LEMMA ConnectKeeps ==
  ASSUME TypeOK, ClientInv, app # "stopped", closing = {}, Connect,
         UNCHANGED <<completions, started, lost, notes, closing, fault>>
  PROVE  /\ WorkingInv'
         /\ made' <= MaxSessions /\ current' <= made'
         /\ \A i \in Ids : i > made' =>
              /\ socket'[i] = "closed" /\ connects'[i] = 0
              /\ started'[i] = 0 /\ notes'[i] = 0 /\ i \notin lost'
<1>0. FreshInv /\ WorkingInv
  BY DEF ClientInv
<1>1. CASE UNCHANGED <<current, made, socket, connects>>
  BY <1>0, <1>1 DEF FreshInv, WorkingInv, Connecting, IsOpen
<1>2. CASE MakeSession /\ ~(current # Null /\ IsOpen(current))
  <2>1. made \in Nat /\ made + 1 \in Ids /\ current # made + 1 /\ Null \notin Ids
    BY <1>0, <1>2, ClientAssumption DEF MakeSession, TypeOK, FreshInv, Ids, Null
  <2>2. ~Connecting /\ \A i \in Ids : socket[i] = "closed"
    BY <1>0, <1>2, <2>1 DEF WorkingInv, IsOpen
  <2>3. completions = <<>> /\ \A i \in Ids : connects[i] = 0
    BY <2>2 DEF Connecting, TypeOK
  <2>4. \A i \in Ids : socket'[i] = IF i = made + 1 THEN "open" ELSE "closed"
    BY <1>2, <2>1, <2>2, ReleasedType DEF MakeSession, Released
  <2>5. \A i \in Ids : connects'[i] = IF i = made + 1 THEN 1 ELSE 0
    BY <1>2, <2>1, <2>3 DEF MakeSession, TypeOK
  <2>6. started[made + 1] = 0
    BY <1>0, <2>1 DEF FreshInv
  <2>7. WorkingInv'
    BY <1>0, <1>2, <2>1, <2>3, <2>4, <2>5, <2>6 DEF WorkingInv, Connecting, IsOpen, MakeSession
  <2>8. made' <= MaxSessions /\ current' <= made'
    BY <1>2, <2>1, ClientAssumption DEF MakeSession
  <2>9. \A i \in Ids : i > made' => i > made /\ i # made + 1
    BY <1>2, <2>1, IdsType DEF MakeSession
  <2> QED BY <1>0, <2>4, <2>5, <2>7, <2>8, <2>9 DEF FreshInv
<1> QED BY <1>1, <1>2 DEF Connect

\* What every step that handles a completion starts from: the session that
\* connected is the present one, open and not started.
LEMMA HandlingMeans ==
  ASSUME TypeOK, ClientInv, Threads = 1, StopRunnerFirst, Handling
  PROVE  /\ WorkingInv /\ app # "stopped" /\ closing = {}
         /\ current \in Ids /\ current <= made /\ IsOpen(current) /\ started[current] = 0
         /\ completions' = <<>> /\ \A i \in Ids : connects[i] = 0
         /\ fault' = "none"
<1>1. FreeThread /\ app # "stopped" /\ closing = {} /\ completions # <<>>
  BY FreeMeansIdle DEF Handling, FreeThread, RunnerWorks
<1>2. WorkingInv /\ FreshInv
  BY <1>1 DEF ClientInv
<1>3. current # Null /\ IsOpen(current) /\ started[current] = 0
  BY <1>1, <1>2 DEF WorkingInv, Connecting
<1>4. current \in Ids /\ current <= made
  BY <1>2, <1>3 DEF TypeOK, FreshInv
<1>5. completions' = <<>>
  BY <1>1, <1>2 DEF Handling, WorkingInv, TypeOK
<1>6. \A i \in Ids : connects[i] = 0
  BY <1>1, <1>2 DEF WorkingInv, TypeOK
<1>7. fault' = "none"
  BY <1>2, <1>3 DEF Handling, WorkingInv
<1> QED BY <1>1, <1>2, <1>3, <1>4, <1>5, <1>6, <1>7

\* Every step keeps ClientInv.
LEMMA ClientStep ==
  ASSUME TypeOK, ClientInv, Threads = 1, StopRunnerFirst, [Next]_vars
  PROVE  ClientInv'
<1>0. /\ FreshInv /\ SessionPresent /\ StartedOnce
      /\ made \in Nat /\ current \in Ids \cup {Null}
  BY DEF ClientInv, TypeOK
<1>1. CASE Begin
  <2>1. app = "new" /\ app' = "running" /\ WorkingInv /\ current = Null
    BY <1>0, <1>1, ClientAssumption DEF Begin, ClientInv, FreshInv, Ids, Null
  <2>2. closing = {}
    BY <2>1, IdsType DEF WorkingInv, TypeOK
  <2>3. Connect /\ UNCHANGED <<completions, started, lost, notes, closing, fault>>
    BY <1>1 DEF Begin, sessionVars
  <2>4. FreshInv' /\ WorkingInv'
    BY <2>1, <2>2, <2>3, ConnectKeeps DEF FreshInv
  <2> QED BY <1>0, <2>1, <2>3, <2>4 DEF ClientInv, SessionPresent, StartedOnce
<1>2. CASE AppPosts
  BY <1>0, <1>2 DEF AppPosts, ClientInv, FreshInv, SessionPresent, StartedOnce, WorkingInv,
     Connecting, IsOpen, sessionVars
<1>3. CASE RunConnect
  <2>1. app # "stopped" /\ app # "new" /\ closing = {} /\ app' = app
    BY <1>0, <1>3, FreeMeansIdle DEF RunConnect, FreeThread, RunnerWorks, FreshInv
  <2>2. Connect /\ UNCHANGED <<completions, started, lost, notes, closing, fault>>
    BY <1>3 DEF RunConnect, sessionVars
  <2>3. FreshInv' /\ WorkingInv'
    BY <2>1, <2>2, ConnectKeeps DEF FreshInv
  <2> QED BY <1>0, <2>1, <2>2, <2>3 DEF ClientInv, SessionPresent, StartedOnce
<1>4. CASE Close
  <2>1. app' = "stopped" /\ fault' # "connect"
    BY <1>4 DEF Close
  <2>2. current' <= made'
    BY <1>0, <1>4, IdsType DEF Close, FreshInv, Null
  <2>3. \A i \in Ids : socket[i] = "closed" => socket'[i] = "closed"
    BY <1>4 DEF Close, TypeOK
  <2>4. FreshInv'
    BY <1>0, <1>4, <2>1, <2>2, <2>3 DEF Close, FreshInv, sessionVars
  <2> QED BY <1>0, <1>4, <2>1, <2>4 DEF Close, ClientInv, SessionPresent, StartedOnce, sessionVars
<1>5. CASE HandleConnected
  <2>1. Handling
    BY <1>5 DEF HandleConnected
  <2>2. \A i \in Ids : started'[i] = IF i = current THEN 1 ELSE started[i]
    BY <1>5, <2>1, HandlingMeans DEF HandleConnected, TypeOK
  <2>3. StartedOnce'
    BY <1>0, <2>2 DEF StartedOnce
  <2>4. FreshInv'
    BY <1>0, <1>5, <2>1, <2>2, HandlingMeans, IdsType DEF HandleConnected, Handling, FreshInv
  <2>5. WorkingInv'
    BY <1>5, <2>1, HandlingMeans DEF HandleConnected, Handling, WorkingInv, Connecting, IsOpen
  <2> QED BY <2>1, <2>3, <2>4, <2>5, HandlingMeans DEF ClientInv, SessionPresent
<1>6. CASE StartThrows
  <2>1. Handling
    BY <1>6 DEF StartThrows
  <2>2. FreshInv' /\ StartedOnce'
    BY <1>0, <1>6, <2>1 DEF StartThrows, Handling, FreshInv, StartedOnce
  <2>3. WorkingInv'
    BY <1>6, <2>1, HandlingMeans DEF StartThrows, Handling, WorkingInv, Connecting, IsOpen
  <2> QED BY <2>1, <2>2, <2>3, HandlingMeans DEF ClientInv, SessionPresent
<1>7. CASE HandleFailed
  <2>1. Handling
    BY <1>7 DEF HandleFailed
  <2>2. /\ \A i \in Ids : connects'[i] = IF i = current THEN 1 ELSE 0
        /\ \A i \in Ids : socket'[i] = socket[i]
    BY <1>7, <2>1, HandlingMeans DEF HandleFailed, TypeOK
  <2>3. FreshInv' /\ StartedOnce'
    BY <1>0, <1>7, <2>1, <2>2, HandlingMeans, IdsType
       DEF HandleFailed, Handling, FreshInv, StartedOnce
  <2>4. WorkingInv'
    BY <1>7, <2>1, <2>2, HandlingMeans, IdsType
       DEF HandleFailed, Handling, WorkingInv, Connecting, IsOpen
  <2> QED BY <2>1, <2>3, <2>4, HandlingMeans DEF ClientInv, SessionPresent
<1>8. ASSUME NEW i \in Ids, Accepted(i) \/ Refused(i) \/ Aborted(i)
      PROVE  ClientInv'
  <2>1. PICK ec \in {"ok", "refused", "aborted"} : Completes(i, ec)
    BY <1>8 DEF Accepted, Refused, Aborted
  <2>2. i <= made
    BY <1>0, <2>1, IdsType DEF Completes, FreshInv
  <2>3. \A j \in Ids : connects'[j] = IF j = i THEN connects[i] - 1 ELSE connects[j]
    BY <2>1 DEF Completes, TypeOK
  <2>4. \A j \in Ids : j # i => socket'[j] = socket[j]
    BY <1>8 DEF Accepted, Refused, Aborted, TypeOK
  <2>5. FreshInv' /\ StartedOnce' /\ SessionPresent'
    BY <1>0, <2>1, <2>2, <2>3, <2>4, IdsType
       DEF Completes, FreshInv, StartedOnce, SessionPresent, sessionVars
  <2>6. ASSUME app # "stopped" PROVE WorkingInv'
    <3>1. WorkingInv /\ Connecting /\ i = current /\ connects[i] = 1 /\ completions = <<>>
      BY <2>1, <2>6 DEF ClientInv, WorkingInv, Connecting, Completes
    <3>2. IsOpen(i) /\ started[i] = 0 /\ closing = {}
      BY <3>1 DEF WorkingInv
    <3>3. socket'[i] # "closed"
      BY <1>8, <3>2 DEF Accepted, Refused, Aborted, IsOpen, TypeOK
    <3>4. \A j \in Ids : connects'[j] = 0
      BY <2>3, <3>1 DEF WorkingInv, TypeOK
    <3>5. Len(completions') = 1 /\ completions'[1].of = i
      BY <2>1, <3>1 DEF Completes
    <3>6. \A j \in Ids : socket'[j] # "closed" => j = i
      BY <2>4, <3>1 DEF WorkingInv, IsOpen
    <3> QED BY <2>1, <3>1, <3>2, <3>3, <3>4, <3>5, <3>6, IdsType
           DEF WorkingInv, Connecting, IsOpen, Completes, sessionVars
  <2> QED BY <2>1, <2>5, <2>6 DEF ClientInv, Completes
<1>9. ASSUME NEW i \in Ids, PeerGone(i) PROVE ClientInv'
  <2>1. i <= made
    BY <1>0, <1>9, IdsType DEF PeerGone, FreshInv
  <2>2. FreshInv'
    BY <1>0, <1>9, <2>1, IdsType DEF PeerGone, FreshInv
  <2> QED BY <1>0, <1>9, <2>2 DEF PeerGone, ClientInv, StartedOnce, SessionPresent, WorkingInv,
             Connecting, IsOpen
<1>10. ASSUME NEW i \in Ids, OnClosed(i) PROVE ClientInv'
  <2>1. closing = {} /\ app # "stopped" /\ WorkingInv /\ app' = app
    BY <1>10, FreeMeansIdle DEF OnClosed, FreeThread, RunnerWorks, ClientInv
  <2>2. notes[i] = 0
    <3>1. notes[i] \in 0..2 /\ notes[i] < 1
      BY <1>10 DEF OnClosed, MaxNotes, TypeOK
    <3> QED BY <3>1
  <2>3. i = current /\ IsOpen(i) /\ ~Connecting
    BY <1>10, <2>1, <2>2 DEF OnClosed, WorkingInv, IsOpen, TypeOK
  <2>4. i <= made /\ app # "new"
    BY <1>0, <1>10, IdsType DEF OnClosed, FreshInv
  <2>5. /\ \A j \in Ids : socket'[j] = "closed"
        /\ \A j \in Ids : j # i => notes'[j] = notes[j]
        /\ closing' = {<<i, 1>>}
    BY <1>10, <2>1, <2>2, <2>3 DEF OnClosed, WorkingInv, IsOpen, TypeOK
  <2>6. FreshInv'
    BY <1>0, <1>10, <2>1, <2>4, <2>5, IdsType DEF OnClosed, FreshInv
  <2>7. WorkingInv'
    BY <1>10, <2>1, <2>3, <2>5 DEF OnClosed, WorkingInv, Connecting, IsOpen
  <2> QED BY <1>0, <1>10, <2>6, <2>7 DEF OnClosed, ClientInv, StartedOnce, SessionPresent
<1>11. ASSUME NEW c \in closing, Reset(c) PROVE ClientInv'
  <2>1. app # "stopped" /\ WorkingInv /\ app' = app
    BY <1>11 DEF Reset, RunnerWorks, ClientInv
  <2>2. closing' = {} /\ ~Connecting /\ current' = Null
    BY <1>11, <2>1 DEF Reset, WorkingInv
  <2>3. \A j \in Ids : socket[j] = "closed"
    BY <1>11, <2>1 DEF WorkingInv, IsOpen
  <2>4. \A j \in Ids : socket'[j] = "closed"
    BY <1>11, <2>3 DEF Reset, Released
  <2>5. FreshInv'
    BY <1>0, <1>11, <2>1, <2>4 DEF Reset, FreshInv, Null
  <2>6. WorkingInv'
    BY <1>11, <2>1, <2>2, <2>4 DEF Reset, WorkingInv, Connecting, IsOpen
  <2> QED BY <1>0, <1>11, <2>5, <2>6 DEF Reset, ClientInv, StartedOnce, SessionPresent
<1>12. CASE UNCHANGED vars
  BY <1>12 DEF vars, sessionVars, ClientInv, FreshInv, StartedOnce, SessionPresent, WorkingInv,
     Connecting, IsOpen
<1> QED BY <1>1, <1>2, <1>3, <1>4, <1>5, <1>6, <1>7, <1>8, <1>9, <1>10, <1>11, <1>12
        DEF Next, HandleConnect, Network

\* One runner thread, stopped before close(): ClientInv always holds.
LEMMA ClientInvariant ==
  ASSUME Threads = 1, StopRunnerFirst PROVE Spec => [](TypeOK /\ ClientInv)
<1>1. Init => ClientInv
  BY ClientAssumption, IdsType DEF Init, ClientInv, FreshInv, StartedOnce, SessionPresent,
     WorkingInv, Connecting, IsOpen, Null
<1>2. TypeOK /\ ClientInv /\ [Next]_vars => ClientInv'
  BY ClientStep
<1> QED BY <1>1, <1>2, TypeCorrect, PTL DEF Spec

\* handle_connect() never meets an empty session_, on one runner thread that is
\* stopped before close().
THEOREM SessionAlwaysPresent ==
  ASSUME Threads = 1, StopRunnerFirst PROVE Spec => []SessionPresent
<1>1. ClientInv => SessionPresent
  BY DEF ClientInv
<1> QED BY <1>1, ClientInvariant, PTL

\* Every connect belongs to the present session, so handle_connect() starts the
\* session that connected.
THEOREM ConnectsAreCurrent ==
  ASSUME Threads = 1, StopRunnerFirst PROVE Spec => []ConnectsCurrent
<1>1. TypeOK /\ ClientInv => ConnectsCurrent
  <2>1. SUFFICES ASSUME TypeOK, ClientInv, app # "stopped"
                 PROVE  /\ \A i \in Ids : connects[i] > 0 => i = current
                        /\ \A k \in 1..Len(completions) : completions[k].of = current
    BY DEF ConnectsCurrent
  <2>2. WorkingInv
    BY <2>1 DEF ClientInv
  <2> QED BY <2>1, <2>2 DEF WorkingInv, TypeOK
<1> QED BY <1>1, ClientInvariant, PTL

\* No session is started twice by the completions of its connects.
THEOREM SessionStartedOnce ==
  ASSUME Threads = 1, StopRunnerFirst PROVE Spec => []StartedOnce
<1>1. ClientInv => StartedOnce
  BY DEF ClientInv
<1> QED BY <1>1, ClientInvariant, PTL

\* A connection in use is the present session: none is left without an owner.
THEOREM NoConnectionForgotten ==
  ASSUME Threads = 1, StopRunnerFirst PROVE Spec => []NoneForgotten
<1>1. ClientInv => NoneForgotten
  BY DEF ClientInv, WorkingInv, NoneForgotten, IsOpen
<1> QED BY <1>1, ClientInvariant, PTL
=============================================================================
