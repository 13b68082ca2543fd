---------------------------- MODULE ServerProofs ----------------------------
(***************************************************************************)
(* Theorems about Server for any number of sessions, connections and       *)
(* descriptors: the accept loop on any number of runner threads, and the   *)
(* handles of established sessions on one.                                 *)
(***************************************************************************)
EXTENDS Server, FiniteSetTheorems, TLAPS

\* Sessions are numbered from 1.
LEMMA IdsType == Ids \subseteq Nat \ {0} /\ 1 \in Ids /\ Null \notin Ids /\ Null \notin Fds
BY ServerAssumption DEF Ids, Null

-----------------------------------------------------------------------------
(* Types. *)

\* start_accept() keeps the types of what it changes.
LEMMA StartAcceptType ==
  ASSUME TypeOK, NEW s \in [Ids -> Stage], StartAccept(s)
  PROVE  made' \in 0..MaxSessions /\ stage' \in [Ids -> Stage] /\ fault' \in {"none", "accept"}
<1>1. CASE acceptor = "listening"
  <2>1. made + 1 \in Ids /\ made' \in 0..MaxSessions
    BY <1>1, ServerAssumption DEF StartAccept, TypeOK, Ids
  <2> QED BY <1>1, <2>1 DEF StartAccept, TypeOK, Stage
<1>2. CASE acceptor # "listening"
  BY <1>2 DEF StartAccept, TypeOK
<1> QED BY <1>1, <1>2

\* Every step keeps the types.
LEMMA TypeStep ==
  ASSUME TypeOK, [Next]_vars
  PROVE  TypeOK'
<1>1. CASE Start
  <2>1. made' \in 0..MaxSessions /\ stage' \in [Ids -> Stage]
    BY <1>1, ServerAssumption, IdsType DEF Start, To, TypeOK, Stage
  <2> QED BY <1>1, <2>1 DEF Start, TypeOK, netVars, toldVars
<1>2. CASE StartFails
  BY <1>2 DEF StartFails, TypeOK, netVars, toldVars
<1>3. CASE Stop
  <2>1. stage' \in [Ids -> Stage]
    BY <1>3 DEF Stop, TypeOK, Stage
  <2> QED BY <1>3, <2>1 DEF Stop, TypeOK, netVars, toldVars
<1>4. CASE Connect
  BY <1>4 DEF Connect, TypeOK, loopVars, toldVars
<1>5. ASSUME NEW i \in Ids, HandleAccept(i) PROVE TypeOK'
  <2>1. stage' \in [Ids -> Stage] /\ sessions' \in [Keys -> Ids \cup {Null}]
    BY <1>5 DEF HandleAccept, To, TypeOK, Stage
  <2> QED BY <1>5, <2>1 DEF HandleAccept, TypeOK, netVars
<1>6. ASSUME NEW i \in Ids, HandleAcceptError(i) \/ AcceptAgain(i) PROVE TypeOK'
  <2>1. [stage EXCEPT ![i] = "done"] \in [Ids -> Stage]
    BY DEF TypeOK, Stage
  <2>2. StartAccept([stage EXCEPT ![i] = "done"])
    BY <1>6 DEF HandleAcceptError, AcceptAgain
  <2> QED BY <1>6, <2>1, <2>2, StartAcceptType
         DEF HandleAcceptError, AcceptAgain, TypeOK, netVars, toldVars
<1>7. ASSUME NEW i \in Ids, StartSession(i) \/ StartThrows(i) PROVE TypeOK'
  <2>1. stage' \in [Ids -> Stage] /\ handle' \in [Ids -> Keys] /\ fd' \in [Ids -> Keys]
    BY <1>7 DEF StartSession, StartThrows, To, TypeOK, Stage, Keys
  <2> QED BY <1>7, <2>1 DEF StartSession, StartThrows, TypeOK, netVars, toldVars
<1>8. ASSUME NEW i \in Ids, OnEstablished(i) PROVE TypeOK'
  BY <1>8 DEF OnEstablished, To, TypeOK, Stage, netVars
<1>9. ASSUME NEW i \in Ids, OnHandshaken(i) PROVE TypeOK'
  BY <1>9 DEF OnHandshaken, TypeOK, loopVars, netVars
<1>10. ASSUME NEW i \in Ids, HandleClose(i) \/ CloseSilently(i) PROVE TypeOK'
  BY <1>10 DEF HandleClose, CloseSilently, TypeOK, Keys, loopVars, netVars, toldVars
<1>11. ASSUME NEW i \in Ids, OnClosed(i) PROVE TypeOK'
  BY <1>11 DEF OnClosed, TypeOK, loopVars, netVars
<1>12. ASSUME NEW i \in Ids, Accepted(i) PROVE TypeOK'
  <2>1. stage' \in [Ids -> Stage] /\ fd' \in [Ids -> Keys] /\ backlog' \in Nat
    BY <1>12 DEF Accepted, To, TypeOK, Stage, Keys
  <2> QED BY <1>12, <2>1 DEF Accepted, TypeOK, toldVars
<1>13. ASSUME NEW i \in Ids, AcceptFails(i) \/ PeerGone(i) PROVE TypeOK'
  <2>1. stage' \in [Ids -> Stage]
    BY <1>13 DEF AcceptFails, PeerGone, To, TypeOK, Stage, loopVars
  <2> QED BY <1>13, <2>1 DEF AcceptFails, PeerGone, TypeOK, loopVars, netVars, toldVars
<1>14. CASE UNCHANGED vars
  BY <1>14 DEF vars, loopVars, netVars, toldVars, TypeOK
<1> QED BY <1>1, <1>2, <1>3, <1>4, <1>5, <1>6, <1>7, <1>8, <1>9, <1>10, <1>11, <1>12,
           <1>13, <1>14 DEF Next, AcceptSteps, SessionSteps, Network

\* The state of the server stays in its types.
THEOREM TypeCorrect == Spec => []TypeOK
<1>1. Init => TypeOK
  BY ServerAssumption DEF Init, TypeOK, Stage, Keys, Null
<1> QED BY <1>1, TypeStep, PTL DEF Spec

-----------------------------------------------------------------------------
(* The accept loop. *)

\* A session that goes from one stage of the loop to another leaves LoopInv.
LEMMA MoveKeeps ==
  ASSUME TypeOK, LoopInv, NEW i \in Ids, NEW s \in Looping \cup {"threw"},
         stage[i] \in Looping, To(i, s), UNCHANGED <<acceptor, made, app>>
  PROVE  LoopInv'
<1>1. \A j \in Ids : stage'[j] = IF j = i THEN s ELSE stage[j]
  BY DEF To, TypeOK
<1>2. stage[i] # "none" /\ s # "none"
  BY DEF Looping
<1>3. OneAccept'
  <2>1. SUFFICES ASSUME acceptor = "listening", \A j \in Ids : stage'[j] # "threw"
                 PROVE  \E k \in Ids : \A j \in Ids : stage'[j] \in Looping <=> j = k
    BY DEF OneAccept
  <2>2. s \in Looping
    BY <1>1, <2>1
  <2>3. \A j \in Ids : stage[j] # "threw"
    BY <1>1, <2>1 DEF Looping
  <2>4. PICK k \in Ids : \A j \in Ids : stage[j] \in Looping <=> j = k
    BY <2>1, <2>3 DEF LoopInv, OneAccept
  <2> QED BY <1>1, <2>2, <2>4
<1> QED BY <1>1, <1>2, <1>3 DEF LoopInv

\* start_accept() at the end of handle_accept() replaces the session that was
\* accepted by the one being accepted.
LEMMA AgainKeeps ==
  ASSUME TypeOK, LoopInv, NEW i \in Ids, stage[i] \in {"error", "again"},
         StartAccept([stage EXCEPT ![i] = "done"]), UNCHANGED <<acceptor, app>>
  PROVE  LoopInv'
<1>1. CASE acceptor = "listening"
  <2>1. made \in Nat /\ made' = made + 1 /\ made + 1 \in Ids
    BY <1>1, ServerAssumption DEF StartAccept, TypeOK, Ids
  <2>2. stage[made + 1] = "none"
    BY <2>1 DEF LoopInv
  <2>3. \A j \in Ids : stage'[j] = IF j = made + 1 THEN "waiting"
                                   ELSE IF j = i THEN "done" ELSE stage[j]
    BY <1>1, <2>1 DEF StartAccept, TypeOK
  <2>4. \A j \in Ids : j > made' => stage'[j] = "none"
    <3>1. SUFFICES ASSUME NEW j \in Ids, j > made' PROVE stage'[j] = "none"
      OBVIOUS
    <3>2. j > made /\ j # made + 1
      BY <2>1, <3>1, IdsType
    <3>3. stage[j] = "none"
      BY <3>2 DEF LoopInv
    <3> QED BY <2>3, <3>2, <3>3
  <2>5. OneAccept'
    <3>1. SUFFICES ASSUME \A j \in Ids : stage'[j] # "threw"
                   PROVE  \A j \in Ids : stage'[j] \in Looping <=> j = made + 1
      BY <2>1 DEF OneAccept
    <3>2. \A j \in Ids : stage[j] # "threw"
      BY <2>2, <2>3, <3>1
    <3>3. PICK k \in Ids : \A j \in Ids : stage[j] \in Looping <=> j = k
      BY <1>1, <3>2 DEF LoopInv, OneAccept
    <3>4. k = i
      BY <3>3 DEF Looping
    <3> QED BY <2>3, <3>3, <3>4 DEF Looping
  <2> QED BY <1>1, <2>4, <2>5 DEF LoopInv
<1>2. CASE acceptor # "listening"
  <2>1. app = "stopped"
    BY <1>2 DEF LoopInv
  <2>2. made' = made /\ \A j \in Ids : stage'[j] = IF j = i THEN "done" ELSE stage[j]
    BY <1>2 DEF StartAccept, TypeOK
  <2>3. \A j \in Ids : j > made' => stage'[j] = "none"
    BY <2>2 DEF LoopInv
  <2> QED BY <1>2, <2>1, <2>3 DEF LoopInv, OneAccept
<1> QED BY <1>1, <1>2

\* Every step keeps LoopInv.
LEMMA LoopStep ==
  ASSUME TypeOK, LoopInv, [Next]_vars
  PROVE  LoopInv'
<1>1. CASE Start
  <2>1. \A j \in Ids : stage[j] = "none"
    BY <1>1 DEF Start, LoopInv
  <2>2. \A j \in Ids : stage'[j] = IF j = 1 THEN "waiting" ELSE "none"
    BY <1>1, <2>1, IdsType DEF Start, To, TypeOK
  <2>3. \A j \in Ids : j > made' => j # 1
    BY <1>1, IdsType DEF Start
  <2>4. OneAccept'
    BY <2>2, IdsType DEF OneAccept, Looping
  <2> QED BY <1>1, <2>2, <2>3, <2>4 DEF Start, LoopInv
<1>2. CASE StartFails
  <2>1. \A j \in Ids : stage[j] = "none"
    BY <1>2 DEF StartFails, LoopInv
  <2> QED BY <1>2, <2>1 DEF StartFails, LoopInv, OneAccept
<1>3. CASE Stop
  <2>1. \A j \in Ids : stage[j] = "none" => stage'[j] = "none"
    BY <1>3 DEF Stop
  <2> QED BY <1>3, <2>1 DEF Stop, LoopInv, OneAccept
<1>4. CASE Connect
  BY <1>4 DEF Connect, LoopInv, OneAccept, loopVars
<1>5. ASSUME NEW i \in Ids, HandleAccept(i) PROVE LoopInv'
  BY <1>5, MoveKeeps DEF HandleAccept, Looping
<1>6. ASSUME NEW i \in Ids, HandleAcceptError(i) \/ AcceptAgain(i) PROVE LoopInv'
  BY <1>6, AgainKeeps DEF HandleAcceptError, AcceptAgain
<1>7. ASSUME NEW i \in Ids, StartSession(i) PROVE LoopInv'
  BY <1>7, MoveKeeps DEF StartSession, Looping
<1>8. ASSUME NEW i \in Ids, StartThrows(i) PROVE LoopInv'
  BY <1>8, MoveKeeps DEF StartThrows, Looping
<1>9. ASSUME NEW i \in Ids, OnEstablished(i) PROVE LoopInv'
  BY <1>9, MoveKeeps DEF OnEstablished, Looping
<1>10. ASSUME NEW i \in Ids, SessionSteps(i) PROVE LoopInv'
  BY <1>10 DEF SessionSteps, OnHandshaken, HandleClose, OnClosed, CloseSilently, LoopInv,
     OneAccept, loopVars
<1>11. ASSUME NEW i \in Ids, Accepted(i) \/ AcceptFails(i) PROVE LoopInv'
  BY <1>11, MoveKeeps DEF Accepted, AcceptFails, Looping
<1>12. ASSUME NEW i \in Ids, PeerGone(i) PROVE LoopInv'
  BY <1>12 DEF PeerGone, LoopInv, OneAccept, loopVars
<1>13. CASE UNCHANGED vars
  BY <1>13 DEF vars, loopVars, LoopInv, OneAccept
<1> QED BY <1>1, <1>2, <1>3, <1>4, <1>5, <1>6, <1>7, <1>8, <1>9, <1>10, <1>11, <1>12,
           <1>13 DEF Next, AcceptSteps, Network

\* The accept loop is well formed from start() on.
LEMMA LoopInvariant == Spec => [](TypeOK /\ LoopInv)
<1>1. Init => LoopInv
  BY DEF Init, LoopInv, OneAccept
<1>2. TypeOK /\ LoopInv /\ [Next]_vars => LoopInv'
  BY LoopStep
<1> QED BY <1>1, <1>2, TypeCorrect, PTL DEF Spec

\* A listening server has exactly one accept outstanding or being handled, on
\* any number of runner threads, unless start() of a session threw.
THEOREM AcceptsOneByOne == Spec => []OneAccept
<1>1. LoopInv => OneAccept
  BY DEF LoopInv
<1> QED BY <1>1, LoopInvariant, PTL

\* A server whose runner is stopped before stop() never uses an acceptor_ that
\* is gone.
THEOREM AcceptorIsPresent ==
  ASSUME StopRunnerFirst PROVE Spec => []AcceptorPresent
<1>1. Init => AcceptorPresent
  BY DEF Init, AcceptorPresent
<1>2. TypeOK /\ LoopInv /\ AcceptorPresent /\ [Next]_vars => AcceptorPresent'
  <2>1. SUFFICES ASSUME TypeOK, LoopInv, AcceptorPresent, [Next]_vars
                 PROVE  AcceptorPresent'
    OBVIOUS
  <2>2. ASSUME NEW i \in Ids, HandleAcceptError(i) \/ AcceptAgain(i) PROVE AcceptorPresent'
    <3>1. app # "stopped" /\ stage[i] # "none" /\ StartAccept([stage EXCEPT ![i] = "done"])
      BY <2>2 DEF HandleAcceptError, AcceptAgain, FreeThread, RunnerWorks
    <3>2. acceptor = "listening"
      BY <2>1, <3>1 DEF LoopInv
    <3> QED BY <2>1, <3>1, <3>2 DEF StartAccept, AcceptorPresent
  <2>3. ASSUME NEW i \in Ids, HandleAccept(i) \/ StartSession(i) \/ StartThrows(i) \/ OnEstablished(i)
        PROVE  AcceptorPresent'
    BY <2>1, <2>3 DEF HandleAccept, StartSession, StartThrows, OnEstablished, AcceptorPresent
  <2>4. ASSUME NEW i \in Ids, SessionSteps(i) \/ Network(i) PROVE AcceptorPresent'
    BY <2>1, <2>4 DEF SessionSteps, OnHandshaken, HandleClose, OnClosed, CloseSilently, Network,
       Accepted, AcceptFails, PeerGone, AcceptorPresent
  <2>5. CASE Start \/ StartFails \/ Stop \/ Connect \/ UNCHANGED vars
    BY <2>1, <2>5 DEF Start, StartFails, Stop, Connect, vars, AcceptorPresent
  <2> QED BY <2>1, <2>2, <2>3, <2>4, <2>5 DEF Next, AcceptSteps
<1> QED BY <1>1, <1>2, LoopInvariant, PTL DEF Spec

-----------------------------------------------------------------------------
(* Handles, on one runner thread. *)

\* The sets Busy counts are finite.
LEMMA BusyFinite ==
  ASSUME TypeOK
  PROVE  /\ IsFiniteSet(Handling) /\ IsFiniteSet(closing)
         /\ Cardinality(Handling) \in Nat /\ Cardinality(closing) \in Nat
<1>1. IsFiniteSet(Ids)
  <2>1. MaxSessions \in Int /\ 1 \in Int
    BY ServerAssumption
  <2> QED BY ONLY <2>1, FS_Interval DEF Ids
<1>2. Handling \subseteq Ids /\ closing \subseteq Ids
  BY DEF Handling, TypeOK
<1>3. IsFiniteSet(Handling) /\ IsFiniteSet(closing)
  BY <1>1, <1>2, FS_Subset
<1> QED BY <1>3, FS_CardinalityType

\* A free runner of one thread handles no session.
LEMMA FreeMeansIdle ==
  ASSUME TypeOK, Threads = 1, FreeThread
  PROVE  Handling = {} /\ closing = {}
<1>1. Cardinality(Handling) + Cardinality(closing) < 1
  BY DEF FreeThread, Busy
<1>2. Cardinality(Handling) = 0 /\ Cardinality(closing) = 0
  BY <1>1, BusyFinite
<1> QED BY <1>2, BusyFinite, FS_EmptySet

\* A session the pulse is told of has a handle of its own while no close is
\* being notified.
LEMMA FreshHandle ==
  ASSUME HandleInv, closing = {}, NEW i \in Ids, IsOpen(i), handle[i] = fd[i],
         known' = [known EXCEPT ![i] = "up"], known \in [Ids -> {"no", "up", "down"}],
         UNCHANGED <<handle, silent>>
  PROVE  HandlesDistinct'
<1>1. SUFFICES ASSUME NEW j \in Ids, NEW k \in Ids, known'[j] = "up", known'[k] = "up",
                      handle[j] = handle[k], j # k, j \notin silent, k \notin silent
               PROVE  FALSE
  BY DEF HandlesDistinct
<1>2. ASSUME NEW l \in Ids, known[l] = "up", l \notin silent
      PROVE  IsOpen(l) /\ handle[l] = fd[l]
  BY <1>2 DEF HandleInv, PhaseInv
<1>3. IsOpen(j) /\ handle[j] = fd[j] /\ IsOpen(k) /\ handle[k] = fd[k]
  BY <1>1, <1>2
<1> QED BY <1>1, <1>3 DEF HandleInv, FdsDistinct

\* Every step keeps HandleInv.
LEMMA HandleStep ==
  ASSUME TypeOK, LoopInv, HandleInv, Threads = 1, [Next]_vars
  PROVE  HandleInv'
<1>0. PhaseInv /\ FdsDistinct /\ Exclusive /\ HandlesDistinct
  BY DEF HandleInv
<1>1. CASE Start
  <2>1. \A j \in Ids : stage[j] = "none"
    BY <1>1 DEF Start, LoopInv
  <2>2. \A j \in Ids : stage'[j] = IF j = 1 THEN "waiting" ELSE "none"
    BY <1>1, <2>1, IdsType DEF Start, To, TypeOK
  <2> QED BY <1>0, <1>1, <2>1, <2>2 DEF Start, HandleInv, PhaseInv, FdsDistinct, Exclusive,
             HandlesDistinct, IsOpen, Handling, toldVars
<1>2. CASE StartFails
  BY <1>0, <1>2 DEF StartFails, HandleInv, PhaseInv, FdsDistinct, Exclusive, HandlesDistinct,
     IsOpen, Handling, toldVars
<1>3. CASE Stop
  <2>1. \A j \in Ids : \/ stage'[j] = stage[j]
                       \/ stage[j] = "waiting" /\ stage'[j] = "error"
    BY <1>3 DEF Stop
  <2>2. Handling' = Handling
    BY <2>1 DEF Handling
  <2> QED BY <1>0, <1>3, <2>1, <2>2 DEF Stop, HandleInv, PhaseInv, FdsDistinct, Exclusive,
             HandlesDistinct, IsOpen, toldVars
<1>4. CASE Connect
  BY <1>0, <1>4 DEF Connect, HandleInv, PhaseInv, FdsDistinct, Exclusive, HandlesDistinct,
     IsOpen, Handling, loopVars, toldVars
<1>5. ASSUME NEW i \in Ids, HandleAccept(i) PROVE HandleInv'
  <2>1. Handling = {} /\ closing = {}
    BY <1>5, FreeMeansIdle DEF HandleAccept
  <2>2. \A j \in Ids : stage'[j] = IF j = i THEN "start" ELSE stage[j]
    BY <1>5 DEF HandleAccept, To, TypeOK
  <2>3. Handling' = {i}
    BY <2>1, <2>2 DEF Handling
  <2> QED BY <1>0, <1>5, <2>1, <2>2, <2>3 DEF HandleAccept, HandleInv, PhaseInv, FdsDistinct,
             Exclusive, HandlesDistinct, IsOpen
<1>6. ASSUME NEW i \in Ids, HandleAcceptError(i) \/ AcceptAgain(i) PROVE HandleInv'
  <2>1. /\ stage[i] \in {"error", "again"} /\ StartAccept([stage EXCEPT ![i] = "done"])
        /\ UNCHANGED <<fd, handle, known, silent, closing>>
    BY <1>6 DEF HandleAcceptError, AcceptAgain, toldVars
  <2>2. \A j \in Ids : \/ stage'[j] = stage[j]
                       \/ j = i /\ stage'[j] = "done"
                       \/ stage[j] = "none" /\ stage'[j] = "waiting"
    <3>1. CASE acceptor = "listening"
      <4>1. made + 1 \in Ids /\ made + 1 > made
        BY <2>1, <3>1, ServerAssumption DEF StartAccept, TypeOK, Ids
      <4>2. stage[made + 1] = "none"
        BY <4>1 DEF LoopInv
      <4> QED BY <2>1, <3>1, <4>1, <4>2 DEF StartAccept, TypeOK
    <3>2. CASE acceptor # "listening"
      BY <2>1, <3>2 DEF StartAccept, TypeOK
    <3> QED BY <3>1, <3>2
  <2>3. Handling' \subseteq Handling
    BY <2>2 DEF Handling
  <2>4. Exclusive' /\ HandlesDistinct' /\ FdsDistinct'
    BY <1>0, <2>1, <2>3 DEF Exclusive, HandlesDistinct, FdsDistinct, IsOpen
  <2>5. PhaseInv'
    BY <1>0, <2>1, <2>2 DEF PhaseInv, IsOpen
  <2> QED BY <2>4, <2>5 DEF HandleInv
<1>7. ASSUME NEW i \in Ids, StartSession(i) \/ StartThrows(i) PROVE HandleInv'
  <2>1. /\ stage[i] = "start" /\ known[i] = "no" /\ i \notin closing
        /\ UNCHANGED <<known, silent, closing>>
    BY <1>0, <1>7 DEF StartSession, StartThrows, PhaseInv, toldVars
  <2>2. \A j \in Ids : j # i => stage'[j] = stage[j] /\ fd'[j] = fd[j] /\ handle'[j] = handle[j]
    BY <1>7 DEF StartSession, StartThrows, To, TypeOK
  <2>3. /\ stage'[i] \in {"notify", "again", "threw"} /\ handle'[i] = fd[i] /\ IsOpen(i)
        /\ stage'[i] \in {"notify", "again"} => fd'[i] = fd[i]
        /\ fd'[i] = fd[i] \/ fd'[i] = Null
    BY <1>0, <1>7, <2>1 DEF StartSession, StartThrows, To, TypeOK, PhaseInv
  <2>4. PhaseInv' /\ FdsDistinct'
    BY <1>0, <2>1, <2>2, <2>3 DEF PhaseInv, FdsDistinct, IsOpen
  <2>5. Exclusive'
    <3>1. Handling' \subseteq Handling
      BY <2>1, <2>2, <2>3 DEF Handling
    <3> QED BY <1>0, <2>1, <3>1 DEF Exclusive
  <2>6. HandlesDistinct'
    BY <1>0, <2>1, <2>2 DEF HandlesDistinct
  <2> QED BY <2>4, <2>5, <2>6 DEF HandleInv
<1>8. ASSUME NEW i \in Ids, OnEstablished(i) PROVE HandleInv'
  <2>1. stage[i] = "notify" /\ IsOpen(i) /\ handle[i] = fd[i] /\ i \in Handling
    BY <1>0, <1>8 DEF OnEstablished, PhaseInv, Handling
  <2>2. closing = {}
    BY <1>0, <2>1 DEF Exclusive, PhaseInv, TypeOK
  <2>3. HandlesDistinct'
    BY <1>8, <2>1, <2>2, FreshHandle DEF OnEstablished, TypeOK
  <2>4. \A j \in Ids : /\ stage'[j] = IF j = i THEN "again" ELSE stage[j]
                       /\ known'[j] = IF j = i THEN "up" ELSE known[j]
    BY <1>8 DEF OnEstablished, To, TypeOK
  <2>5. PhaseInv' /\ FdsDistinct'
    BY <1>0, <1>8, <2>1, <2>4 DEF OnEstablished, PhaseInv, FdsDistinct, IsOpen
  <2>6. Exclusive'
    <3>1. Handling' = Handling
      BY <2>1, <2>4 DEF Handling
    <3> QED BY <1>0, <1>8, <3>1 DEF OnEstablished, Exclusive
  <2> QED BY <2>3, <2>5, <2>6 DEF HandleInv
<1>9. ASSUME NEW i \in Ids, OnHandshaken(i) PROVE HandleInv'
  <2>1. Handling = {} /\ closing = {}
    BY <1>9, FreeMeansIdle DEF OnHandshaken
  <2>2. stage[i] = "done" /\ IsOpen(i) /\ handle[i] = fd[i]
    BY <1>0, <1>9, <2>1 DEF OnHandshaken, Started, PhaseInv, Handling
  <2>3. HandlesDistinct'
    BY <1>9, <2>1, <2>2, FreshHandle DEF OnHandshaken, TypeOK
  <2>4. \A j \in Ids : known'[j] = IF j = i THEN "up" ELSE known[j]
    BY <1>9 DEF OnHandshaken, TypeOK
  <2>5. PhaseInv' /\ FdsDistinct' /\ Exclusive'
    BY <1>0, <1>9, <2>2, <2>4 DEF OnHandshaken, PhaseInv, FdsDistinct, Exclusive, IsOpen,
       Handling, loopVars
  <2> QED BY <2>3, <2>5 DEF HandleInv
<1>10. ASSUME NEW i \in Ids, HandleClose(i) \/ CloseSilently(i) PROVE HandleInv'
  <2>1. Handling = {} /\ closing = {}
    BY <1>10, FreeMeansIdle DEF HandleClose, CloseSilently
  <2>2. stage[i] = "done"
    BY <1>10, <2>1 DEF HandleClose, CloseSilently, Started, Handling
  <2>3. \A j \in Ids : fd'[j] = IF j = i THEN Null ELSE fd[j]
    BY <1>10 DEF HandleClose, CloseSilently, TypeOK, Keys
  <2>4. /\ UNCHANGED <<stage, handle, known>> /\ silent \subseteq silent'
        /\ silent' \subseteq silent \cup {i} /\ closing' \subseteq {i}
        /\ i \in silent' \cup closing'
    BY <1>10, <2>1 DEF HandleClose, CloseSilently, loopVars, toldVars
  <2>5. PhaseInv'
    BY <1>0, <2>1, <2>2, <2>3, <2>4 DEF PhaseInv, IsOpen
  <2>6. FdsDistinct'
    BY <1>0, <2>3 DEF FdsDistinct, IsOpen
  <2>7. Exclusive'
    BY <2>1, <2>4 DEF Exclusive, Handling
  <2>8. HandlesDistinct'
    BY <1>0, <2>4 DEF HandlesDistinct
  <2> QED BY <2>5, <2>6, <2>7, <2>8 DEF HandleInv
<1>11. ASSUME NEW i \in Ids, OnClosed(i) PROVE HandleInv'
  <2>1. /\ stage[i] = "done" /\ UNCHANGED <<stage, fd, handle, silent>>
        /\ closing' = closing \ {i}
    BY <1>0, <1>11 DEF OnClosed, PhaseInv, loopVars
  <2>2. \A j \in Ids : known'[j] = IF j = i THEN "down" ELSE known[j]
    BY <1>11 DEF OnClosed, TypeOK
  <2>3. PhaseInv' /\ FdsDistinct'
    BY <1>0, <2>1, <2>2 DEF PhaseInv, FdsDistinct, IsOpen
  <2>4. Exclusive'
    BY <1>0, <2>1 DEF Exclusive, Handling
  <2>5. HandlesDistinct'
    BY <1>0, <2>1, <2>2 DEF HandlesDistinct
  <2> QED BY <2>3, <2>4, <2>5 DEF HandleInv
<1>12. ASSUME NEW i \in Ids, Accepted(i) PROVE HandleInv'
  <2>1. PICK f \in Fds \ {fd[j] : j \in Ids} : fd' = [fd EXCEPT ![i] = f]
    BY <1>12 DEF Accepted
  <2>2. f # Null /\ \A j \in Ids : fd[j] # f
    BY <2>1, IdsType
  <2>3. \A j \in Ids : /\ fd'[j] = IF j = i THEN f ELSE fd[j]
                       /\ stage'[j] = IF j = i THEN "ok" ELSE stage[j]
    BY <1>12, <2>1 DEF Accepted, To, TypeOK
  <2>4. stage[i] = "waiting" /\ UNCHANGED <<handle, known, silent, closing>>
    BY <1>12 DEF Accepted, toldVars
  <2>5. PhaseInv'
    BY <1>0, <2>2, <2>3, <2>4 DEF PhaseInv, IsOpen
  <2>6. FdsDistinct'
    BY <1>0, <2>2, <2>3 DEF FdsDistinct, IsOpen
  <2>7. Exclusive'
    <3>1. Handling' = Handling
      BY <2>3, <2>4 DEF Handling
    <3> QED BY <1>0, <2>4, <3>1 DEF Exclusive
  <2>8. HandlesDistinct'
    BY <1>0, <2>4 DEF HandlesDistinct
  <2> QED BY <2>5, <2>6, <2>7, <2>8 DEF HandleInv
<1>13. ASSUME NEW i \in Ids, AcceptFails(i) PROVE HandleInv'
  <2>1. stage[i] = "waiting" /\ \A j \in Ids : stage'[j] = IF j = i THEN "error" ELSE stage[j]
    BY <1>13 DEF AcceptFails, To, TypeOK
  <2>2. Handling' = Handling
    BY <2>1 DEF Handling
  <2> QED BY <1>0, <1>13, <2>1, <2>2 DEF AcceptFails, HandleInv, PhaseInv, FdsDistinct,
             Exclusive, HandlesDistinct, IsOpen, toldVars
<1>14. ASSUME NEW i \in Ids, PeerGone(i) PROVE HandleInv'
  BY <1>0, <1>14 DEF PeerGone, HandleInv, PhaseInv, FdsDistinct, Exclusive, HandlesDistinct,
     IsOpen, Handling, loopVars, toldVars
<1>15. CASE UNCHANGED vars
  BY <1>0, <1>15 DEF vars, HandleInv, PhaseInv, FdsDistinct, Exclusive, HandlesDistinct,
     IsOpen, Handling, loopVars, toldVars
<1> QED BY <1>1, <1>2, <1>3, <1>4, <1>5, <1>6, <1>7, <1>8, <1>9, <1>10, <1>11, <1>12,
           <1>13, <1>14, <1>15 DEF Next, AcceptSteps, SessionSteps, Network

\* On one runner thread two sessions the pulse takes for established have
\* different handles, however descriptors are reused, unless one of them was
\* closed without on_closed().
THEOREM DistinctHandles ==
  ASSUME Threads = 1 PROVE Spec => []HandlesDistinct
<1>1. Init => HandleInv
  BY DEF Init, HandleInv, PhaseInv, FdsDistinct, Exclusive, HandlesDistinct, IsOpen, Handling
<1>2. TypeOK /\ LoopInv /\ HandleInv /\ [Next]_vars => HandleInv'
  BY HandleStep
<1>3. HandleInv => HandlesDistinct
  BY DEF HandleInv
<1> QED BY <1>1, <1>2, <1>3, LoopInvariant, PTL DEF Spec
=============================================================================
