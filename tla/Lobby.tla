-------------------------------- MODULE Lobby --------------------------------
(***************************************************************************)
(* The login of the alpha sample: clients log in at the front (lobby_runner *)
(* and a lobby_user_actor per request), which asks the back (user_master   *)
(* and a user_proxy per request) over one session, that may be lost and is *)
(* connected again.                                                        *)
(*                                                                         *)
(* Handlers of lobby_runner run on its strand, one at a time; sessions     *)
(* report on any thread.  The front's pulse has subscribed the topic of    *)
(* the answer itself, so that call() does not: calls are registered and    *)
(* never taken off, and all of them fail when the session closes.  Ids of  *)
(* actors are their numbers.  Frames between front and back are queues,    *)
(* lost with their session.                                                *)
(***************************************************************************)
EXTENDS Index, SequencesExt

CONSTANTS Clients,    \* sessions of clients; each logs in under a name of its own
          MaxActors,  \* login requests in all
          MaxLosses   \* losses of the session to the back

VARIABLES
  up,       \* is the front running?
  acts,     \* lobby_user_actors ever made: session, state_, answers sent
  users,    \* users_ of lobby_runner
  pulse,    \* pulse_back_ of lobby_runner: session (0 none), topic_closed subscribed, calls_
  calling,  \* the actor that has sent its request and not registered it yet, 0 none
  tasks,    \* posted to the strand of lobby_runner: what, and for which actor
  link,     \* the session to the back: number, open, told to the front, to the back
  f2b,      \* frames on their way to the back
  b2f,      \* frames on their way to the front
  back      \* user_master: users_, the names of its actors, posted deletions, fronts_

vars == <<up, acts, users, pulse, calling, tasks, link, f2b, b2f, back>>

Numbers == 1..MaxActors
NewUsers == NewContainer(Numbers, {"name"}, Clients)
Named(name) == [k \in {"name"} |-> name]

Init ==
  /\ up = TRUE
  /\ acts = <<>>
  /\ users = NewUsers
  /\ pulse = [session |-> 0, closed |-> FALSE, calls |-> <<>>]
  /\ calling = 0
  /\ tasks = {}
  /\ link = [no |-> 1, open |-> TRUE, front |-> FALSE, back |-> FALSE]
  /\ f2b = <<>> /\ b2f = <<>>
  /\ back = [users |-> NewUsers, names |-> <<>>, dels |-> {}, fronts |-> {}]

\* The session a service is handed with an event of session s, where it subscribed
\* without one: dispatch() of the root hands null_session to its children.
Handed(s) == 0

\* Can the pulse send?
Connected == pulse.session = link.no /\ link.open

Idle == up /\ calling = 0

-----------------------------------------------------------------------------
(* The front *)

\* on_login_fail_pending(): an answer, and post_del_user()
LoginFails(as, n) == [as EXCEPT ![n].answers = @ + 1]
FailTasks(n) == {<<"del", n>>}

\* on_auth_req_login(): an actor, added and started, whose on_start() calls the back.
\* Without its own session, or the one to the back, the process ends there; where
\* the frame cannot be sent the callback of the call runs at once.
Login(c) ==
  LET n == Len(acts) + 1
      a == [session |-> Handed(c), name |-> c, state |-> "pending", answers |-> 0]
      ends == a.session = 0 \/ pulse.session = 0
  IN  /\ Idle /\ n <= MaxActors
      /\ users' = AddActor(users, n, n, Named(c))
      /\ \/ /\ ends
            /\ up' = FALSE
            /\ link' = [link EXCEPT !.open = FALSE]
            /\ acts' = Append(acts, a)
            /\ UNCHANGED <<calling, tasks, f2b>>
         \/ /\ ~ends /\ Connected
            /\ acts' = Append(acts, a)
            /\ f2b' = Append(f2b, [what |-> "login", name |-> c])
            /\ calling' = n
            /\ UNCHANGED <<up, tasks, link>>
         \/ /\ ~ends /\ ~Connected
            /\ acts' = LoginFails(Append(acts, a), n)
            /\ tasks' = tasks \union FailTasks(n)
            /\ UNCHANGED <<up, calling, link, f2b>>
      /\ UNCHANGED <<pulse, b2f, back>>

\* pulse::call(), after the frame was sent: topic_closed, and the caller
Register ==
  /\ calling # 0
  /\ pulse' = [pulse EXCEPT !.closed = TRUE, !.calls = Append(@, calling)]
  /\ calling' = 0
  /\ UNCHANGED <<up, acts, users, tasks, link, f2b, b2f, back>>

\* do_login() of actor n
DoLogin(n) ==
  IF acts[n].state = "pending"
  THEN /\ acts' = [acts EXCEPT ![n].state = "login", ![n].answers = @ + 1]
       /\ UNCHANGED tasks
  ELSE /\ tasks' = tasks \union {<<"del", n>>}
       /\ UNCHANGED acts

\* on_auth_syn_login_b2f(): whoever is found under the name
OnSynLogin ==
  LET n == Find(users, "name", Head(b2f))
  IN  /\ Idle /\ b2f # <<>> /\ link.open
      /\ b2f' = Tail(b2f)
      /\ IF n = None THEN UNCHANGED <<acts, tasks>> ELSE DoLogin(n)
      /\ UNCHANGED <<up, users, pulse, calling, link, f2b, back>>

\* on_auth_req_logout(): on a request, or when the session of the client closes
Logout(n) ==
  /\ Idle
  /\ f2b' = IF Connected THEN Append(f2b, [what |-> "logout", name |-> acts[n].name]) ELSE f2b
  /\ UNCHANGED <<up, acts, users, pulse, calling, tasks, link, b2f, back>>

\* A task of lobby_runner's strand: users_.del() of an actor, which its own
\* subscriptions hold; the callback of a call; call_closed(), which posts every
\* registered call.
RunTask(what, n) ==
  /\ Idle /\ <<what, n>> \in tasks
  /\ \/ /\ what = "del"
        /\ users' = IF users.actors[n] = None THEN users ELSE DelActor(users, n, Named(acts[n].name), {})
        /\ tasks' = tasks \ {<<what, n>>}
        /\ UNCHANGED <<acts, pulse>>
     \/ /\ what = "fail"
        /\ acts' = LoginFails(acts, n)
        /\ tasks' = (tasks \ {<<what, n>>}) \union FailTasks(n)
        /\ UNCHANGED <<users, pulse>>
     \/ /\ what = "closed"
        /\ tasks' = (tasks \ {<<what, n>>}) \union {<<"fail", m>> : m \in ToSet(pulse.calls)}
        /\ pulse' = [pulse EXCEPT !.calls = <<>>]
        /\ UNCHANGED <<acts, users>>
  /\ UNCHANGED <<up, calling, link, f2b, b2f, back>>

-----------------------------------------------------------------------------
(* The session between front and back *)

LinkLost ==
  /\ link.open /\ link.front /\ link.no <= MaxLosses
  /\ link' = [link EXCEPT !.open = FALSE]
  /\ f2b' = <<>> /\ b2f' = <<>>
  /\ UNCHANGED <<up, acts, users, pulse, calling, tasks, back>>

\* dispatch() of topic_closed: call_closed() is posted if the pulse has subscribed
\* it; and connect() of on_closed_back(), which succeeds at some time.
OnClosedFront ==
  /\ up /\ ~link.open /\ link.front
  /\ tasks' = IF pulse.closed /\ pulse.session = link.no THEN tasks \union {<<"closed", 0>>} ELSE tasks
  /\ link' = [no |-> link.no + 1, open |-> TRUE, front |-> FALSE, back |-> FALSE]
  /\ UNCHANGED <<up, acts, users, pulse, calling, f2b, b2f, back>>

\* on_established_back(): another pulse, with the session it was handed
OnEstablishedFront ==
  /\ Idle /\ link.open /\ ~link.front
  /\ link' = [link EXCEPT !.front = TRUE]
  /\ pulse' = [session |-> Handed(link.no), closed |-> FALSE, calls |-> <<>>]
  /\ UNCHANGED <<up, acts, users, calling, tasks, f2b, b2f, back>>

\* on_front_established(), on_front_closed(): user_master subscribed without a
\* session as well.
OnEstablishedBack ==
  /\ link.open /\ ~link.back
  /\ link' = [link EXCEPT !.back = TRUE]
  /\ back' = [back EXCEPT !.fronts = @ \union {Handed(link.no)}]
  /\ UNCHANGED <<up, acts, users, pulse, calling, tasks, f2b, b2f>>

OnClosedBack ==
  /\ ~link.open /\ link.back
  /\ link' = [link EXCEPT !.back = FALSE]
  /\ back' = [back EXCEPT !.fronts = @ \ {Handed(link.no)}]
  /\ UNCHANGED <<up, acts, users, pulse, calling, tasks, f2b, b2f>>

-----------------------------------------------------------------------------
(* The back *)

\* session_container::send(): in the order of the keys, which is that of addresses,
\* until one fails
SentTo(order, opened) ==
  {order[i] : i \in {j \in DOMAIN order : \A k \in 1..j : order[k] \in opened}}

\* on_auth_req_login_f2b(): a proxy, added, and the answer to every front
OnReqLogin ==
  LET name == Head(f2b).name
      n == Len(back.names) + 1
  IN  /\ f2b # <<>> /\ Head(f2b).what = "login" /\ link.open /\ link.back
      /\ f2b' = Tail(f2b)
      /\ back' = [back EXCEPT !.users = AddActor(@, n, n, Named(name)), !.names = Append(@, name)]
      /\ \E order \in SetToSeqs(back.fronts) :
           b2f' = IF link.no \in SentTo(order, {link.no}) THEN Append(b2f, name) ELSE b2f
      /\ UNCHANGED <<up, acts, users, pulse, calling, tasks, link>>

\* on_auth_req_logout_f2b(): the proxy found under the name is deleted by a task.
\* The frame to the fronts goes out under the topic of the login and reads there
\* as one without a name, which changes nothing.
OnReqLogout ==
  LET n == Find(back.users, "name", Head(f2b).name)
  IN  /\ f2b # <<>> /\ Head(f2b).what = "logout" /\ link.open /\ link.back
      /\ f2b' = Tail(f2b)
      /\ back' = [back EXCEPT !.dels = IF n = None THEN @ ELSE @ \union {n}]
      /\ UNCHANGED <<up, acts, users, pulse, calling, tasks, link, b2f>>

\* The task of post_del_user(): only users_ holds a proxy.
DelProxy ==
  \E n \in back.dels, lost \in SUBSET {"name"} :
    /\ back' = [back EXCEPT !.users = DelActor(@, n, Named(back.names[n]), lost), !.dels = @ \ {n}]
    /\ UNCHANGED <<up, acts, users, pulse, calling, tasks, link, f2b, b2f>>

FrontRuns ==
  \/ Register \/ OnSynLogin \/ OnClosedFront \/ OnEstablishedFront
  \/ \E t \in tasks : RunTask(t[1], t[2])
BackRuns == OnEstablishedBack \/ OnClosedBack \/ OnReqLogin \/ OnReqLogout \/ DelProxy
ClientActs == (\E c \in Clients : Login(c)) \/ (\E n \in DOMAIN acts : Logout(n))

Next == FrontRuns \/ BackRuns \/ ClientActs \/ LinkLost

\* The runners of both processes run what is posted and the reconnect of
\* on_closed_back() succeeds; clients and the network may do nothing.
Fairness == WF_vars(FrontRuns) /\ WF_vars(BackRuns)

Spec == Init /\ [][Next]_vars /\ Fairness

-----------------------------------------------------------------------------
(* Properties *)

TypeOK ==
  /\ up \in BOOLEAN
  /\ \A n \in DOMAIN acts : acts[n].state \in {"pending", "login"} /\ acts[n].answers \in Nat
  /\ calling \in 0..Len(acts) /\ ToSet(pulse.calls) \subseteq DOMAIN acts
  /\ tasks \subseteq {"del", "fail", "closed"} \X (0..Len(acts))
  /\ back.dels \subseteq DOMAIN back.names

\* Every request to log in is answered, success or failure, whatever becomes of
\* the session to the back meanwhile.
LoginAnswered ==
  \A n \in Numbers : (n \in DOMAIN acts) ~> (n \in DOMAIN acts /\ acts[n].answers > 0)
=============================================================================
