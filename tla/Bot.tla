-------------------------------- MODULE Bot ---------------------------------
(***************************************************************************)
(* A bot of play/ensure on its runner: the flow of acts (Flow) driven by   *)
(* the bot's repeat timer, whose service (Timer) other users share, and by *)
(* direct calls of update(); the bot is stopped by the application or by   *)
(* its own flow.                                                           *)
(*                                                                         *)
(* The handlers of the runner and the calls of the application are steps   *)
(* of their own: they take turns on the bot's strand, or the application   *)
(* calls before the runner is started or after it is stopped.              *)
(***************************************************************************)
EXTENDS Timer, Flow

CONSTANTS Alone,    \* bound: scripts of bots nobody shares the timer service with
          MaxActs,  \* bound: acts created
          MaxSlots, \* bound: slots of the pool
          MaxWaits  \* bound: outstanding waits when a timer is started

ASSUME BotAssumption ==
  /\ "bot" \in Owners /\ Alone \subseteq Scripts
  /\ MaxActs \in Nat /\ MaxSlots \in Nat /\ MaxWaits \in Nat

VARIABLES
  flow,      \* flow_
  bot,       \* "new", "started", "failed", "stopped" or, with the program, "crashed"
  runner,    \* "running" or "stopped"
  called,    \* history: handlers called so far, by owner: 0, 1, then 2 and 1 in turn
  strangers  \* history: was a handler called with another owner's timer?

vars == <<timers, flow, bot, runner, called, strangers>>

Init ==
  /\ TimerInit
  /\ \E sc \in Scripts : flow = NewFlow(sc)
  /\ bot = "new" /\ runner = "running"
  /\ called = [o \in Owners |-> 0]
  /\ strangers = FALSE

Alive == bot # "crashed"
Room ==
  /\ Len(flow.acts) < MaxActs
  /\ Len(timers.set) < MaxSlots /\ Len(timers.waits) < MaxWaits

-----------------------------------------------------------------------------
(* bot *)

\* actor::start() and bot::on_start(): the flow first, then the timer.
Start ==
  /\ bot = "new"
  /\ flow' = Activate(flow, 1)
  /\ bot' = IF flow'.ok THEN "started" ELSE "failed"
  /\ timers' = IF flow'.ok THEN StartTimer(timers, "bot") ELSE timers
  /\ UNCHANGED <<runner, called, strangers>>

\* Mutant: the flow is left as it is.
OnStopOnlyTimer(t, f) == [timers |-> Cancel(t, t.ref["bot"]), flow |-> f]

\* bot::on_stop()
OnStop(t, f) == [timers |-> Cancel(t, t.ref["bot"]), flow |-> Deactivate(f, 1)]

\* bot::update() with timers t: what the acts do, and OnStop if one of them
\* exits (Exit has deactivated the flow where flow::exit() was called).  What
\* an act throws is logged by the runner.
BotUpdate(t) ==
  LET begun == [flow EXCEPT !.exited = FALSE, !.threw = FALSE]
  IN  /\ flow' = Update(Noted(begun, "late", bot = "stopped"), 1)
      /\ bot' = IF "empty" \in flow'.odd THEN "crashed"
                ELSE IF flow'.exited THEN "stopped" ELSE bot
      /\ timers' = IF flow'.exited THEN Cancel(t, t.ref["bot"]) ELSE t

\* update() called by the application, as the tests do.
DirectUpdate ==
  /\ bot = "started" /\ Room
  /\ BotUpdate(timers)
  /\ UNCHANGED <<runner, called, strangers>>

\* actor::stop() by the application, at any time (ensure::stop() stops the runner
\* first).
Stop ==
  LET s == OnStop(timers, flow)
  IN  /\ bot \in {"started", "stopped"}
      /\ bot' = "stopped"
      /\ timers' = s.timers /\ flow' = s.flow
      /\ UNCHANGED <<runner, called, strangers>>

\* thread_runner::stop(), as the first step of ensure::stop(): no handler is
\* called from now on.
StopRunner ==
  /\ runner = "running" /\ Alive
  /\ runner' = "stopped"
  /\ UNCHANGED <<timers, flow, bot, called, strangers>>

-----------------------------------------------------------------------------
(* The other users of the timer service. *)

Others == Owners \ {"bot"}

StartOther(o) ==
  /\ timers.ref[o] = 0 /\ Room /\ Alive /\ flow.script \notin Alone
  /\ timers' = StartTimer(timers, o)
  /\ UNCHANGED <<flow, bot, runner, called, strangers>>

CancelOther(o) ==
  /\ timers.ref[o] # 0 /\ timers.set[timers.ref[o]] /\ Alive
  /\ timers' = Cancel(timers, timers.ref[o])
  /\ UNCHANGED <<flow, bot, runner, called, strangers>>

\* The last reference is dropped, whether a wait is outstanding or not.
ReleaseOther(o) ==
  /\ timers.ref[o] # 0 /\ Alive
  /\ timers' = Release(timers, o)
  /\ UNCHANGED <<flow, bot, runner, called, strangers>>

-----------------------------------------------------------------------------
(* The runner calls the handler of a wait that expired or was aborted. *)

\* How the wait ended is not looked at; the handler gets the timer in the slot.
Call(w) ==
  LET wait == timers.waits[w]
      t == Completed(timers, w)
  IN  /\ runner = "running" /\ w \in DOMAIN timers.waits /\ Alive
      /\ called' = [called EXCEPT ![wait.owner] = IF @ = 2 THEN 1 ELSE @ + 1]
      /\ strangers' = (strangers \/ timers.ref[wait.owner] # wait.slot)
      /\ IF wait.owner = "bot"
         THEN BotUpdate(t)
         ELSE /\ timers' = AfterCall(t, wait.slot, wait.owner)
              /\ UNCHANGED <<flow, bot>>
      /\ UNCHANGED runner

CallOf(o) == \E w \in DOMAIN timers.waits : timers.waits[w].owner = o /\ Call(w)

Next ==
  \/ Start \/ DirectUpdate \/ Stop \/ StopRunner
  \/ \E o \in Others : StartOther(o) \/ CancelOther(o) \/ ReleaseOther(o)
  \/ \E o \in Owners : CallOf(o)

Spec == Init /\ [][Next]_vars

\* Waits complete and the running runner calls their handlers: weak fairness of
\* CallOf(o), which is the action that changes called[o], with the condition that
\* enables it written out.
Called(o) == called'[o] # called[o]
Callable(o) ==
  /\ runner = "running" /\ Alive
  /\ \E w \in DOMAIN timers.waits : timers.waits[w].owner = o

FairSpec == Spec /\ \A o \in Owners : []<>~Callable(o) \/ []<><<Called(o)>>_vars

-----------------------------------------------------------------------------
(* Properties *)

TypeOK ==
  /\ bot \in {"new", "started", "failed", "stopped", "crashed"}
  /\ runner \in {"running", "stopped"}
  /\ timers.ref \in [Owners -> 0..Len(timers.set)]
  /\ called \in [Owners -> 0..2]
  /\ \A i \in DOMAIN flow.acts : flow.acts[i].kids = <<>> \/
                                 flow.acts[i].index \in DOMAIN flow.acts[i].kids

ActiveActs == {i \in DOMAIN flow.acts : flow.acts[i].active}
Odd(whats) == flow.odd \cap whats # {}

\* A serial act has at most its current act active.
OneCurrent ==
  \A i \in ActiveActs : LET up == flow.acts[i].up IN
    up # 0 /\ TypeOf(flow, up) = "act_serial" => i = CurrentAct(flow, up)

\* The acts are a hierarchical state machine: an active act is below active acts.
ActiveNested ==
  \A i \in ActiveActs : LET up == flow.acts[i].up IN up # 0 => up \in ActiveActs

\* Every act that is active is the one find() returns for its path, as the
\* tests of the flow take for granted.
FindsActive ==
  \A i \in ActiveActs :
    Find(flow, 1, [abs |-> TRUE, parts |-> PathOf(flow.script, flow.acts[i].node)]) = i

\* What is left of a flow in whatever order its acts signal.  A serial act never has
\* two active acts.  Acts are nested until an act leaves the parallel act it is updated
\* by, whose other acts are then updated and may signal although they were deactivated,
\* or an activation fails half way; and only the first can invalidate the iterator of
\* act_parallel::on_update().  find() finds the active acts until a composite is entered
\* again, which then holds two acts of each name.
FlowSound ==
  /\ OneCurrent
  /\ ~Odd({"left", "half", "late"}) => ActiveNested
  /\ Odd({"grown"}) => Odd({"left"})
  /\ ~Odd({"again"}) => FindsActive

\* A jump deactivates the acts it leaves.
\* Refuted: the README says how.
JumpDeactivates == Odd({"half", "late"}) \/ ActiveNested

\* act_serial starts with its first act, as on_activate() checks.
\* Refuted: the README says how.
StartsAtFirst == ~Odd({"first"})

\* A stopped bot has no active act.
\* Refuted: the README says how.
StoppedQuiet == bot = "stopped" => ActiveActs = {}

\* What on_stop() deactivated stays so, unless the bot is updated once more, by the
\* handler of the timer it has cancelled or in the same round by act_parallel; and
\* it finds every active act, unless they are not nested any more.
StopReachesAll == Odd({"left", "half", "late"}) \/ StoppedQuiet

\* A handler is called with the timer it was given to.
\* Refuted: the README says how.
OwnTimer == ~strangers

\* A slot of the pool belongs to one timer, although handlers of earlier owners are
\* still called with it.
SlotsDistinct ==
  /\ \A o, p \in Owners : o # p /\ timers.ref[o] # 0 => timers.ref[o] # timers.ref[p]
  /\ \A o \in Owners : \A k \in DOMAIN timers.pool : timers.pool[k] # timers.ref[o]

\* The timer of a bot updates its flow at least once, unless the bot is stopped, or
\* crashes, or the runner is stopped first.
GetsUpdated == bot = "started" ~> (called["bot"] > 0 \/ bot # "started" \/ runner = "stopped")

\* repeat() goes on until the timer is cancelled or the runner stops.
RepeatGoesOn ==
  \A o \in (Repeats \ Stranded) \ {"bot"} :
    \/ []<><<Called(o)>>_vars
    \/ []<>(timers.ref[o] = 0 \/ ~timers.set[timers.ref[o]] \/ runner = "stopped")

\* A cancelled timer falls silent or is released, unless a handler of its owner was
\* called with the timer of another.
CancelSilences ==
  \A o \in Others :
    (timers.ref[o] # 0 /\ ~timers.set[timers.ref[o]]) ~>
      \/ \A w \in DOMAIN timers.waits : timers.waits[w].owner # o
      \/ timers.ref[o] = 0 \/ runner = "stopped" \/ strangers

\* Timers do what they were started for, and stop when they are told to.
TimersFire == GetsUpdated /\ RepeatGoesOn /\ CancelSilences
=============================================================================
