------------------------------- MODULE Timer --------------------------------
(***************************************************************************)
(* timer_service of a runner and its object_pool<timer>: timers are        *)
(* constructed in slots of the pool's memory and go back to the pool with  *)
(* the last reference.  A wait outlives its timer: its handler is called   *)
(* whether the wait expired or was aborted, with a pointer to the slot,    *)
(* whoever lives there by then.                                            *)
(*                                                                         *)
(* The state is one record, changed by the operators below, so that a      *)
(* handler can use the service within one step.                            *)
(***************************************************************************)
EXTENDS Integers, Sequences

CONSTANTS Owners,     \* users of the service, each with one handler
          Repeats,    \* owners that call repeat(), the others call once()
          Stranded    \* owners that pass a strand

ASSUME TimerAssumption == Repeats \subseteq Owners /\ Stranded \subseteq Owners

VARIABLE timers

\* set[i]: set_ of the timer in slot i; pool: the free slots; ref: the slot
\* each owner's reference points to, 0 for none; waits: the outstanding
\* async_waits, each with its slot and the owner of its handler.  A wait may
\* complete at any time: expired, or aborted by cancel(), by expires_from_now()
\* or by the destructor, which no handler looks at.
TimerInit ==
  timers = [set |-> <<>>, pool |-> <<>>, ref |-> [o \in Owners |-> 0], waits |-> <<>>]

Wait(t, slot, o) == [t EXCEPT !.waits = Append(@, [slot |-> slot, owner |-> o])]

\* timer::cancel()
Cancel(t, slot) == IF t.set[slot] THEN [t EXCEPT !.set[slot] = FALSE] ELSE t

\* Mutant: the slot stays in the pool.
ConstructKeeps(t, o) ==
  IF t.pool = <<>>
  THEN [t EXCEPT !.set = Append(@, FALSE), !.ref[o] = Len(t.set) + 1]
  ELSE [t EXCEPT !.set[Head(t.pool)] = FALSE, !.ref[o] = Head(t.pool)]

\* object_pool::construct(): a slot of the pool, or new memory.
Construct(t, o) ==
  IF t.pool = <<>>
  THEN [t EXCEPT !.set = Append(@, FALSE), !.ref[o] = Len(t.set) + 1]
  ELSE [t EXCEPT !.pool = Tail(@), !.set[Head(t.pool)] = FALSE, !.ref[o] = Head(t.pool)]

\* timer_service::once() and repeat()
StartTimer(t, o) ==
  LET c == Construct(t, o)
  IN  Wait([c EXCEPT !.set[c.ref[o]] = TRUE], c.ref[o], o)

\* The deleter of the pool: ~timer() and release().
Release(t, o) ==
  LET slot == t.ref[o]
  IN  [Cancel(t, slot) EXCEPT !.pool = Append(@, slot), !.ref[o] = 0]

\* The completed wait w is taken from the queue, before its handler is called.
Completed(t, w) ==
  [t EXCEPT !.waits = SubSeq(@, 1, w - 1) \o SubSeq(@, w + 1, Len(@))]

\* Mutant: waits once.
AfterCallOnce(t, slot, o) == t

\* After the handler: repeat_call() waits again while set_.  The handler of
\* repeat() on a strand does not go through repeat_call().
AfterCall(t, slot, o) ==
  IF o \in Repeats \ Stranded /\ t.set[slot] THEN Wait(t, slot, o) ELSE t
=============================================================================
