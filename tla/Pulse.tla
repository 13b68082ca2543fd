------------------------------- MODULE Pulse -------------------------------
(***************************************************************************)
(* The pulse tree: children bound to parents, subscriptions at every pulse, *)
(* interests of all descendants kept at the root, and dispatch() from the   *)
(* root to whoever is interested.                                           *)
(*                                                                         *)
(* A pulse is used by its owner (as_child, with_session, subscribe, stop,  *)
(* the destructor, one after the other); events reach the root on any      *)
(* thread.  Each step below is one critical section of a sub_mutex_.       *)
(***************************************************************************)
EXTENDS Naturals, Sequences, FiniteSets

CONSTANTS Pulses,      \* all pulses
          Root,        \* the one with the server, the client or neither
          Parent,      \* Parent[p]: what p is made a child of (p # Root)
          Final,       \* the pulses that are marked mark_final()
          Sessions,
          Topics,
          MaxSubs,     \* bound: subscriptions of one pulse
          OrderlyStop  \* children are stopped first, and a stopped pulse is
                       \* left alone (the application's discipline)

Children == Pulses \ {Root}
Any  == "any"                        \* key 0: no session
Keys == Sessions \cup {Any}
NoTopic == "no topic"
None == [key |-> Any, topic |-> NoTopic]     \* no interest
Nobody == "nobody"
Interest == [key : Keys, topic : Topics]

ASSUME PulseAssumption ==
  /\ Root \in Pulses
  /\ Parent \in [Children -> Pulses]
  /\ Final \subseteq Pulses
  /\ Any \notin Sessions
  /\ NoTopic \notin Topics
  /\ Nobody \notin Pulses
  /\ MaxSubs \in Nat
  /\ OrderlyStop \in BOOLEAN

VARIABLES
  life,       \* "new", "live" or "gone" (destroyed)
  childs,     \* childs_
  session,    \* session_, Any when there is none
  subs,       \* subscriptions_, in the order of subscribe()
  self,       \* self_interests_
  interests,  \* interests_ of the root: <<interest, pulse>>
  showing,    \* what subscribe() has still to show to the root
  stopped,    \* "no", "yes" (stop_) or "threw" (stop_ set, nothing done)
  last        \* the latest dispatch() and the handlers it posted

ownVars == <<life, childs, session, subs, self, showing, stopped>>
vars == <<ownVars, interests, last>>

Idle == [at |-> Nobody, session |-> Any, topic |-> NoTopic, posts |-> {}]

Init ==
  /\ life = [p \in Pulses |-> IF p = Root THEN "live" ELSE "new"]
  /\ childs = [p \in Pulses |-> {}]
  /\ session = [p \in Pulses |-> Any]
  /\ subs = [p \in Pulses |-> <<>>]
  /\ self = [p \in Pulses |-> {}]
  /\ interests = {}
  /\ showing = [p \in Pulses |-> None]
  /\ stopped = [p \in Pulses |-> "no"]
  /\ last = Idle

-----------------------------------------------------------------------------
(* The owner of a pulse. *)

\* p is between two operations of its owner.
InUse(p) ==
  /\ life[p] = "live" /\ showing[p] = None
  /\ OrderlyStop => stopped[p] = "no"

\* bind_child(): a final pulse refuses.
BindChild(q, p) == q \notin Final /\ childs' = [childs EXCEPT ![q] = @ \cup {p}]

AsChild(p) ==
  /\ life[p] = "new" /\ life[Parent[p]] = "live"
  /\ OrderlyStop => stopped[Parent[p]] = "no"
  /\ life' = [life EXCEPT ![p] = "live"]
  /\ BindChild(Parent[p], p)
  /\ last' = Idle
  /\ UNCHANGED <<session, subs, self, interests, showing, stopped>>

\* bind_child() throws out of as_child(), and the pulse is given up unbound.
Refused(p) ==
  /\ life[p] = "new" /\ life[Parent[p]] = "live" /\ Parent[p] \in Final
  /\ life' = [life EXCEPT ![p] = "gone"]
  /\ last' = Idle
  /\ UNCHANGED <<childs, session, subs, self, interests, showing, stopped>>

WithSession(p, s) ==
  /\ p # Root /\ InUse(p)
  /\ session' = [session EXCEPT ![p] = s]
  /\ last' = Idle
  /\ UNCHANGED <<life, childs, subs, self, interests, showing, stopped>>

\* Mutant: the interest is kept without the session.
SubscribeKeepsAny(p, t) ==
  LET i == [key |-> session[p], topic |-> t]
  IN  /\ InUse(p) /\ Len(subs[p]) < MaxSubs
      /\ subs' = [subs EXCEPT ![p] = Append(@, i)]
      /\ IF p = Root THEN UNCHANGED <<self, showing>>
         ELSE /\ self' = [self EXCEPT ![p] = @ \cup {[key |-> Any, topic |-> t]}]
              /\ showing' = [showing EXCEPT ![p] = i]
      /\ last' = Idle
      /\ UNCHANGED <<life, childs, session, interests, stopped>>

\* subscribe(): the pulse's own maps ...
Subscribe(p, t) ==
  LET i == [key |-> session[p], topic |-> t]
  IN  /\ InUse(p) /\ Len(subs[p]) < MaxSubs
      /\ subs' = [subs EXCEPT ![p] = Append(@, i)]
      /\ IF p = Root THEN UNCHANGED <<self, showing>>
         ELSE /\ self' = [self EXCEPT ![p] = @ \cup {i}]
              /\ showing' = [showing EXCEPT ![p] = i]
      /\ last' = Idle
      /\ UNCHANGED <<life, childs, session, interests, stopped>>

\* ... and show_interest() at the root.
ShowInterest(p) ==
  /\ showing[p] # None
  /\ interests' = interests \cup {<<showing[p], p>>}
  /\ showing' = [showing EXCEPT ![p] = None]
  /\ last' = Idle
  /\ UNCHANGED <<life, childs, session, subs, self, stopped>>

\* Mutant: the whole entry of each interest is erased.
UnbindErasesEntry(p) ==
  /\ childs' = [childs EXCEPT ![Parent[p]] = @ \ {p}]
  /\ interests' = {e \in interests : e[1] \notin self[p]}

\* unbind_child(): the parent forgets the child; only a parent that is the
\* root drops the child's interests.
Unbind(p) ==
  /\ childs' = [childs EXCEPT ![Parent[p]] = @ \ {p}]
  /\ interests' = IF Parent[p] = Root
                  THEN {e \in interests : ~(e[2] = p /\ e[1] \in self[p])}
                  ELSE interests

\* What stop() does once no child is bound (server and client: see Server
\* and Client).
Stopping(p) ==
  /\ childs[p] = {}
  /\ IF p = Root THEN UNCHANGED <<childs, interests>> ELSE Unbind(p)

\* Mutant: the parent is not told.
StopUnannounced(p) ==
  /\ life[p] = "live" /\ showing[p] = None /\ stopped[p] = "no" /\ childs[p] = {}
  /\ stopped' = [stopped EXCEPT ![p] = "yes"]
  /\ last' = Idle
  /\ UNCHANGED <<life, childs, interests, session, subs, self, showing>>

\* stop(), the first time: stop_ is set before the children are looked at.
Stop(p) ==
  /\ life[p] = "live" /\ showing[p] = None /\ stopped[p] = "no"
  /\ \/ /\ Stopping(p)
        /\ stopped' = [stopped EXCEPT ![p] = "yes"]
     \/ /\ ~OrderlyStop /\ childs[p] # {}
        /\ stopped' = [stopped EXCEPT ![p] = "threw"]
        /\ UNCHANGED <<childs, interests>>
  /\ last' = Idle
  /\ UNCHANGED <<life, session, subs, self, showing>>

\* The destructor calls stop(), which returns at once if stop_ is set.  (A
\* throwing stop() would end the program here.)
Destroy(p) ==
  /\ p # Root /\ life[p] = "live" /\ showing[p] = None
  /\ IF stopped[p] = "no" THEN Stopping(p) ELSE UNCHANGED <<childs, interests>>
  /\ life' = [life EXCEPT ![p] = "gone"]
  /\ session' = [session EXCEPT ![p] = Any]
  /\ subs' = [subs EXCEPT ![p] = <<>>]
  /\ self' = [self EXCEPT ![p] = {}]
  /\ stopped' = [stopped EXCEPT ![p] = "no"]
  /\ last' = Idle
  /\ UNCHANGED showing

-----------------------------------------------------------------------------
(* dispatch() *)

\* Mutant: the root's groups are not told apart.
IsTargetLoose(sub, key, fromRoot) == sub = Any \/ sub = key

\* A subscription is a target: of the root's group with exactly its key, or
\* of an event given to the pulse itself.
IsTarget(sub, key, fromRoot) ==
  IF fromRoot THEN sub = key ELSE sub = Any \/ sub = key

\* The handlers p posts, each with the session it is given.
Post(p, key, t, fromRoot) ==
  {[group |-> <<fromRoot, key>>, at |-> p, sub |-> i, given |-> key] :
     i \in {j \in 1..Len(subs[p]) :
              subs[p][j].topic = t /\ IsTarget(subs[p][j].key, key, fromRoot)}}

\* The root passes the event on to the pulses with an interest in the topic
\* under key.
Group(key, t) ==
  UNION {Post(e[2], key, t, TRUE) :
           e \in {f \in interests : f[1] = [key |-> key, topic |-> t]}}

\* An event of session s (Any: none) is given to p: publish(), and at the root
\* on_receive(), on_established(), on_closed().  Pulses without a session are
\* given the null session.
Dispatch(p, s, t) ==
  /\ life[p] = "live"
  /\ last' = [at |-> p, session |-> s, topic |-> t,
              posts |-> Post(p, s, t, FALSE) \cup
                        (IF p = Root
                         THEN Group(Any, t) \cup (IF s = Any THEN {} ELSE Group(s, t))
                         ELSE {})]
  /\ UNCHANGED <<ownVars, interests>>

-----------------------------------------------------------------------------
Owner(p) ==
  \/ \E t \in Topics : Subscribe(p, t)
  \/ ShowInterest(p)
  \/ Stop(p)
  \/ \E s \in Sessions : WithSession(p, s)
  \/ Destroy(p)

Next ==
  \/ \E p \in Children : AsChild(p) \/ Refused(p)
  \/ \E p \in Pulses, s \in Keys, t \in Topics : Dispatch(p, s, t)
  \/ \E p \in Pulses : Owner(p)

Spec == Init /\ [][Next]_vars

-----------------------------------------------------------------------------
(* Properties. *)

TypeOK ==
  /\ life \in [Pulses -> {"new", "live", "gone"}]
  /\ childs \in [Pulses -> SUBSET Children]
  /\ session \in [Pulses -> Keys]
  /\ subs \in [Pulses -> Seq(Interest)]
  /\ self \in [Pulses -> SUBSET Interest]
  /\ interests \subseteq Interest \X Children
  /\ showing \in [Pulses -> Interest \cup {None}]
  /\ stopped \in [Pulses -> {"no", "yes", "threw"}]

\* The root keeps no pointer to a pulse that has been destroyed: dispatch()
\* follows every one of them.
InterestsAlive == \A e \in interests : life[e[2]] = "live"

\* What unbind_child() does achieve: none to a destroyed child of its own.
DirectInterestsAlive ==
  \A e \in interests : Parent[e[2]] = Root => life[e[2]] = "live"

\* A parent outlives the children that are bound to it: get_root(),
\* get_runner() and unbind_child() go through parent_.
ParentAlive ==
  \A p \in Children :
    life[p] = "live" /\ stopped[p] # "yes" => life[Parent[p]] = "live"

\* A live pulse that is not in the middle of subscribe() is known at the root
\* for everything it subscribed, whatever its siblings do.
AllHeard ==
  \A p \in Children :
    life[p] = "live" /\ stopped[p] = "no" /\ showing[p] = None =>
      \A i \in 1..Len(subs[p]) : <<subs[p][i], p>> \in interests

Times(p, i) == Cardinality({x \in last.posts : x.at = p /\ x.sub = i})

\* An event at the root reaches every matching subscription of every bound
\* pulse exactly once, also when a pulse subscribed the topic both with and
\* without a session, and no other.
ExactlyOnce ==
  last.at = Root =>
    \A p \in Children :
      life[p] = "live" /\ stopped[p] = "no" /\ showing[p] = None =>
        \A i \in 1..Len(subs[p]) :
          Times(p, i) = IF /\ subs[p][i].topic = last.topic
                           /\ subs[p][i].key \in {Any, last.session}
                        THEN 1 ELSE 0

\* Once stop() of a child of the root has returned, an event at the root
\* posts no handler of it.
SilentAfterStop ==
  last.at = Root =>
    \A x \in last.posts : x.at # Root /\ Parent[x.at] = Root => stopped[x.at] # "yes"

-----------------------------------------------------------------------------
(* Inductive invariants. *)

\* What is being shown was subscribed last by a pulse in use.
ShowingInv ==
  \A p \in Pulses : showing[p] # None =>
    /\ p \in Children /\ life[p] = "live"
    /\ OrderlyStop => stopped[p] = "no"
    /\ showing[p] \in self[p]

\* An interest of the root's own child is kept for a pulse that is in use and
\* remembers it.
KnownInv ==
  \A e \in interests : Parent[e[2]] = Root =>
    /\ life[e[2]] = "live" /\ stopped[e[2]] = "no"
    /\ e[1] \in self[e[2]]

\* Every subscription is at the root or on its way there.
HeardInv ==
  \A p \in Children :
    /\ life[p] # "live" => subs[p] = <<>>
    /\ life[p] = "live" /\ stopped[p] = "no" =>
         \A i \in 1..Len(subs[p]) :
           <<subs[p][i], p>> \in interests \/ showing[p] = subs[p][i]

\* Only a pulse without children has been stopped.
BoundInv ==
  /\ \A p \in Pulses : stopped[p] # "threw" /\ (stopped[p] = "yes" => childs[p] = {})
  /\ \A p \in Children : life[p] = "live" /\ stopped[p] = "no" =>
       p \in childs[Parent[p]] /\ life[Parent[p]] = "live"
=============================================================================
