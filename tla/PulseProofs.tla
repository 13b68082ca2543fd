---------------------------- MODULE PulseProofs ----------------------------
(***************************************************************************)
(* Theorems about Pulse for every set of pulses, sessions and topics.  The *)
(* tree is arbitrary.                                                      *)
(***************************************************************************)
EXTENDS Pulse, FiniteSetTheorems, TLAPS

-----------------------------------------------------------------------------
\* The mark of a subscribe() that is not under way is no interest.
LEMMA NoneIsNoInterest == None \notin Interest
BY PulseAssumption DEF None, Interest

\* Parents and children are pulses, and the root is no child.
LEMMA ParentType == \A p \in Children : Parent[p] \in Pulses /\ p \in Pulses /\ p # Root
BY PulseAssumption DEF Children

\* The initial state is well typed.
LEMMA TypeInit == Init => TypeOK
BY DEF Init, TypeOK, Keys

\* Stopping a pulse keeps the two maps it works on typed.
LEMMA StoppingType ==
  ASSUME TypeOK, NEW p \in Pulses, Stopping(p)
  PROVE  /\ childs' \in [Pulses -> SUBSET Children]
         /\ interests' \subseteq Interest \X Children
<1>1. CASE p = Root
  BY <1>1 DEF Stopping, TypeOK
<1>2. CASE p # Root
  <2>1. p \in Children /\ Parent[p] \in Pulses
    BY <1>2, ParentType DEF Children
  <2>2. childs' = [childs EXCEPT ![Parent[p]] = @ \ {p}]
    BY <1>2 DEF Stopping, Unbind
  <2>3. interests' \subseteq interests
    BY <1>2 DEF Stopping, Unbind
  <2>4. childs' \in [Pulses -> SUBSET Children]
    BY <2>1, <2>2 DEF TypeOK
  <2> QED BY <2>3, <2>4 DEF TypeOK
<1> QED BY <1>1, <1>2

\* Each step keeps the types.
LEMMA TypeStep ==
  ASSUME TypeOK, ShowingInv, [Next]_vars
  PROVE  TypeOK'
<1>1. ASSUME NEW p \in Children, AsChild(p) PROVE TypeOK'
  <2>1. childs' \in [Pulses -> SUBSET Children]
    BY <1>1, ParentType DEF AsChild, BindChild, TypeOK
  <2>2. life' \in [Pulses -> {"new", "live", "gone"}]
    BY <1>1, ParentType DEF AsChild, TypeOK
  <2> QED BY <1>1, <2>1, <2>2 DEF AsChild, TypeOK
<1>2. ASSUME NEW p \in Pulses, NEW t \in Topics, Subscribe(p, t) PROVE TypeOK'
  <2> DEFINE i == [key |-> session[p], topic |-> t]
  <2>1. i \in Interest
    BY DEF TypeOK, Interest
  <2> HIDE DEF i
  <2>2. subs' = [subs EXCEPT ![p] = Append(@, i)]
    BY <1>2 DEF Subscribe, i
  <2>3. subs' \in [Pulses -> Seq(Interest)]
    BY <2>1, <2>2 DEF TypeOK
  <2>4. self' = self \/ self' = [self EXCEPT ![p] = @ \cup {i}]
    BY <1>2 DEF Subscribe, i
  <2>5. showing' = showing \/ showing' = [showing EXCEPT ![p] = i]
    BY <1>2 DEF Subscribe, i
  <2>6. self' \in [Pulses -> SUBSET Interest]
    BY <2>1, <2>4 DEF TypeOK
  <2>7. showing' \in [Pulses -> Interest \cup {None}]
    BY <2>1, <2>5 DEF TypeOK
  <2> QED BY <1>2, <2>3, <2>6, <2>7 DEF Subscribe, TypeOK
<1>3. ASSUME NEW p \in Pulses, ShowInterest(p) PROVE TypeOK'
  <2>0. p \in Children
    BY <1>3 DEF ShowInterest, ShowingInv
  <2>1. showing[p] \in Interest
    BY <1>3 DEF ShowInterest, TypeOK
  <2> QED BY <1>3, <2>0, <2>1 DEF ShowInterest, TypeOK
<1>4. ASSUME NEW p \in Pulses, Stop(p) PROVE TypeOK'
  <2>1. /\ childs' \in [Pulses -> SUBSET Children]
        /\ interests' \subseteq Interest \X Children
    BY <1>4, StoppingType DEF Stop, TypeOK
  <2> QED BY <1>4, <2>1 DEF Stop, TypeOK
<1>5. ASSUME NEW p \in Pulses, NEW s \in Sessions, WithSession(p, s) PROVE TypeOK'
  BY <1>5 DEF WithSession, TypeOK, Keys
<1>6. ASSUME NEW p \in Pulses, Destroy(p) PROVE TypeOK'
  <2>1. /\ childs' \in [Pulses -> SUBSET Children]
        /\ interests' \subseteq Interest \X Children
    BY <1>6, StoppingType DEF Destroy, TypeOK
  <2>2. subs' \in [Pulses -> Seq(Interest)] /\ self' \in [Pulses -> SUBSET Interest]
    BY <1>6 DEF Destroy, TypeOK
  <2>3. session' \in [Pulses -> Keys]
    BY <1>6 DEF Destroy, TypeOK, Keys
  <2> QED BY <1>6, <2>1, <2>2, <2>3 DEF Destroy, TypeOK
<1>7. ASSUME NEW p \in Pulses, NEW s \in Keys, NEW t \in Topics, Dispatch(p, s, t)
      PROVE  TypeOK'
  BY <1>7 DEF Dispatch, ownVars, TypeOK
<1>8. CASE UNCHANGED vars
  BY <1>8 DEF vars, ownVars, TypeOK
<1>R. ASSUME NEW p \in Children, Refused(p) PROVE TypeOK'
  BY <1>R, ParentType DEF Refused, TypeOK
<1> QED BY <1>1, <1>R, <1>2, <1>3, <1>4, <1>5, <1>6, <1>7, <1>8 DEF Next, Owner

-----------------------------------------------------------------------------
(* subscribe() between its own maps and the root's. *)

\* No subscribe() is under way at first.
LEMMA ShowingInit == Init => ShowingInv
BY DEF Init, ShowingInv

\* Only a pulse in use shows an interest, one it has kept for itself.
LEMMA ShowingStep ==
  ASSUME TypeOK, ShowingInv, [Next]_vars
  PROVE  ShowingInv'
<1> SUFFICES ASSUME NEW q \in Pulses, showing'[q] # None
             PROVE  /\ q \in Children /\ life'[q] = "live"
                    /\ OrderlyStop => stopped'[q] = "no"
                    /\ showing'[q] \in self'[q]
  BY DEF ShowingInv
<1>0. showing[q] # None => /\ q \in Children /\ life[q] = "live"
                           /\ OrderlyStop => stopped[q] = "no"
                           /\ showing[q] \in self[q]
  BY DEF ShowingInv
<1>1. ASSUME NEW p \in Children, AsChild(p) PROVE q \in Children /\ life'[q] = "live"
        /\ (OrderlyStop => stopped'[q] = "no") /\ showing'[q] \in self'[q]
  BY <1>0, <1>1 DEF AsChild, TypeOK
<1>2. ASSUME NEW p \in Pulses, NEW t \in Topics, Subscribe(p, t)
      PROVE  /\ q \in Children /\ life'[q] = "live"
             /\ OrderlyStop => stopped'[q] = "no"
             /\ showing'[q] \in self'[q]
  <2>1. life' = life /\ stopped' = stopped
    BY <1>2 DEF Subscribe
  <2>2. CASE q # p
    <3>1. showing'[q] = showing[q] /\ self'[q] = self[q]
      BY <1>2, <2>2 DEF Subscribe, TypeOK
    <3> QED BY <1>0, <2>1, <3>1
  <2>3. CASE q = p /\ p = Root
    <3>1. showing' = showing /\ self' = self
      BY <1>2, <2>3 DEF Subscribe
    <3> QED BY <1>0, <2>1, <3>1
  <2>4. CASE q = p /\ p # Root
    <3>1. showing'[q] \in self'[q]
      BY <1>2, <2>4 DEF Subscribe, TypeOK
    <3>2. life[q] = "live" /\ (OrderlyStop => stopped[q] = "no")
      BY <1>2, <2>4 DEF Subscribe, InUse
    <3> QED BY <2>1, <2>4, <3>1, <3>2 DEF Children
  <2> QED BY <2>2, <2>3, <2>4
<1>3. ASSUME NEW p \in Pulses, ShowInterest(p)
      PROVE  /\ q \in Children /\ life'[q] = "live"
             /\ OrderlyStop => stopped'[q] = "no"
             /\ showing'[q] \in self'[q]
  <2>1. q # p /\ showing'[q] = showing[q]
    BY <1>3 DEF ShowInterest, TypeOK
  <2> QED BY <1>0, <1>3, <2>1 DEF ShowInterest
<1>4. ASSUME NEW p \in Pulses, Stop(p)
      PROVE  /\ q \in Children /\ life'[q] = "live"
             /\ OrderlyStop => stopped'[q] = "no"
             /\ showing'[q] \in self'[q]
  <2>1. q # p
    BY <1>4 DEF Stop
  <2>2. stopped'[q] = stopped[q]
    BY <1>4, <2>1 DEF Stop, TypeOK
  <2> QED BY <1>0, <1>4, <2>2 DEF Stop
<1>5. ASSUME NEW p \in Pulses, NEW s \in Sessions, WithSession(p, s)
      PROVE  /\ q \in Children /\ life'[q] = "live"
             /\ OrderlyStop => stopped'[q] = "no"
             /\ showing'[q] \in self'[q]
  BY <1>0, <1>5 DEF WithSession
<1>6. ASSUME NEW p \in Pulses, Destroy(p)
      PROVE  /\ q \in Children /\ life'[q] = "live"
             /\ OrderlyStop => stopped'[q] = "no"
             /\ showing'[q] \in self'[q]
  <2>1. q # p
    BY <1>6 DEF Destroy
  <2>2. /\ stopped'[q] = stopped[q] /\ life'[q] = life[q] /\ self'[q] = self[q]
        /\ showing' = showing
    BY <1>6, <2>1 DEF Destroy, TypeOK
  <2> QED BY <1>0, <2>2
<1>7. ASSUME NEW p \in Pulses, NEW s \in Keys, NEW t \in Topics, Dispatch(p, s, t)
      PROVE  /\ q \in Children /\ life'[q] = "live"
             /\ OrderlyStop => stopped'[q] = "no"
             /\ showing'[q] \in self'[q]
  BY <1>0, <1>7 DEF Dispatch, ownVars
<1>8. CASE UNCHANGED vars
  BY <1>0, <1>8 DEF vars, ownVars
<1>R. ASSUME NEW p \in Children, Refused(p) PROVE q \in Children /\ life'[q] = "live"
        /\ (OrderlyStop => stopped'[q] = "no") /\ showing'[q] \in self'[q]
  BY <1>0, <1>R DEF Refused, TypeOK
<1> QED BY <1>1, <1>R, <1>2, <1>3, <1>4, <1>5, <1>6, <1>7, <1>8 DEF Next, Owner

\* The types: among them that only children are in the root's interests_.
THEOREM TypeCorrect == Spec => []TypeOK
<1>1. TypeOK /\ ShowingInv /\ [Next]_vars => TypeOK' /\ ShowingInv'
  BY TypeStep, ShowingStep
<1> QED BY TypeInit, ShowingInit, <1>1, PTL DEF Spec

-----------------------------------------------------------------------------
(* The root knows all of the living. *)

\* There is no subscription at first.
LEMMA HeardInit == Init => HeardInv
BY DEF Init, HeardInv, Children

\* Each step keeps every subscription at the root or being shown.
LEMMA HeardStep ==
  ASSUME TypeOK, HeardInv, [Next]_vars
  PROVE  HeardInv'
<1> DEFINE Known(q) == \A i \in 1..Len(subs[q]) :
                         <<subs[q][i], q>> \in interests \/ showing[q] = subs[q][i]
           Ok(q) == /\ life[q] # "live" => subs[q] = <<>>
                    /\ life[q] = "live" /\ stopped[q] = "no" => Known(q)
<1> SUFFICES ASSUME NEW q \in Children PROVE Ok(q)'
  BY DEF HeardInv
<1>0. q \in Pulses /\ q # Root /\ Ok(q) /\ subs[q] \in Seq(Interest)
  BY ParentType DEF HeardInv, TypeOK
<1>a. ASSUME life'[q] = life[q], stopped'[q] = stopped[q], subs'[q] = subs[q],
             showing'[q] = showing[q],
             \A i : <<i, q>> \in interests => <<i, q>> \in interests'
      PROVE  Ok(q)'
  BY <1>0, <1>a
<1>1. ASSUME NEW p \in Children, AsChild(p) PROVE Ok(q)'
  <2>1. subs' = subs /\ interests' = interests /\ showing' = showing /\ stopped' = stopped
    BY <1>1 DEF AsChild
  <2>2. CASE q # p
    BY <1>0, <1>1, <1>a, <2>1, <2>2 DEF AsChild, TypeOK
  <2>3. CASE q = p
    <3>1. subs'[q] = <<>> /\ life'[q] = "live"
      BY <1>0, <1>1, <2>1, <2>3 DEF AsChild, TypeOK
    <3> QED BY <3>1
  <2> QED BY <2>2, <2>3
<1>2. ASSUME NEW p \in Pulses, NEW t \in Topics, Subscribe(p, t) PROVE Ok(q)'
  <2>1. life' = life /\ stopped' = stopped /\ interests' = interests
    BY <1>2 DEF Subscribe
  <2>2. CASE q # p
    <3>1. subs'[q] = subs[q] /\ showing'[q] = showing[q]
      BY <1>0, <1>2, <2>2 DEF Subscribe, TypeOK
    <3> QED BY <1>a, <2>1, <3>1
  <2>3. CASE q = p
    <3>1. PICK n : subs'[q] = Append(subs[q], n) /\ showing'[q] = n
      BY <1>0, <1>2, <2>3 DEF Subscribe, TypeOK
    <3>2. life[q] = "live" /\ showing[q] = None
      BY <1>2, <2>3 DEF Subscribe, InUse
    <3>3. \A i \in 1..Len(subs[q]) : subs[q][i] # None
      BY <1>0, NoneIsNoInterest
    <3>4. ASSUME stopped[q] = "no", NEW i \in 1..Len(subs'[q])
          PROVE  <<subs'[q][i], q>> \in interests \/ showing'[q] = subs'[q][i]
      <4>1. (i \in 1..Len(subs[q]) /\ subs'[q][i] = subs[q][i]) \/ subs'[q][i] = n
        BY <1>0, <3>1
      <4>2. i \in 1..Len(subs[q]) => <<subs[q][i], q>> \in interests
        BY <1>0, <3>2, <3>3, <3>4
      <4> QED BY <3>1, <4>1, <4>2
    <3> QED BY <2>1, <3>2, <3>4
  <2> QED BY <2>2, <2>3
<1>3. ASSUME NEW p \in Pulses, ShowInterest(p) PROVE Ok(q)'
  <2>1. life' = life /\ stopped' = stopped /\ subs' = subs
        /\ interests' = interests \cup {<<showing[p], p>>}
    BY <1>3 DEF ShowInterest
  <2>2. CASE q # p
    BY <1>0, <1>3, <1>a, <2>1, <2>2 DEF ShowInterest, TypeOK
  <2>3. CASE q = p
    BY <1>0, <2>1, <2>3
  <2> QED BY <2>2, <2>3
<1>4. ASSUME NEW p \in Pulses, Stopping(p), q # p
      PROVE  \A i : <<i, q>> \in interests => <<i, q>> \in interests'
  BY <1>4 DEF Stopping, Unbind
<1>5. ASSUME NEW p \in Pulses, Stop(p) PROVE Ok(q)'
  <2>1. life' = life /\ subs' = subs /\ showing' = showing
    BY <1>5 DEF Stop
  <2>2. CASE q # p
    <3>1. \A i : <<i, q>> \in interests => <<i, q>> \in interests'
      BY <1>4, <1>5, <2>2 DEF Stop
    <3>2. stopped'[q] = stopped[q]
      BY <1>0, <1>5, <2>2 DEF Stop, TypeOK
    <3> QED BY <1>a, <2>1, <3>1, <3>2
  <2>3. CASE q = p
    <3>1. stopped'[q] # "no"
      BY <1>0, <1>5, <2>3 DEF Stop, TypeOK
    <3> QED BY <1>0, <2>1, <3>1
  <2> QED BY <2>2, <2>3
<1>6. ASSUME NEW p \in Pulses, NEW s \in Sessions, WithSession(p, s) PROVE Ok(q)'
  BY <1>6, <1>a DEF WithSession
<1>7. ASSUME NEW p \in Pulses, Destroy(p) PROVE Ok(q)'
  <2>1. CASE q # p
    <3>1. \A i : <<i, q>> \in interests => <<i, q>> \in interests'
      BY <1>4, <1>7, <2>1 DEF Destroy
    <3>2. life'[q] = life[q] /\ stopped'[q] = stopped[q] /\ subs'[q] = subs[q]
          /\ showing' = showing
      BY <1>0, <1>7, <2>1 DEF Destroy, TypeOK
    <3> QED BY <1>a, <3>1, <3>2
  <2>2. CASE q = p
    <3>1. life'[q] = "gone" /\ subs'[q] = <<>>
      BY <1>0, <1>7, <2>2 DEF Destroy, TypeOK
    <3> QED BY <3>1
  <2> QED BY <2>1, <2>2
<1>8. ASSUME NEW p \in Pulses, NEW s \in Keys, NEW t \in Topics, Dispatch(p, s, t)
      PROVE  Ok(q)'
  BY <1>8, <1>a DEF Dispatch, ownVars
<1>9. CASE UNCHANGED vars
  BY <1>9, <1>a DEF vars, ownVars
<1>R. ASSUME NEW p \in Children, Refused(p) PROVE Ok(q)'
  BY <1>0, <1>R DEF Refused, TypeOK
<1> QED BY <1>1, <1>R, <1>2, <1>3, <1>5, <1>6, <1>7, <1>8, <1>9 DEF Next, Owner

\* In every tree and under every use, a living pulse that is not inside
\* subscribe() is known at the root for all it subscribed.
THEOREM EverySubscriptionKnown == Spec => []AllHeard
<1>1. TypeOK /\ ShowingInv /\ HeardInv /\ [Next]_vars
        => TypeOK' /\ ShowingInv' /\ HeardInv'
  BY TypeStep, ShowingStep, HeardStep
<1>2. TypeOK /\ HeardInv => AllHeard
  <2> SUFFICES ASSUME TypeOK, HeardInv, NEW p \in Children, life[p] = "live",
                      stopped[p] = "no", showing[p] = None,
                      NEW i \in 1..Len(subs[p])
               PROVE  <<subs[p][i], p>> \in interests
    BY DEF AllHeard
  <2>1. subs[p][i] \in Interest
    BY ParentType DEF TypeOK
  <2> QED BY <2>1, NoneIsNoInterest DEF HeardInv
<1> QED BY TypeInit, ShowingInit, HeardInit, <1>1, <1>2, PTL DEF Spec

-----------------------------------------------------------------------------
(* ... and is told of every event once. *)

\* A pulse posts its own handlers.
LEMMA PostedAt == \A p, key, t, b : \A x \in Post(p, key, t, b) : x.at = p
BY DEF Post

\* A handler in the root's group of key is one of a pulse the root knows for
\* exactly that key.
LEMMA InGroup ==
  \A key, t : \A x \in Group(key, t) :
    /\ subs[x.at][x.sub].topic = t /\ subs[x.at][x.sub].key = key
    /\ x = [group |-> <<TRUE, key>>, at |-> x.at, sub |-> x.sub, given |-> key]
<1> SUFFICES ASSUME NEW key, NEW t, NEW x \in Group(key, t)
             PROVE  /\ subs[x.at][x.sub].topic = t /\ subs[x.at][x.sub].key = key
                    /\ x = [group |-> <<TRUE, key>>, at |-> x.at, sub |-> x.sub, given |-> key]
  OBVIOUS
<1>1. PICK e \in interests : x \in Post(e[2], key, t, TRUE)
  BY Zenon DEF Group
<1> DEFINE q == e[2]
<1>2. x \in Post(q, key, t, TRUE)
  BY <1>1
<1> HIDE DEF q
<1>3. PICK j \in 1..Len(subs[q]) :
        /\ subs[q][j].topic = t /\ subs[q][j].key = key
        /\ x = [group |-> <<TRUE, key>>, at |-> q, sub |-> j, given |-> key]
  BY <1>2 DEF Post, IsTarget
<1>4. x.at = q /\ x.sub = j
  BY <1>3
<1> QED BY <1>3, <1>4

\* A subscription the root knows is in the group of its key.
LEMMA JoinsGroup ==
  ASSUME NEW p \in Pulses, NEW i \in 1..Len(subs[p]), subs[p] \in Seq(Interest),
         <<subs[p][i], p>> \in interests
  PROVE  [group |-> <<TRUE, subs[p][i].key>>, at |-> p, sub |-> i, given |-> subs[p][i].key]
           \in Group(subs[p][i].key, subs[p][i].topic)
<1> DEFINE n == subs[p][i]
           r == [group |-> <<TRUE, n.key>>, at |-> p, sub |-> i, given |-> n.key]
<1>1. n = [key |-> n.key, topic |-> n.topic]
  <2>1. n \in Interest
    OBVIOUS
  <2> HIDE DEF n
  <2> QED BY <2>1 DEF Interest
<1>2. r \in Post(p, n.key, n.topic, TRUE)
  BY DEF Post, IsTarget
<1> DEFINE e == <<n, p>>
<1>3. e \in {f \in interests : f[1] = [key |-> n.key, topic |-> n.topic]} /\ e[2] = p
  BY <1>1
<1> HIDE DEF e, n, r
<1>4. r \in Post(e[2], n.key, n.topic, TRUE)
  BY <1>2, <1>3
<1>5. r \in Group(n.key, n.topic)
  BY <1>3, <1>4, Zenon DEF Group
<1> QED BY <1>5 DEF n, r

\* An event at the root is posted once to a subscription the root knows.
LEMMA OnceStep ==
  ASSUME TypeOK, AllHeard, NEW s \in Keys, NEW t \in Topics, Dispatch(Root, s, t)
  PROVE  ExactlyOnce'
<1>1. SUFFICES ASSUME NEW p \in Children, life[p] = "live", stopped[p] = "no", showing[p] = None,
                      NEW i \in 1..Len(subs[p])
               PROVE  Times(p, i)' = IF subs[p][i].topic = t /\ subs[p][i].key \in {Any, s}
                                     THEN 1 ELSE 0
  <2>1. last'.topic = t /\ last'.session = s /\ UNCHANGED <<life, subs, showing, stopped>>
    BY DEF Dispatch, ownVars
  <2> QED BY <2>1 DEF ExactlyOnce
<1> DEFINE k == subs[p][i].key
           r == [group |-> <<TRUE, k>>, at |-> p, sub |-> i, given |-> k]
           X == {x \in last'.posts : x.at = p /\ x.sub = i}
<1>2. p \in Pulses /\ p # Root
  BY ParentType
<1>3. last'.posts = Post(Root, s, t, FALSE) \cup
                    (Group(Any, t) \cup (IF s = Any THEN {} ELSE Group(s, t)))
  <2>1. last'.posts = Post(Root, s, t, FALSE) \cup
                        (IF Root = Root
                         THEN Group(Any, t) \cup (IF s = Any THEN {} ELSE Group(s, t))
                         ELSE {})
    BY DEF Dispatch
  <2> QED BY <2>1, Zenon
<1>4. ASSUME NEW x \in X PROVE x = r /\ subs[p][i].topic = t /\ k \in {Any, s}
  <2>1. x.at = p /\ x.sub = i /\ x \in last'.posts
    OBVIOUS
  <2>2. \A y \in Post(Root, s, t, FALSE) : y.at = Root
    BY PostedAt
  <2>3. x \notin Post(Root, s, t, FALSE)
    BY <1>2, <2>1, <2>2, Zenon
  <2>4. PICK key \in {Any, s} : x \in Group(key, t)
    BY <1>3, <2>1, <2>3, Zenon
  <2> HIDE DEF X
  <2>5. /\ subs[x.at][x.sub].topic = t /\ subs[x.at][x.sub].key = key
        /\ x = [group |-> <<TRUE, key>>, at |-> x.at, sub |-> x.sub, given |-> key]
    BY <2>4, InGroup, Zenon
  <2> QED BY <2>1, <2>4, <2>5, Zenon
<1>5. ASSUME subs[p][i].topic = t, k \in {Any, s} PROVE r \in X
  <2>1. <<subs[p][i], p>> \in interests /\ subs[p] \in Seq(Interest)
    BY <1>1, <1>2 DEF AllHeard, TypeOK
  <2>2. r \in Group(k, t)
    BY <1>1, <1>2, <1>5, <2>1, JoinsGroup
  <2> HIDE DEF k
  <2>3. r.at = p /\ r.sub = i
    OBVIOUS
  <2> HIDE DEF r
  <2>4. r \in last'.posts
    BY <1>3, <1>5, <2>2, Zenon
  <2> QED BY <2>3, <2>4
<1> HIDE DEF X, r
<1>6. Times(p, i)' = Cardinality(X)
  BY DEF Times, X
<1>7. CASE subs[p][i].topic = t /\ k \in {Any, s}
  <2>1. X = {r}
    BY <1>4, <1>5, <1>7
  <2> QED BY <1>6, <1>7, <2>1, FS_Singleton
<1>8. CASE ~(subs[p][i].topic = t /\ k \in {Any, s})
  <2>1. X = {}
    BY <1>4, <1>8
  <2> QED BY <1>6, <1>8, <2>1, FS_EmptySet
<1> QED BY <1>7, <1>8

\* In every tree and under every use, an event at the root reaches each matching
\* subscription of a bound pulse exactly once, and no other: the groups of the
\* root's two passes never overlap.
THEOREM ReachesOnce == Spec => []ExactlyOnce
<1>1. Init => ExactlyOnce
  BY PulseAssumption DEF Init, ExactlyOnce, Idle
<1>2. TypeOK /\ AllHeard /\ ExactlyOnce /\ [Next]_vars => ExactlyOnce'
  <2>1. SUFFICES ASSUME TypeOK, AllHeard, ExactlyOnce, [Next]_vars PROVE ExactlyOnce'
    OBVIOUS
  <2>2. CASE last' = Idle
    BY <2>2, PulseAssumption DEF ExactlyOnce, Idle
  <2>3. ASSUME NEW p \in Pulses, NEW s \in Keys, NEW t \in Topics, Dispatch(p, s, t)
        PROVE  ExactlyOnce'
    <3>1. CASE p = Root
      BY <2>1, <2>3, <3>1, OnceStep
    <3>2. CASE p # Root
      <4>1. last'.at = p
        BY <2>3 DEF Dispatch
      <4> QED BY <3>2, <4>1 DEF ExactlyOnce
    <3> QED BY <3>1, <3>2
  <2>4. CASE UNCHANGED vars
    BY <2>1, <2>4 DEF vars, ownVars, ExactlyOnce, Times
  <2>5. ASSUME Next, last' # Idle
        PROVE  \E p \in Pulses, s \in Keys, t \in Topics : Dispatch(p, s, t)
    BY <2>5 DEF Next, Owner, AsChild, Refused, Subscribe, ShowInterest, Stop, WithSession, Destroy
  <2> QED BY <2>1, <2>2, <2>3, <2>4, <2>5
<1> QED BY <1>1, <1>2, TypeCorrect, EverySubscriptionKnown, PTL DEF Spec

-----------------------------------------------------------------------------
(* ... and of its own children none of the dead. *)

\* Each step keeps the entries of children of the root remembered by their pulse.
LEMMA KnownStep ==
  ASSUME OrderlyStop, TypeOK, ShowingInv, KnownInv, [Next]_vars
  PROVE  KnownInv'
<1> DEFINE Ok(i, q) == life[q] = "live" /\ stopped[q] = "no" /\ i \in self[q]
<1> SUFFICES ASSUME NEW i \in Interest, NEW q \in Children, Parent[q] = Root,
                    <<i, q>> \in interests', TypeOK'
             PROVE  Ok(i, q)'
  <2>1. TypeOK'
    BY TypeStep
  <2>2. \A e \in interests' : e = <<e[1], e[2]>> /\ e[1] \in Interest /\ e[2] \in Children
    BY <2>1 DEF TypeOK
  <2> QED BY <2>1, <2>2 DEF KnownInv
<1>0. q \in Pulses /\ q # Root /\ (<<i, q>> \in interests => Ok(i, q))
  BY ParentType DEF KnownInv
<1>1. ASSUME NEW p \in Children, AsChild(p) PROVE Ok(i, q)'
  <2>1. <<i, q>> \in interests /\ stopped' = stopped /\ self' = self
    BY <1>1 DEF AsChild
  <2>2. life'[q] = life[q]
    BY <1>0, <1>1, <2>1 DEF AsChild, TypeOK
  <2> QED BY <1>0, <2>1, <2>2
<1>2. ASSUME NEW p \in Pulses, NEW t \in Topics, Subscribe(p, t) PROVE Ok(i, q)'
  <2>1. <<i, q>> \in interests /\ stopped' = stopped /\ life' = life
    BY <1>2 DEF Subscribe
  <2>2. self[q] \subseteq self'[q]
    BY <1>0, <1>2 DEF Subscribe, TypeOK
  <2> QED BY <1>0, <2>1, <2>2
<1>3. ASSUME NEW p \in Pulses, ShowInterest(p) PROVE Ok(i, q)'
  <2>1. stopped' = stopped /\ life' = life /\ self' = self
    BY <1>3 DEF ShowInterest
  <2>2. <<i, q>> \in interests \/ (i = showing[q] /\ q = p)
    BY <1>3 DEF ShowInterest
  <2>3. q = p => life[q] = "live" /\ stopped[q] = "no" /\ showing[q] \in self[q]
    BY <1>3, <1>0 DEF ShowInterest, ShowingInv
  <2> QED BY <1>0, <2>1, <2>2, <2>3
<1>4. ASSUME NEW p \in Pulses, Stopping(p), <<i, p>> \in interests, p # Root,
             Parent[p] = Root
      PROVE  <<i, p>> \notin interests'
  <2>1. p \in Children
    BY <1>4 DEF Children
  <2>2. interests' = {e \in interests : ~(e[2] = p /\ e[1] \in self[p])}
    BY <1>4, <2>1 DEF Stopping, Unbind
  <2>3. i \in self[p]
    BY <1>4 DEF KnownInv
  <2> QED BY <2>2, <2>3
<1>5. ASSUME NEW p \in Pulses, Stopping(p) PROVE interests' \subseteq interests
  BY <1>5 DEF Stopping, Unbind
<1>6. ASSUME NEW p \in Pulses, Stop(p) PROVE Ok(i, q)'
  <2>1. Stopping(p) /\ life' = life /\ self' = self
    BY <1>6 DEF Stop
  <2>2. <<i, q>> \in interests /\ q # p
    BY <1>0, <1>4, <1>5, <2>1
  <2>3. stopped'[q] = stopped[q]
    BY <1>0, <1>6, <2>2 DEF Stop, TypeOK
  <2> QED BY <1>0, <2>1, <2>2, <2>3
<1>7. ASSUME NEW p \in Pulses, NEW s \in Sessions, WithSession(p, s) PROVE Ok(i, q)'
  BY <1>0, <1>7 DEF WithSession
<1>8. ASSUME NEW p \in Pulses, Destroy(p) PROVE Ok(i, q)'
  <2>1. <<i, q>> \in interests /\ q # p
    <3>1. CASE stopped[p] = "no"
      BY <1>0, <1>4, <1>5, <1>8, <3>1 DEF Destroy
    <3>2. CASE stopped[p] # "no"
      <4>1. interests' = interests
        BY <1>8, <3>2 DEF Destroy
      <4> QED BY <1>0, <3>2, <4>1
    <3> QED BY <3>1, <3>2
  <2>2. life'[q] = life[q] /\ stopped'[q] = stopped[q] /\ self'[q] = self[q]
    BY <1>0, <1>8, <2>1 DEF Destroy, TypeOK
  <2> QED BY <1>0, <2>1, <2>2
<1>9. ASSUME NEW p \in Pulses, NEW s \in Keys, NEW t \in Topics, Dispatch(p, s, t)
      PROVE  Ok(i, q)'
  BY <1>0, <1>9 DEF Dispatch, ownVars
<1>10. CASE UNCHANGED vars
  BY <1>0, <1>10 DEF vars, ownVars
<1>R. ASSUME NEW p \in Children, Refused(p) PROVE Ok(i, q)'
  BY <1>0, <1>R DEF Refused, TypeOK
<1> QED BY <1>1, <1>R, <1>2, <1>3, <1>6, <1>7, <1>8, <1>9, <1>10 DEF Next, Owner

\* In any tree whose owners stop children first, the root never keeps a
\* pointer to a destroyed child of its own.
THEOREM NoDanglingInterest ==
  ASSUME OrderlyStop
  PROVE  Spec => []DirectInterestsAlive
<1>1. Init => KnownInv
  BY DEF Init, KnownInv
<1>2. TypeOK /\ ShowingInv /\ KnownInv /\ [Next]_vars
        => TypeOK' /\ ShowingInv' /\ KnownInv'
  BY TypeStep, ShowingStep, KnownStep
<1>3. KnownInv => DirectInterestsAlive
  BY DEF KnownInv, DirectInterestsAlive
<1> QED BY TypeInit, ShowingInit, <1>1, <1>2, <1>3, PTL DEF Spec

\* What dispatch() posts for pulses below the root, it posts for pulses the
\* root knows.
PostsKnown ==
  last.at = Root =>
    \A x \in last.posts : x.at # Root /\ Parent[x.at] = Root => stopped[x.at] = "no"

\* What a dispatch posts belongs to pulses that were not stopped.
LEMMA PostsStep ==
  ASSUME TypeOK, KnownInv, [Next]_vars, PostsKnown
  PROVE  PostsKnown'
<1>1. ASSUME last' = Idle PROVE PostsKnown'
  BY <1>1, PulseAssumption DEF PostsKnown, Idle
<1>2. ASSUME NEW p \in Pulses, NEW s \in Keys, NEW t \in Topics, Dispatch(p, s, t)
      PROVE  PostsKnown'
  <2> SUFFICES ASSUME last'.at = Root, NEW x \in last'.posts, x.at # Root,
                      Parent[x.at] = Root
               PROVE  stopped'[x.at] = "no"
    BY DEF PostsKnown
  <2>1. p = Root /\ stopped' = stopped
    BY <1>2 DEF Dispatch, ownVars
  <2>2. x \in Post(p, s, t, FALSE) \cup Group(Any, t) \cup Group(s, t)
    <3>1. last'.posts = Post(p, s, t, FALSE) \cup
                        (IF p = Root
                         THEN Group(Any, t) \cup (IF s = Any THEN {} ELSE Group(s, t))
                         ELSE {})
      BY <1>2 DEF Dispatch
    <3>2. last'.posts \subseteq Post(p, s, t, FALSE) \cup Group(Any, t) \cup Group(s, t)
      BY <2>1, <3>1, Zenon
    <3> QED BY <3>2
  <2>3. \A q, k, b : \A y \in Post(q, k, t, b) : y.at = q
    BY DEF Post
  <2>4. \A k : x \in Group(k, t) => \E e \in interests : x.at = e[2]
    <3> SUFFICES ASSUME NEW k, x \in Group(k, t) PROVE \E e \in interests : x.at = e[2]
      OBVIOUS
    <3>1. PICK e \in interests : x \in Post(e[2], k, t, TRUE)
      BY Zenon DEF Group
    <3>2. x.at = e[2]
      BY <2>3, <3>1, ZenonT(30)
    <3> QED BY <3>2, Zenon
  <2>5. PICK e \in interests : x.at = e[2]
    BY <2>1, <2>2, <2>3, <2>4
  <2> QED BY <2>1, <2>5 DEF KnownInv
<1>3. CASE UNCHANGED vars
  BY <1>3 DEF vars, ownVars, PostsKnown
<1>4. ASSUME Next, last' # Idle
      PROVE  \E p \in Pulses, s \in Keys, t \in Topics : Dispatch(p, s, t)
  BY <1>4 DEF Next, Owner, AsChild, Refused, Subscribe, ShowInterest, Stop, WithSession, Destroy
<1> QED BY <1>1, <1>2, <1>3, <1>4

\* Under the same condition no event at the root reaches a child of the root
\* whose stop() has returned.
THEOREM StoppedIsSilent ==
  ASSUME OrderlyStop
  PROVE  Spec => []SilentAfterStop
<1>1. Init => KnownInv /\ PostsKnown
  BY PulseAssumption DEF Init, KnownInv, PostsKnown, Idle
<1>2. TypeOK /\ ShowingInv /\ KnownInv /\ PostsKnown /\ [Next]_vars
        => TypeOK' /\ ShowingInv' /\ KnownInv' /\ PostsKnown'
  BY TypeStep, ShowingStep, KnownStep, PostsStep
<1>3. PostsKnown => SilentAfterStop
  BY DEF PostsKnown, SilentAfterStop
<1> QED BY TypeInit, ShowingInit, <1>1, <1>2, <1>3, PTL DEF Spec

-----------------------------------------------------------------------------
(* Parents outlive their children. *)

\* Each step keeps a bound pulse among the children of a live parent.
LEMMA BoundStep ==
  ASSUME OrderlyStop, TypeOK, BoundInv, [Next]_vars
  PROVE  BoundInv'
<1> DEFINE Quiet(q) == stopped[q] # "threw" /\ (stopped[q] = "yes" => childs[q] = {})
           Bound(q) == life[q] = "live" /\ stopped[q] = "no" =>
                         q \in childs[Parent[q]] /\ life[Parent[q]] = "live"
<1>i. (\A q \in Pulses : Quiet(q)) /\ (\A q \in Children : Bound(q))
  BY DEF BoundInv
<1>g. (\A q \in Pulses : Quiet(q)') /\ (\A q \in Children : Bound(q)') => BoundInv'
  BY DEF BoundInv
<1>a. UNCHANGED <<life, childs, stopped>> => BoundInv'
  BY <1>i, <1>g
<1>1. ASSUME NEW p \in Children, AsChild(p) PROVE BoundInv'
  <2>1. p \in Pulses /\ Parent[p] \in Pulses /\ stopped' = stopped
    BY <1>1, ParentType DEF AsChild
  <2>2. /\ stopped[Parent[p]] = "no" /\ life[Parent[p]] = "live"
        /\ childs' = [childs EXCEPT ![Parent[p]] = @ \cup {p}]
        /\ life' = [life EXCEPT ![p] = "live"]
    BY <1>1 DEF AsChild, BindChild
  <2>3. ASSUME NEW q \in Pulses PROVE Quiet(q)'
    <3>1. q # Parent[p] => childs'[q] = childs[q]
      BY <2>1, <2>2 DEF TypeOK
    <3> QED BY <1>i, <2>1, <2>2, <3>1
  <2>4. ASSUME NEW q \in Children PROVE Bound(q)'
    <3>1. q \in Pulses /\ Parent[q] \in Pulses
      BY ParentType
    <3>2. childs[Parent[q]] \subseteq childs'[Parent[q]] /\ p \in childs'[Parent[p]]
      BY <2>1, <2>2, <3>1 DEF TypeOK
    <3>3. life[Parent[q]] = "live" => life'[Parent[q]] = "live"
      BY <2>1, <2>2, <3>1 DEF TypeOK
    <3>4. q # p => life'[q] = life[q]
      BY <2>1, <2>2, <3>1 DEF TypeOK
    <3> QED BY <1>i, <2>1, <2>2, <3>2, <3>3, <3>4
  <2> QED BY <1>g, <2>3, <2>4
<1>2. ASSUME NEW p \in Pulses, NEW t \in Topics, Subscribe(p, t) PROVE BoundInv'
  BY <1>2, <1>a DEF Subscribe
<1>3. ASSUME NEW p \in Pulses, ShowInterest(p) PROVE BoundInv'
  BY <1>3, <1>a DEF ShowInterest
<1>4. ASSUME NEW p \in Pulses, Stopping(p), NEW q \in Pulses
      PROVE  /\ childs'[q] \subseteq childs[q]
             /\ \A r \in childs[q] : r # p => r \in childs'[q]
             /\ childs[p] = {}
  <2>1. CASE p = Root
    BY <1>4, <2>1 DEF Stopping
  <2>2. CASE p # Root
    <3>1. childs' = [childs EXCEPT ![Parent[p]] = @ \ {p}] /\ childs[p] = {}
      BY <1>4, <2>2 DEF Stopping, Unbind
    <3> QED BY <3>1 DEF TypeOK
  <2> QED BY <2>1, <2>2
<1>5. ASSUME NEW p \in Pulses, Stop(p) PROVE BoundInv'
  <2>1. Stopping(p) /\ life' = life /\ stopped' = [stopped EXCEPT ![p] = "yes"]
    BY <1>5 DEF Stop
  <2>2. ASSUME NEW q \in Pulses PROVE Quiet(q)'
    <3>1. stopped'[q] = IF q = p THEN "yes" ELSE stopped[q]
      BY <2>1 DEF TypeOK
    <3>2. childs'[q] \subseteq childs[q] /\ childs[p] = {}
      BY <1>4, <2>1
    <3> QED BY <1>i, <3>1, <3>2
  <2>3. ASSUME NEW q \in Children PROVE Bound(q)'
    <3>0. q \in Pulses /\ Parent[q] \in Pulses
      BY ParentType
    <3>1. stopped'[q] = IF q = p THEN "yes" ELSE stopped[q]
      BY <2>1, <3>0 DEF TypeOK
    <3>2. q # p /\ q \in childs[Parent[q]] => q \in childs'[Parent[q]]
      BY <1>4, <2>1, <3>0
    <3> QED BY <1>i, <2>1, <3>1, <3>2
  <2> QED BY <1>g, <2>2, <2>3
<1>6. ASSUME NEW p \in Pulses, NEW s \in Sessions, WithSession(p, s) PROVE BoundInv'
  BY <1>6, <1>a DEF WithSession
<1>7. ASSUME NEW p \in Pulses, Destroy(p) PROVE BoundInv'
  <2>0. /\ life' = [life EXCEPT ![p] = "gone"]
        /\ stopped' = [stopped EXCEPT ![p] = "no"]
        /\ childs[p] = {}
    BY <1>4, <1>7, <1>i DEF Destroy, TypeOK
  <2>1. ASSUME NEW q \in Pulses
        PROVE  /\ childs'[q] \subseteq childs[q]
               /\ \A r \in childs[q] : r # p => r \in childs'[q]
    <3>1. CASE stopped[p] = "no"
      BY <1>4, <1>7, <3>1 DEF Destroy
    <3>2. CASE stopped[p] # "no"
      BY <1>7, <3>2 DEF Destroy
    <3> QED BY <3>1, <3>2
  <2>2. ASSUME NEW q \in Pulses PROVE Quiet(q)'
    <3>1. stopped'[q] = IF q = p THEN "no" ELSE stopped[q]
      BY <2>0 DEF TypeOK
    <3>2. childs'[q] \subseteq childs[q]
      BY <2>1
    <3> QED BY <1>i, <3>1, <3>2
  <2>3. ASSUME NEW q \in Children PROVE Bound(q)'
    <3>0. q \in Pulses /\ Parent[q] \in Pulses
      BY ParentType
    <3>1. /\ stopped'[q] = IF q = p THEN "no" ELSE stopped[q]
          /\ life'[q] = IF q = p THEN "gone" ELSE life[q]
          /\ life'[Parent[q]] = IF Parent[q] = p THEN "gone" ELSE life[Parent[q]]
      BY <2>0, <3>0 DEF TypeOK
    <3>2. q # p /\ q \in childs[Parent[q]] => q \in childs'[Parent[q]]
      BY <2>1, <3>0
    <3>3. q \in childs[Parent[q]] => Parent[q] # p
      BY <2>0
    <3> QED BY <1>i, <3>1, <3>2, <3>3
  <2> QED BY <1>g, <2>2, <2>3
<1>8. ASSUME NEW p \in Pulses, NEW s \in Keys, NEW t \in Topics, Dispatch(p, s, t)
      PROVE  BoundInv'
  BY <1>8, <1>a DEF Dispatch, ownVars
<1>9. CASE UNCHANGED vars
  BY <1>9, <1>a DEF vars, ownVars
<1>R. ASSUME NEW p \in Children, Refused(p) PROVE BoundInv'
  <2>1. /\ UNCHANGED <<childs, stopped>> /\ life' = [life EXCEPT ![p] = "gone"]
        /\ life[p] = "new" /\ p \in Pulses
    BY <1>R, ParentType DEF Refused
  <2>2. \A q \in Pulses : life[q] = "live" <=> life'[q] = "live"
    BY <2>1 DEF TypeOK
  <2>3. \A q \in Children : q \in Pulses /\ Parent[q] \in Pulses
    BY ParentType
  <2> QED BY <1>i, <1>g, <2>1, <2>2, <2>3
<1> QED BY <1>1, <1>R, <1>2, <1>3, <1>5, <1>6, <1>7, <1>8, <1>9 DEF Next, Owner

\* In every tree whose owners stop children first, a bound child's parent is
\* alive.
THEOREM ParentsOutlive ==
  ASSUME OrderlyStop
  PROVE  Spec => []ParentAlive
<1>1. Init => BoundInv
  BY DEF Init, BoundInv, Children
<1>2. TypeOK /\ ShowingInv /\ BoundInv /\ [Next]_vars
        => TypeOK' /\ ShowingInv' /\ BoundInv'
  BY TypeStep, ShowingStep, BoundStep
<1>3. TypeOK /\ BoundInv => ParentAlive
  BY ParentType DEF TypeOK, BoundInv, ParentAlive
<1> QED BY TypeInit, ShowingInit, <1>1, <1>2, <1>3, PTL DEF Spec
=============================================================================
