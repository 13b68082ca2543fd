--------------------------- MODULE ActorContainer ---------------------------
(***************************************************************************)
(* A container of actors as a service uses it on its strand: actors are    *)
(* made, each with an id of dynamic_snowflake and keys that others may     *)
(* have as well, added, found by a key and kept by whoever found them, let *)
(* go of, and deleted by id or by a key.  An actor nobody holds is         *)
(* destroyed.                                                              *)
(***************************************************************************)
EXTENDS Index, FiniteSets

CONSTANTS SeqRange,   \* ids below the time part of an id (2^24 in the code)
          MaxActors,  \* actors ever made
          MaxIds,     \* ids ever given
          Kinds,      \* the indexes of the container
          Keys        \* what an actor may be called, be reached by, ...

ASSUME ContainerAssumption ==
  /\ SeqRange \in Nat \ {0} /\ MaxActors \in Nat /\ MaxIds \in Nat

Actors == 1..MaxActors
Ids == 0..(2 * SeqRange - 1)

VARIABLES
  seq,        \* ids given so far: seq_ of dynamic_snowflake, before it wraps
  acts,       \* the actors: id and keys once made, and the number their id was made of
  held,       \* actors somebody other than the container holds
  container,  \* actors_ and the indexes
  wild        \* history: has del() destroyed an actor before it read its keys?

vars == <<seq, acts, held, container, wild>>

\* Mutant: the time is shifted by one bit too few.
NextIdNarrow(time, n) ==
  LET low == n % SeqRange
  IN  IF time = 1 /\ low < SeqRange \div 2 THEN low + SeqRange \div 2 ELSE low

\* dynamic_snowflake::next(): the time, of which one bit is modelled, above the
\* sequence number, whose own bit in that place is or-ed into it.
NextId(time, n) ==
  LET low == n % SeqRange
      high == (n \div SeqRange) % 2
  IN  low + (IF time = 1 \/ high = 1 THEN SeqRange ELSE 0)

NotMade == [id |-> None, keys |-> <<>>, no |-> 0]

Init ==
  /\ seq = 0
  /\ acts = [a \in Actors |-> NotMade]
  /\ held = {}
  /\ container = NewContainer(Ids, Kinds, Keys)
  /\ wild = FALSE

Made(a) == acts[a].no # 0
Contained(a) == Made(a) /\ container.actors[acts[a].id] = a

\* An id goes to something else: a service, an actor of another container.
OtherId ==
  /\ seq < MaxIds
  /\ seq' = seq + 1
  /\ UNCHANGED <<acts, held, container, wild>>

\* actor::actor(): whoever makes it holds it.  Actors are numbered as they are made.
Make(a, keys, time) ==
  /\ ~Made(a) /\ (\A b \in 1..(a - 1) : Made(b)) /\ seq < MaxIds
  /\ seq' = seq + 1
  /\ acts' = [acts EXCEPT ![a] = [id |-> NextId(time, seq + 1), keys |-> keys, no |-> seq + 1]]
  /\ held' = held \union {a}
  /\ UNCHANGED <<container, wild>>

Add(a) ==
  /\ a \in held
  /\ container' = AddActor(container, acts[a].id, a, acts[a].keys)
  /\ UNCHANGED <<seq, acts, held, wild>>

\* find(): whoever asked may keep what it was handed.
Take(k, key) ==
  /\ Find(container, k, key) # None
  /\ held' = held \union {Find(container, k, key)}
  /\ UNCHANGED <<seq, acts, container, wild>>

TakeById(a) ==
  /\ Contained(a)
  /\ held' = held \union {a}
  /\ UNCHANGED <<seq, acts, container, wild>>

LetGo(a) ==
  /\ a \in held
  /\ held' = held \ {a}
  /\ UNCHANGED <<seq, acts, container, wild>>

\* del(): the keys are read through the iterator that was erased.  Where somebody
\* holds the actor they are what they were; where nobody does it is destroyed, and
\* any of its keys may no longer read as it was.
Del(id) ==
  LET a == container.actors[id]
  IN  /\ a # None
      /\ \E lost \in SUBSET Kinds :
           /\ a \in held => lost = {}
           /\ container' = DelActor(container, id, acts[a].keys, lost)
      /\ wild' = (wild \/ a \notin held)
      /\ UNCHANGED <<seq, acts, held>>

DelById(a) == Made(a) /\ Del(acts[a].id)
DelByKey(k, key) == container.index[k][key] # None /\ Del(container.index[k][key])

Next ==
  \/ OtherId
  \/ \E a \in Actors : \/ \E keys \in [Kinds -> Keys], time \in 0..1 : Make(a, keys, time)
                       \/ Add(a) \/ TakeById(a) \/ LetGo(a) \/ DelById(a)
  \/ \E k \in Kinds, key \in Keys : Take(k, key) \/ DelByKey(k, key)

Spec == Init /\ [][Next]_vars

-----------------------------------------------------------------------------
(* Properties *)

TypeOK ==
  /\ seq \in Nat
  /\ acts \in [Actors -> {NotMade} \union [id : Ids, keys : [Kinds -> Keys], no : Nat \ {0}]]
  /\ held \subseteq {a \in Actors : Made(a)}
  /\ container.actors \in [Ids -> Actors \union {None}]
  /\ container.index \in [Kinds -> [Keys -> Ids \union {None}]]
  /\ container = [actors |-> container.actors, index |-> container.index]
  /\ wild \in BOOLEAN

\* Until the sequence number has run out of its own bits no two actors get the same
\* id, whatever the time was: only its low bits tell them apart.
IdsDistinct ==
  seq < SeqRange =>
    \A a, b \in Actors : Made(a) /\ Made(b) /\ acts[a].id = acts[b].id => a = b

\* What the class comment of dynamic_snowflake says: ids are unique as long as the
\* program runs.
\* Refuted: the README says how.
IdsUnique == \A a, b \in Actors : Made(a) /\ Made(b) /\ acts[a].id = acts[b].id => a = b

\* Every entry of an index leads to an actor of the container that has that key.
\* Refuted: the README says how.
NoDangling ==
  \A k \in Kinds, key \in Keys :
    LET id == container.index[k][key]
    IN  id # None => container.actors[id] # None /\ acts[container.actors[id]].keys[k] = key

\* Every entry of an index leads to an actor of the container that has that key, even
\* where ids repeat and keys are shared, as long as del() was called for actors that
\* somebody else held.
IndexSound == wild \/ NoDangling

\* An actor of the container is found under a key no other actor has or had, whatever
\* del() left in the indexes.
FoundUnderOwn ==
  \A a \in Actors, k \in Kinds :
    /\ Contained(a)
    /\ \A b \in Actors \ {a} : Made(b) => acts[b].keys[k] # acts[a].keys[k]
    => Find(container, k, acts[a].keys[k]) = a

\* The container finds under any of its keys every actor it holds, or another one
\* of that key, as long as del() was called for actors that somebody else held.
\* Refuted: the README says how.
AllFound ==
  wild \/ \A a \in Actors, k \in Kinds : Contained(a) => Find(container, k, acts[a].keys[k]) # None

-----------------------------------------------------------------------------
(* Inductive invariants *)

\* The numbers ids are made of are given once; while they fit below the time, they
\* can be read off the id.
IdInv ==
  /\ \A a \in Actors : Made(a) =>
       /\ acts[a].no <= seq
       /\ acts[a].no < SeqRange => acts[a].id \in {acts[a].no, acts[a].no + SeqRange}
  /\ \A a, b \in Actors : Made(a) /\ Made(b) /\ acts[a].no = acts[b].no => a = b

\* An actor is kept under its id.
KeptInv ==
  \A id \in Ids :
    container.actors[id] # None =>
      Made(container.actors[id]) /\ acts[container.actors[id]].id = id

\* An entry of an index, stale or not, was made for an actor of that key and id.
EntryInv ==
  \A k \in Kinds, key \in Keys :
    container.index[k][key] # None =>
      \E a \in Actors : Made(a) /\ acts[a].keys[k] = key /\ acts[a].id = container.index[k][key]

\* No other actor was made with a's key of kind k.
OnlyOne(a, k) == \A b \in Actors \ {a} : Made(b) => acts[b].keys[k] # acts[a].keys[k]

\* An actor of the container is linked under every key that is its own.
OwnInv ==
  \A a \in Actors, k \in Kinds :
    Contained(a) /\ OnlyOne(a, k) => container.index[k][acts[a].keys[k]] = acts[a].id
=============================================================================
