--------------------------- MODULE ContainerProofs ---------------------------
(***************************************************************************)
(* Proofs about the containers of actors, for any number of actors, ids,   *)
(* keys and indexes.                                                       *)
(***************************************************************************)
EXTENDS ActorContainer, TLAPS

\* What next() returns is an id; below the time its number can be read off it.
LEMMA NextIdIsId ==
  ASSUME NEW n \in Nat, NEW time \in 0..1
  PROVE  /\ NextId(time, n) \in Ids
         /\ n < SeqRange => NextId(time, n) \in {n, n + SeqRange}
<1>1. n % SeqRange \in 0..(SeqRange - 1)
  BY ContainerAssumption
<1>2. n < SeqRange => n % SeqRange = n
  BY ContainerAssumption
<1>3. NextId(time, n) \in {n % SeqRange, (n % SeqRange) + SeqRange}
  BY <1>1, ContainerAssumption DEF NextId
<1>4. QED  BY <1>1, <1>2, <1>3, ContainerAssumption DEF Ids

Actor == [id : Ids, keys : [Kinds -> Keys], no : Nat \ {0}]

\* Every actor that was made has an id, a number and keys.
LEMMA MadeActor ==
  ASSUME TypeOK, NEW a \in Actors, Made(a)
  PROVE  acts[a] \in Actor
BY DEF TypeOK, Made, NotMade, Actor

Inv == TypeOK /\ IdInv /\ KeptInv /\ EntryInv /\ OwnInv /\ IndexSound

\* What is in an index or in the container is an id or an actor that was made.
LEMMA Entries ==
  ASSUME Inv
  PROVE  /\ \A id \in Ids : container.actors[id] # None =>
              /\ container.actors[id] \in Actors /\ Made(container.actors[id])
              /\ acts[container.actors[id]] \in Actor /\ acts[container.actors[id]].id = id
         /\ \A k \in Kinds, key \in Keys : container.index[k][key] # None => container.index[k][key] \in Ids
<1>1. \A id \in Ids : container.actors[id] # None =>
        container.actors[id] \in Actors /\ Made(container.actors[id]) /\ acts[container.actors[id]].id = id
  BY DEF Inv, TypeOK, KeptInv
<1>2. \A id \in Ids : container.actors[id] # None => acts[container.actors[id]] \in Actor
  BY <1>1, MadeActor DEF Inv
<1>3. QED  BY <1>1, <1>2 DEF Inv, TypeOK

\* The initial state
LEMMA InvInit == Init => Inv
<1> SUFFICES ASSUME Init PROVE Inv  OBVIOUS
<1>1. \A a \in Actors : ~Made(a)  BY DEF Init, Made, NotMade
<1>2. \A id \in Ids : container.actors[id] = None  BY DEF Init, NewContainer
<1>3. \A k \in Kinds, key \in Keys : container.index[k][key] = None  BY DEF Init, NewContainer
<1>4. TypeOK
  <2>1. container.actors = [id \in Ids |-> None]
    BY DEF Init, NewContainer
  <2>2. container.index = [k \in Kinds |-> [key \in Keys |-> None]]
    BY DEF Init, NewContainer
  <2>3. QED  BY <2>1, <2>2 DEF Init, TypeOK, NewContainer
<1>5. QED
  BY <1>1, <1>2, <1>3, <1>4 DEF Inv, IdInv, KeptInv, EntryInv, OwnInv, Contained, IndexSound, NoDangling

\* A step that only changes who holds what
LEMMA InvHolds ==
  ASSUME Inv, UNCHANGED <<acts, container, wild>>, seq' \in Nat, seq' >= seq,
         held' \subseteq {a \in Actors : Made(a)}
  PROVE  Inv'
<1>1. \A a \in Actors : (Made(a)' <=> Made(a)) /\ (Contained(a)' <=> Contained(a))
  BY DEF Made, Contained
<1>2. TypeOK'  BY <1>1 DEF Inv, TypeOK
<1>3. IdInv'
  <2>1. \A a \in Actors : Made(a) => acts[a].no \in Nat  BY MadeActor DEF Inv, Actor
  <2>2. QED  BY <1>1, <2>1 DEF Inv, IdInv, TypeOK
<1>4. KeptInv'  BY DEF Inv, KeptInv, Made
<1>5. EntryInv'  BY DEF Inv, EntryInv, Made
<1>6. OwnInv'  BY <1>1 DEF Inv, OwnInv, OnlyOne
<1>7. IndexSound'  BY DEF Inv, IndexSound, NoDangling
<1>8. QED  BY <1>2, <1>3, <1>4, <1>5, <1>6, <1>7 DEF Inv

\* Another actor changes nothing for those there are.
LEMMA InvMake ==
  ASSUME Inv, NEW a \in Actors, NEW keys \in [Kinds -> Keys], NEW time \in 0..1, Make(a, keys, time)
  PROVE  Inv'
<1> DEFINE id == NextId(time, seq + 1)
<1>0. seq + 1 \in Nat  BY DEF Inv, TypeOK
<1>1. id \in Ids /\ (seq + 1 < SeqRange => id \in {seq + 1, seq + 1 + SeqRange})
  BY <1>0, NextIdIsId
<1> HIDE DEF id
<1>2. acts' = [acts EXCEPT ![a] = [id |-> id, keys |-> keys, no |-> seq + 1]]
  BY DEF Make, id
<1>3. /\ seq' = seq + 1 /\ held' = held \union {a} /\ ~Made(a)
      /\ container' = container /\ wild' = wild
  BY DEF Make
<1>4. \A b \in Actors : Made(b) => acts'[b] = acts[b] /\ b # a
  BY <1>2, <1>3 DEF Inv, TypeOK
<1>5. \A b \in Actors : b # a => acts'[b] = acts[b]
  BY <1>2 DEF Inv, TypeOK
<1>6. acts'[a] = [id |-> id, keys |-> keys, no |-> seq + 1]
  BY <1>2 DEF Inv, TypeOK
<1>7. \A b \in Actors : Made(b)' <=> Made(b) \/ b = a
  BY <1>0, <1>5, <1>6 DEF Made, Inv, TypeOK
<1>8. TypeOK'
  <2>1. acts' \in [Actors -> {NotMade} \union [id : Ids, keys : [Kinds -> Keys], no : Nat \ {0}]]
    BY <1>0, <1>1, <1>2 DEF Inv, TypeOK
  <2>2. held' \subseteq {b \in Actors : Made(b)'}
    BY <1>3, <1>7 DEF Inv, TypeOK
  <2>3. QED  BY <1>0, <1>3, <2>1, <2>2 DEF Inv, TypeOK
<1>9. IdInv'
  <2>1. \A b \in Actors : Made(b) => acts[b].no \in Nat /\ acts[b].no <= seq
    BY MadeActor DEF Inv, Actor, IdInv
  <2>2. ASSUME NEW b \in Actors, Made(b)'
        PROVE  acts'[b].no <= seq' /\ (acts'[b].no < SeqRange => acts'[b].id \in {acts'[b].no, acts'[b].no + SeqRange})
    <3>1. CASE b = a  BY <3>1, <1>0, <1>1, <1>3, <1>6
    <3>2. CASE b # a  BY <3>2, <2>1, <2>2, <1>0, <1>3, <1>5, <1>7 DEF Inv, IdInv, TypeOK
    <3>3. QED  BY <3>1, <3>2
  <2>3. ASSUME NEW b \in Actors, NEW c \in Actors, Made(b)', Made(c)', acts'[b].no = acts'[c].no
        PROVE  b = c
    <3>1. CASE b # a /\ c # a  BY <3>1, <2>3, <1>5, <1>7 DEF Inv, IdInv
    <3>2. CASE b = a /\ c # a  BY <3>2, <2>3, <1>0, <1>5, <1>6, <1>7, <2>1 DEF Inv, TypeOK
    <3>3. CASE b # a /\ c = a  BY <3>3, <2>3, <1>0, <1>5, <1>6, <1>7, <2>1 DEF Inv, TypeOK
    <3>4. QED  BY <3>1, <3>2, <3>3
  <2>4. QED  BY <2>2, <2>3 DEF IdInv
<1>10. KeptInv'
  BY <1>3, <1>4, <1>7, Entries DEF KeptInv
<1>11. EntryInv'
  <2> SUFFICES ASSUME NEW k \in Kinds, NEW key \in Keys, container.index[k][key] # None
               PROVE  \E b \in Actors : /\ Made(b)' /\ acts'[b].keys[k] = key
                                        /\ acts'[b].id = container.index[k][key]
    BY <1>3 DEF EntryInv
  <2>1. PICK b \in Actors : Made(b) /\ acts[b].keys[k] = key /\ acts[b].id = container.index[k][key]
    BY DEF Inv, EntryInv
  <2>2. QED  BY <2>1, <1>4, <1>7
<1>12. OwnInv'
  <2> SUFFICES ASSUME NEW b \in Actors, NEW k \in Kinds, Contained(b)', OnlyOne(b, k)'
               PROVE  container'.index[k][acts'[b].keys[k]] = acts'[b].id
    BY DEF OwnInv
  <2>1. b # a
    <3> SUFFICES ASSUME b = a PROVE FALSE  OBVIOUS
    <3>1. container.actors[id] = a  BY <1>3, <1>6 DEF Contained
    <3>2. a # None  BY ContainerAssumption DEF Actors, None
    <3>3. QED  BY <3>1, <3>2, <1>1, <1>3, Entries
  <2>2. Contained(b) /\ acts'[b] = acts[b]  BY <2>1, <1>3, <1>5, <1>7 DEF Contained
  <2>3. OnlyOne(b, k)  BY <2>2, <1>4, <1>7 DEF OnlyOne
  <2>4. QED  BY <2>2, <2>3, <1>3 DEF Inv, OwnInv
<1>13. IndexSound'
  <2> SUFFICES ASSUME ~wild, NEW k \in Kinds, NEW key \in Keys, container.index[k][key] # None
               PROVE  /\ container.actors[container.index[k][key]] # None
                      /\ acts'[container.actors[container.index[k][key]]].keys[k] = key
    BY <1>3 DEF IndexSound, NoDangling
  <2>1. /\ container.actors[container.index[k][key]] # None
        /\ acts[container.actors[container.index[k][key]]].keys[k] = key
    BY DEF Inv, IndexSound, NoDangling
  <2>2. QED  BY <2>1, <1>4, Entries
<1>14. QED  BY <1>8, <1>9, <1>10, <1>11, <1>12, <1>13 DEF Inv
\* What add() does to the maps, where the id is free
LEMMA AddShape ==
  ASSUME Inv, NEW a \in Actors, Add(a), container.actors[acts[a].id] = None
  PROVE  /\ Made(a) /\ acts[a] \in Actor
         /\ \A i \in Ids : container'.actors[i] = IF i = acts[a].id THEN a ELSE container.actors[i]
         /\ \A k \in Kinds, key \in Keys :
              container'.index[k][key] =
                IF key = acts[a].keys[k] /\ container.index[k][key] = None THEN acts[a].id
                ELSE container.index[k][key]
         /\ container'.actors \in [Ids -> Actors \union {None}]
         /\ container'.index \in [Kinds -> [Keys -> Ids \union {None}]]
         /\ container' = [actors |-> container'.actors, index |-> container'.index]
<1>1. Made(a) /\ acts[a] \in Actor  BY MadeActor DEF Inv, TypeOK, Add
<1>2. container' = [actors |-> Insert(container.actors, acts[a].id, a),
                    index |-> [k \in Kinds |-> Link(container.index[k], acts[a].keys[k], acts[a].id)]]
  <2>1. DOMAIN container.index = Kinds  BY DEF Inv, TypeOK
  <2>2. QED  BY <2>1 DEF Add, AddActor
<1>3. container'.actors = Insert(container.actors, acts[a].id, a)  BY <1>2
<1>4. container'.index = [k \in Kinds |-> Link(container.index[k], acts[a].keys[k], acts[a].id)]  BY <1>2
<1>5. \A k \in Kinds : acts[a].keys[k] \in Keys /\ container.index[k] \in [Keys -> Ids \union {None}]
  BY <1>1 DEF Actor, Inv, TypeOK
<1>6. \A k \in Kinds : container'.index[k] \in [Keys -> Ids \union {None}]
  BY <1>1, <1>4, <1>5 DEF Link, Insert, Actor
<1>7. \A k \in Kinds, key \in Keys :
        container'.index[k][key] =
          IF key = acts[a].keys[k] /\ container.index[k][key] = None THEN acts[a].id
          ELSE container.index[k][key]
  BY <1>4, <1>5 DEF Link, Insert
<1>8. container'.actors \in [Ids -> Actors \union {None}]
  BY <1>1, <1>3 DEF Insert, Actor, Inv, TypeOK
<1>9. \A i \in Ids : container'.actors[i] = IF i = acts[a].id THEN a ELSE container.actors[i]
  BY <1>1, <1>3 DEF Insert, Actor, Inv, TypeOK
<1>10. container'.index \in [Kinds -> [Keys -> Ids \union {None}]]  BY <1>4, <1>6
<1>11. container' = [actors |-> container'.actors, index |-> container'.index]  BY <1>2, <1>3, <1>4
<1>12. QED  BY <1>1, <1>7, <1>8, <1>9, <1>10, <1>11

\* Adding an actor
LEMMA InvAdd ==
  ASSUME Inv, NEW a \in Actors, Add(a)
  PROVE  Inv'
<1>1. CASE container.actors[acts[a].id] # None
  <2>1. container' = container  BY <1>1 DEF Add, AddActor
  <2>2. QED  BY <2>1, InvHolds DEF Add, Inv, TypeOK
<1>2. CASE container.actors[acts[a].id] = None
  <2> DEFINE aid == acts[a].id
  <2>0. UNCHANGED <<seq, acts, held, wild>>  BY DEF Add
  <2>1. /\ Made(a) /\ acts[a] \in Actor /\ aid \in Ids /\ a # None
        /\ \A i \in Ids : container'.actors[i] = IF i = aid THEN a ELSE container.actors[i]
    BY <1>2, AddShape, ContainerAssumption DEF Actor, Actors, None
  <2>2. \A k \in Kinds, key \in Keys :
          container'.index[k][key] =
            IF key = acts[a].keys[k] /\ container.index[k][key] = None THEN aid
            ELSE container.index[k][key]
    BY <1>2, AddShape
  <2>3. TypeOK'
    <3>1. /\ container'.actors \in [Ids -> Actors \union {None}]
          /\ container'.index \in [Kinds -> [Keys -> Ids \union {None}]]
          /\ container' = [actors |-> container'.actors, index |-> container'.index]
      BY <1>2, AddShape
    <3>2. \A b \in Actors : Made(b)' <=> Made(b)  BY <2>0 DEF Made
    <3>3. QED  BY <2>0, <3>1, <3>2 DEF Inv, TypeOK
  <2>4. aid = acts[a].id /\ container.actors[aid] = None  BY <1>2
  <2> HIDE DEF aid
  <2>5. IdInv'  BY <2>0 DEF Inv, IdInv, Made
  <2>6. KeptInv'
    <3> SUFFICES ASSUME NEW i \in Ids, container'.actors[i] # None
                 PROVE  Made(container'.actors[i]) /\ acts[container'.actors[i]].id = i
      BY <2>0 DEF KeptInv, Made
    <3>1. CASE i = aid  BY <3>1, <2>1, <2>4
    <3>2. CASE i # aid  BY <3>2, <2>1 DEF Inv, KeptInv
    <3>3. QED  BY <3>1, <3>2
  <2>7. EntryInv'
    <3> SUFFICES ASSUME NEW k \in Kinds, NEW key \in Keys, container'.index[k][key] # None
                 PROVE  \E b \in Actors : Made(b) /\ acts[b].keys[k] = key /\ acts[b].id = container'.index[k][key]
      BY <2>0 DEF EntryInv, Made
    <3>1. CASE key = acts[a].keys[k] /\ container.index[k][key] = None  BY <3>1, <2>1, <2>2, <2>4
    <3>2. CASE ~(key = acts[a].keys[k] /\ container.index[k][key] = None)
      BY <3>2, <2>2 DEF Inv, EntryInv
    <3>3. QED  BY <3>1, <3>2
  <2>8. OwnInv'
    <3> SUFFICES ASSUME NEW b \in Actors, NEW k \in Kinds, Contained(b)', OnlyOne(b, k)
                 PROVE  container'.index[k][acts[b].keys[k]] = acts[b].id
      BY <2>0 DEF OwnInv, OnlyOne, Made
    <3>1. Made(b) /\ container'.actors[acts[b].id] = b  BY <2>0 DEF Contained, Made
    <3>2. acts[b] \in Actor  BY <3>1, MadeActor DEF Inv
    <3>3. acts[b].id \in Ids /\ acts[b].keys[k] \in Keys  BY <3>2 DEF Actor
    <3>4. CASE b = a
      <4>1. CASE container.index[k][acts[a].keys[k]] = None  BY <4>1, <3>3, <3>4, <2>2, <2>4
      <4>2. CASE container.index[k][acts[a].keys[k]] # None
        <5>1. PICK c \in Actors : /\ Made(c) /\ acts[c].keys[k] = acts[a].keys[k]
                                  /\ acts[c].id = container.index[k][acts[a].keys[k]]
          BY <4>2, <3>3, <3>4 DEF Inv, EntryInv
        <5>2. c = a  BY <5>1, <3>4 DEF OnlyOne
        <5>3. QED  BY <4>2, <5>1, <5>2, <3>3, <3>4, <2>2
      <4>3. QED  BY <4>1, <4>2
    <3>5. CASE b # a
      <4>1. Contained(b)
        <5>1. acts[b].id # aid  BY <3>1, <3>3, <3>5, <2>1
        <5>2. QED  BY <5>1, <3>1, <3>3, <2>1 DEF Contained
      <4>2. container.index[k][acts[b].keys[k]] = acts[b].id  BY <4>1 DEF Inv, OwnInv
      <4>3. acts[b].id # None  BY <3>3, ContainerAssumption DEF Ids, None
      <4>4. QED  BY <4>2, <4>3, <3>3, <2>2
    <3>6. QED  BY <3>4, <3>5
  <2>9. IndexSound'
    <3> SUFFICES ASSUME ~wild, NEW k \in Kinds, NEW key \in Keys, container'.index[k][key] # None
                 PROVE  /\ container'.actors[container'.index[k][key]] # None
                        /\ acts[container'.actors[container'.index[k][key]]].keys[k] = key
      BY <2>0 DEF IndexSound, NoDangling
    <3>1. CASE key = acts[a].keys[k] /\ container.index[k][key] = None  BY <3>1, <2>1, <2>2
    <3>2. CASE ~(key = acts[a].keys[k] /\ container.index[k][key] = None)
      <4>1. container'.index[k][key] = container.index[k][key]  BY <3>2, <2>2
      <4>2. /\ container.actors[container.index[k][key]] # None
            /\ acts[container.actors[container.index[k][key]]].keys[k] = key
        BY <4>1 DEF Inv, IndexSound, NoDangling
      <4>3. container.index[k][key] \in Ids  BY <4>1, Entries
      <4>4. container.index[k][key] # aid  BY <4>2, <2>4
      <4>5. QED  BY <4>1, <4>2, <4>3, <4>4, <2>1
    <3>3. QED  BY <3>1, <3>2
  <2>10. QED  BY <2>3, <2>5, <2>6, <2>7, <2>8, <2>9 DEF Inv
<1>3. QED  BY <1>1, <1>2

\* The entries for a's keys are gone, except those of the kinds in lost.
UnlinkedBut(a, lost) ==
  \A k \in Kinds, key \in Keys :
    container'.index[k][key] =
      IF key = acts[a].keys[k] /\ k \notin lost THEN None ELSE container.index[k][key]

\* What del() does to the maps: nothing is unlinked for the keys that were lost.
LEMMA DelShape ==
  ASSUME Inv, NEW id \in Ids, NEW a, a = container.actors[id], a # None, NEW lost \in SUBSET Kinds,
         container' = DelActor(container, id, acts[a].keys, lost)
  PROVE  /\ a \in Actors /\ Made(a) /\ acts[a] \in Actor /\ acts[a].id = id
         /\ \A i \in Ids : container'.actors[i] = IF i = id THEN None ELSE container.actors[i]
         /\ UnlinkedBut(a, lost)
         /\ container'.actors \in [Ids -> Actors \union {None}]
         /\ container'.index \in [Kinds -> [Keys -> Ids \union {None}]]
         /\ container' = [actors |-> container'.actors, index |-> container'.index]
<1>1. a \in Actors /\ Made(a) /\ acts[a] \in Actor /\ acts[a].id = id  BY Entries
<1>2. container' = [actors |-> Erase(container.actors, id),
                    index |-> [k \in Kinds |-> IF k \in lost THEN container.index[k]
                                               ELSE Unlink(container.index[k], acts[a].keys[k])]]
  <2>1. DOMAIN container.index = Kinds  BY DEF Inv, TypeOK
  <2>2. QED  BY <2>1 DEF DelActor
<1>3. container'.actors = Erase(container.actors, id)  BY <1>2
<1>4. container'.index = [k \in Kinds |-> IF k \in lost THEN container.index[k]
                                          ELSE Unlink(container.index[k], acts[a].keys[k])]
  BY <1>2
<1>5. \A k \in Kinds : acts[a].keys[k] \in Keys /\ container.index[k] \in [Keys -> Ids \union {None}]
  BY <1>1 DEF Actor, Inv, TypeOK
<1>6. \A k \in Kinds : container'.index[k] \in [Keys -> Ids \union {None}]
  BY <1>4, <1>5 DEF Unlink, Erase
<1>7. UnlinkedBut(a, lost)  BY <1>4, <1>5 DEF Unlink, Erase, UnlinkedBut
<1>8. container'.actors \in [Ids -> Actors \union {None}]
  BY <1>3 DEF Erase, Inv, TypeOK
<1>9. \A i \in Ids : container'.actors[i] = IF i = id THEN None ELSE container.actors[i]
  BY <1>3 DEF Erase, Inv, TypeOK
<1>10. container'.index \in [Kinds -> [Keys -> Ids \union {None}]]  BY <1>4, <1>6
<1>11. container' = [actors |-> container'.actors, index |-> container'.index]  BY <1>2, <1>3, <1>4
<1>12. QED  BY <1>1, <1>7, <1>8, <1>9, <1>10, <1>11

\* Deleting an actor
LEMMA InvDel ==
  ASSUME Inv, NEW id \in Ids, Del(id)
  PROVE  Inv'
<1> DEFINE d == container.actors[id]
<1>1. PICK lost \in SUBSET Kinds :
        (d \in held => lost = {}) /\ container' = DelActor(container, id, acts[d].keys, lost)
  BY DEF Del
<1>2. UNCHANGED <<seq, acts, held>> /\ d # None /\ wild' = (wild \/ d \notin held)  BY DEF Del
<1>3. d = container.actors[id]  OBVIOUS
<1> HIDE DEF d
<1>4. /\ d \in Actors /\ Made(d) /\ acts[d] \in Actor /\ acts[d].id = id
      /\ \A i \in Ids : container'.actors[i] = IF i = id THEN None ELSE container.actors[i]
  <2>1. d \in Actors /\ Made(d) /\ acts[d] \in Actor /\ acts[d].id = id  BY <1>2, <1>3, Entries
  <2>2. \A i \in Ids : container'.actors[i] = IF i = id THEN None ELSE container.actors[i]
    BY <1>1, <1>2, <1>3, DelShape
  <2>3. QED  BY <2>1, <2>2
<1>5. \A k \in Kinds, key \in Keys :
        container'.index[k][key] =
          IF key = acts[d].keys[k] /\ k \notin lost THEN None ELSE container.index[k][key]
  <2>1. UnlinkedBut(d, lost)  BY <1>1, <1>2, <1>3, DelShape
  <2>2. QED  BY <2>1 DEF UnlinkedBut
<1>6. TypeOK'
  <2>1. /\ container'.actors \in [Ids -> Actors \union {None}]
        /\ container'.index \in [Kinds -> [Keys -> Ids \union {None}]]
        /\ container' = [actors |-> container'.actors, index |-> container'.index]
    BY <1>1, <1>2, <1>3, DelShape
  <2>2. \A b \in Actors : Made(b)' <=> Made(b)  BY <1>2 DEF Made
  <2>3. wild' \in BOOLEAN  BY <1>2, Zenon DEF Inv, TypeOK
  <2>4. QED  BY <1>2, <2>1, <2>2, <2>3 DEF Inv, TypeOK
<1>7. IdInv'  BY <1>2 DEF Inv, IdInv, Made
<1>8. KeptInv'  BY <1>2, <1>4 DEF Inv, KeptInv, Made
<1>9. EntryInv'
  <2> SUFFICES ASSUME NEW k \in Kinds, NEW key \in Keys, container'.index[k][key] # None
               PROVE  \E b \in Actors : Made(b) /\ acts[b].keys[k] = key /\ acts[b].id = container'.index[k][key]
    BY <1>2 DEF EntryInv, Made
  <2>1. QED  BY <1>5 DEF Inv, EntryInv
<1>10. OwnInv'
  <2> SUFFICES ASSUME NEW b \in Actors, NEW k \in Kinds, Contained(b)', OnlyOne(b, k)
               PROVE  container'.index[k][acts[b].keys[k]] = acts[b].id
    BY <1>2 DEF OwnInv, OnlyOne, Made
  <2>1. Made(b) /\ container'.actors[acts[b].id] = b  BY <1>2 DEF Contained, Made
  <2>2. acts[b] \in Actor  BY <2>1, MadeActor DEF Inv
  <2>3. acts[b].id \in Ids /\ acts[b].keys[k] \in Keys  BY <2>2 DEF Actor
  <2>4. b # None  BY ContainerAssumption DEF Actors, None
  <2>5. Contained(b) /\ b # d
    <3>1. acts[b].id # id  BY <2>1, <2>3, <2>4, <1>4
    <3>2. QED  BY <3>1, <2>1, <2>3, <1>4 DEF Contained
  <2>6. acts[d].keys[k] # acts[b].keys[k]  BY <2>5, <1>4 DEF OnlyOne
  <2>7. container.index[k][acts[b].keys[k]] = acts[b].id  BY <2>5 DEF Inv, OwnInv
  <2>8. QED  BY <2>3, <2>6, <2>7, <1>5
<1>11. IndexSound'
  <2> SUFFICES ASSUME ~wild', NEW k \in Kinds, NEW key \in Keys, container'.index[k][key] # None
               PROVE  /\ container'.actors[container'.index[k][key]] # None
                      /\ acts[container'.actors[container'.index[k][key]]].keys[k] = key
    BY <1>2 DEF IndexSound, NoDangling
  <2>1. ~wild /\ d \in held  BY <1>2, Zenon
  <2>2. lost = {}  BY <2>1, <1>1
  <2>3. key # acts[d].keys[k] /\ container'.index[k][key] = container.index[k][key]  BY <2>2, <1>5
  <2>4. /\ container.actors[container.index[k][key]] # None
        /\ acts[container.actors[container.index[k][key]]].keys[k] = key
    BY <2>1, <2>3 DEF Inv, IndexSound, NoDangling
  <2>5. container.index[k][key] \in Ids  BY <2>3, Entries
  <2>6. container.index[k][key] # id  BY <2>3, <2>4, <1>3
  <2>7. QED  BY <2>3, <2>4, <2>5, <2>6, <1>4
<1>12. QED  BY <1>6, <1>7, <1>8, <1>9, <1>10, <1>11 DEF Inv

\* The invariant holds in every state.
THEOREM ContainerInvariant == Spec => []Inv
<1>1. Inv /\ [Next]_vars => Inv'
  <2> SUFFICES ASSUME Inv, [Next]_vars PROVE Inv'  OBVIOUS
  <2>0. seq \in Nat /\ held \subseteq {a \in Actors : Made(a)}  BY DEF Inv, TypeOK
  <2>1. CASE UNCHANGED vars  BY <2>0, <2>1, InvHolds DEF vars
  <2>2. CASE OtherId  BY <2>0, <2>2, InvHolds DEF OtherId
  <2>3. ASSUME NEW a \in Actors, NEW keys \in [Kinds -> Keys], NEW time \in 0..1, Make(a, keys, time)
        PROVE  Inv'
    BY <2>3, InvMake
  <2>4. ASSUME NEW a \in Actors, Add(a)  PROVE Inv'  BY <2>4, InvAdd
  <2>5. ASSUME NEW a \in Actors, LetGo(a)  PROVE Inv'  BY <2>0, <2>5, InvHolds DEF LetGo
  <2>6. ASSUME NEW a \in Actors, DelById(a)  PROVE Inv'
    <3>1. acts[a].id \in Ids  BY <2>6, MadeActor DEF DelById, Actor, Inv
    <3>2. QED  BY <2>6, <3>1, InvDel DEF DelById
  <2>7. ASSUME NEW k \in Kinds, NEW key \in Keys, Take(k, key)  PROVE Inv'
    <3>1. Find(container, k, key) \in {a \in Actors : Made(a)}  BY <2>7, Entries DEF Take, Find
    <3>2. QED  BY <2>0, <2>7, <3>1, InvHolds DEF Take
  <2>8. ASSUME NEW k \in Kinds, NEW key \in Keys, DelByKey(k, key)  PROVE Inv'
    BY <2>8, Entries, InvDel DEF DelByKey
  <2>9. ASSUME NEW a \in Actors, TakeById(a)  PROVE Inv'
    <3>1. Made(a)  BY <2>9 DEF TakeById, Contained
    <3>2. QED  BY <2>0, <2>9, <3>1, InvHolds DEF TakeById
  <2>10. QED  BY <2>1, <2>2, <2>3, <2>4, <2>5, <2>6, <2>7, <2>8, <2>9 DEF Next
<1>2. QED  BY <1>1, InvInit, PTL DEF Spec

\* next() gives no id twice as long as the sequence number has not run out of its own
\* bits, for any width of it and whatever the clock says.
THEOREM IdsAreDistinct == Spec => []IdsDistinct
<1>1. Inv => IdsDistinct
  <2> SUFFICES ASSUME Inv, seq < SeqRange, NEW a \in Actors, NEW b \in Actors, Made(a), Made(b),
                      acts[a].id = acts[b].id
               PROVE  a = b
    BY DEF IdsDistinct
  <2>1. acts[a].no \in Nat /\ acts[b].no \in Nat  BY MadeActor DEF Inv, Actor
  <2>2. acts[a].no < SeqRange /\ acts[b].no < SeqRange
    BY <2>1, ContainerAssumption DEF Inv, TypeOK, IdInv
  <2>3. acts[a].no = acts[b].no
    <3>1. acts[a].id \in {acts[a].no, acts[a].no + SeqRange}  BY <2>2 DEF Inv, IdInv
    <3>2. acts[b].id \in {acts[b].no, acts[b].no + SeqRange}  BY <2>2 DEF Inv, IdInv
    <3>3. QED  BY <3>1, <3>2, <2>1, <2>2, ContainerAssumption
  <2>4. QED  BY <2>3 DEF Inv, IdInv
<1>2. QED  BY <1>1, ContainerInvariant, PTL

\* As long as del() was called for actors somebody else holds, every entry of an
\* index leads to an actor of the container with that key, though ids repeat and
\* actors share keys.
THEOREM IndexIsSound == Spec => []IndexSound
<1>1. Inv => IndexSound  BY DEF Inv
<1>2. QED  BY <1>1, ContainerInvariant, PTL

\* An actor of the container is found under a key of its own, whatever del() left in
\* the indexes.
THEOREM OwnKeysFind == Spec => []FoundUnderOwn
<1>1. Inv => FoundUnderOwn
  <2> SUFFICES ASSUME Inv, NEW a \in Actors, NEW k \in Kinds, Contained(a), OnlyOne(a, k)
               PROVE  Find(container, k, acts[a].keys[k]) = a
    BY DEF FoundUnderOwn, OnlyOne
  <2>1. container.index[k][acts[a].keys[k]] = acts[a].id  BY DEF Inv, OwnInv
  <2>2. acts[a].id # None
    <3>1. acts[a].id \in Ids  BY MadeActor DEF Contained, Inv, Actor
    <3>2. QED  BY <3>1, ContainerAssumption DEF Ids, None
  <2>3. QED  BY <2>1, <2>2 DEF Find, Contained
<1>2. QED  BY <1>1, ContainerInvariant, PTL

\* The variables of the container keep their types.
THEOREM ContainerTypes == Spec => []TypeOK
<1>1. Inv => TypeOK  BY DEF Inv
<1>2. QED  BY <1>1, ContainerInvariant, PTL
=============================================================================
