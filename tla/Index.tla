-------------------------------- MODULE Index --------------------------------
(***************************************************************************)
(* The maps under the services of an application: a container of actors by *)
(* id, and its indexes, which lead from a key of some kind (a name, the    *)
(* address of a session, a uuid) to an id.  A map is a function on all the *)
(* keys there are, with None where it has no entry.                        *)
(***************************************************************************)
EXTENDS Integers

None == -1

NewContainer(Ids, Kinds, Keys) ==
  [actors |-> [id \in Ids |-> None], index |-> [k \in Kinds |-> [key \in Keys |-> None]]]

\* insert() of a map: the first entry for a key stays.
Insert(m, key, value) == [m EXCEPT ![key] = IF @ = None THEN value ELSE @]

Erase(m, key) == [m EXCEPT ![key] = None]

\* index::link(), index::unlink()
Link(ix, key, id) == Insert(ix, key, id)
Unlink(ix, key) == Erase(ix, key)

\* index::find(): the actor a key of kind k leads to
Find(c, k, key) == IF c.index[k][key] = None THEN None ELSE c.actors[c.index[k][key]]

\* Mutants: an actor whose id is taken is linked all the same, or only under the
\* first of its keys.
AddLinked(c, id, a, keys) ==
  [actors |-> Insert(c.actors, id, a), index |-> [k \in DOMAIN c.index |-> Link(c.index[k], keys[k], id)]]
AddNameOnly(c, id, a, keys) ==
  IF c.actors[id] # None THEN c
  ELSE [actors |-> Insert(c.actors, id, a),
        index |-> [k \in DOMAIN c.index |->
                     IF k = "name" THEN Link(c.index[k], keys[k], id) ELSE c.index[k]]]

\* actor_container::add(): an id that is taken is refused.
AddActor(c, id, a, keys) ==
  IF c.actors[id] # None THEN c
  ELSE [actors |-> Insert(c.actors, id, a),
        index |-> [k \in DOMAIN c.index |-> Link(c.index[k], keys[k], id)]]

\* actor_container::del() of the actor under id, whose keys these are.  They are
\* read after it was erased: those of the kinds in lost no longer read as they were,
\* and nothing is unlinked for them.
DelActor(c, id, keys, lost) ==
  [actors |-> Erase(c.actors, id),
   index |-> [k \in DOMAIN c.index |-> IF k \in lost THEN c.index[k] ELSE Unlink(c.index[k], keys[k])]]
=============================================================================
