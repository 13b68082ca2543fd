-------------------------------- MODULE Flow --------------------------------
(***************************************************************************)
(* The acts of a bot: a tree of act_serial, act_parallel and leaf acts     *)
(* described by the json of a flow, with the calls that run through it:    *)
(* activate, update and deactivate downwards, next, jump and exit upwards. *)
(*                                                                         *)
(* A script names the nodes of the json.  The acts are created from it at  *)
(* every activation of their parent (load_acts() appends), so one node may *)
(* have several acts.  The state of a flow is a record f that the          *)
(* operators transform:                                                    *)
(*   acts    - the acts created so far; acts[1] is the flow itself         *)
(*   ok      - what the last activate() returned                           *)
(*   exited  - flow::exit() was called in this update(), and stops the bot *)
(*   threw   - get_child_path() threw out_of_range in this update()        *)
(*   looping - the parallel acts whose on_update() is iterating their acts *)
(*   odd     - what has happened that acts are not written for:            *)
(*     "again" - a composite was activated again, and holds its acts twice *)
(*     "first" - a serial act was activated with another than its first    *)
(*     "half"  - an activation failed, and has left acts below it active   *)
(*     "left"  - a parallel act was deactivated while it was iterating     *)
(*     "grown" - its acts_ grew while it was iterating                     *)
(*     "late"  - update() of a stopped bot                                 *)
(*     "empty" - update() of a serial act without acts, which is a crash   *)
(* Names are not string prefixes of one another, which is what             *)
(* path::is_child_of() compares.                                           *)
(***************************************************************************)
EXTENDS Integers, SequencesExt

CONSTANTS Scripts,  \* the flows of an instance, by name
          Script    \* script -> node -> [type, kids, cmd, target]

Types == {"act_serial", "act_parallel", "act_message", "act_ensure"}
Root == "flow"

\* The node above n, and path_.full_path_ of n as the names from the root.
ParentOf(sc, n) == CHOOSE p \in DOMAIN Script[sc] :
                     \E k \in DOMAIN Script[sc][p].kids : Script[sc][p].kids[k] = n
PathOf(sc, n) ==
  LET path[d \in 0..5] ==   \* the names of n and of up to d nodes above it
        IF d = 0 THEN <<n>>
        ELSE IF Head(path[d - 1]) = Root THEN path[d - 1]
        ELSE <<ParentOf(sc, Head(path[d - 1]))>> \o path[d - 1]
  IN  path[5]

NewAct(n, up) == [node |-> n, up |-> up, active |-> FALSE, index |-> 1, kids |-> <<>>]

\* flow::flow()
NewFlow(sc) == [script |-> sc, acts |-> <<NewAct(Root, 0)>>, ok |-> FALSE, exited |-> FALSE,
                threw |-> FALSE, looping |-> {}, odd |-> {}]

\* Note what has happened, if it has.
Noted(f, what, happened) == IF happened THEN [f EXCEPT !.odd = @ \union {what}] ELSE f

NodeOf(f, i) == Script[f.script][f.acts[i].node]
TypeOf(f, i) == NodeOf(f, i).type
CurrentAct(f, i) == f.acts[i].kids[f.acts[i].index]

\* act_composite::load_acts(): the factory creates the children in order, up
\* to the first of unknown type, behind those of earlier activations.
LoadActs(f, i) ==
  LET names == NodeOf(f, i).kids
      known == {k \in DOMAIN names :
                  \A j \in 1..k : Script[f.script][names[j]].type \in Types}
      size == Len(f.acts)
      n == IF known = {} THEN 0 ELSE CHOOSE k \in known : k + 1 \notin known
  IN  [Noted(Noted(f, "grown", i \in f.looping), "again", f.acts[i].kids # <<>>)
         EXCEPT !.acts = [@ EXCEPT ![i].kids = @ \o [k \in 1..n |-> size + k]]
                         \o [k \in 1..n |-> NewAct(names[k], i)],
                !.ok = n = Len(names)]

-----------------------------------------------------------------------------
(* Downwards: activate() and deactivate(). *)

\* The acts a call is handed down to: the current one of act_serial, all of
\* act_parallel.
Running(f, i) ==
  IF TypeOf(f, i) = "act_serial" /\ f.acts[i].kids # <<>> THEN <<CurrentAct(f, i)>>
  ELSE f.acts[i].kids

RECURSIVE Activate(_, _), Deactivate(_, _)

\* on_activate(): up to the first act that fails; act_serial checks that it
\* starts with its first act.
OnActivate(f, i) ==
  LET l == LoadActs(f, i)
      other == TypeOf(f, i) = "act_serial" /\ l.acts[i].index # 1
  IN  IF l.ok THEN FoldLeft(LAMBDA g, k : IF g.ok THEN Activate(g, k) ELSE g,
                            Noted(l, "first", other), Running(l, i))
      ELSE l

\* active_ is what on_activate() returned.
Activated(g, i) ==
  LET below == \E k \in DOMAIN g.acts[i].kids : g.acts[g.acts[i].kids[k]].active
  IN  [Noted(g, "half", ~g.ok /\ below) EXCEPT !.acts[i].active = g.ok]

Activate(f, i) ==
  IF f.acts[i].active THEN [f EXCEPT !.ok = TRUE] ELSE Activated(OnActivate(f, i), i)

\* on_deactivate(), and deactivate() around it.
OnDeactivate(f, i) == FoldLeft(LAMBDA g, k : Deactivate(g, k), f, Running(f, i))

Deactivate(f, i) ==
  IF f.acts[i].active
  THEN [OnDeactivate(Noted(f, "left", i \in f.looping), i) EXCEPT !.acts[i].active = FALSE]
  ELSE f

-----------------------------------------------------------------------------
(* Upwards: next(), jump() and exit(), called by signal(). *)

\* The act at index k becomes the current one, and is activated.
MakeCurrent(f, i, k) ==
  Activate([f EXCEPT !.acts[i].index = k], f.acts[i].kids[k])

\* Mutant: the current act stays active.
SerialNextKeeps(f, i) ==
  IF f.acts[i].index = Len(f.acts[i].kids) THEN f
  ELSE MakeCurrent(f, i, f.acts[i].index + 1)

\* act_serial::next(): at the end the last act stays current, deactivated.
SerialNext(f, i) ==
  IF f.acts[i].index = Len(f.acts[i].kids) THEN Deactivate(f, CurrentAct(f, i))
  ELSE MakeCurrent(Deactivate(f, CurrentAct(f, i)), i, f.acts[i].index + 1)

\* find_act(): the first act of that name, 0 for none.
FindAct(f, i, name) ==
  LET ks == f.acts[i].kids
      named == {k \in DOMAIN ks : f.acts[ks[k]].node = name}
  IN  IF named = {} THEN 0 ELSE CHOOSE k \in named : \A j \in named : k <= j

\* act_serial::jump_child(): to the act that begins the path.
SerialJumpChild(f, i, parts) ==
  LET k == IF parts = <<>> THEN 0 ELSE FindAct(f, i, Head(parts))
  IN  IF k = 0 THEN f ELSE MakeCurrent(Deactivate(f, CurrentAct(f, i)), i, k)

\* path::is_child_of() and get_child_path()
IsChildOf(self, path) == Len(self) <= Len(path) /\ SubSeq(path, 1, Len(self)) = self
ChildPath(self, path) == SubSeq(path, Len(self) + 1, Len(path))

\* act_parallel::jump_child(): hands the rest of the path to the act that begins
\* it, if there is one.
ParallelJumpChild(f, i, parts) ==
  LET k == IF parts = <<>> THEN 0 ELSE FindAct(f, i, Head(parts))
  IN  IF k = 0 THEN [to |-> 0, path |-> [abs |-> FALSE, parts |-> <<>>]]
      ELSE [to |-> f.acts[i].kids[k], path |-> [abs |-> FALSE, parts |-> Tail(parts)]]

\* jump() of a composite is for its children if the path is relative, or absolute
\* and below it; the others, and those of a leaf, are for the parent.
IsHere(f, i, path) ==
  /\ TypeOf(f, i) \in {"act_serial", "act_parallel"} /\ path.parts # <<>>
  /\ path.abs => IsChildOf(PathOf(f.script, f.acts[i].node), path.parts)

\* Where act i hands jump(path) on to, 0 for nowhere.
HandedOn(f, i, path) ==
  LET rest == IF path.abs THEN ChildPath(PathOf(f.script, f.acts[i].node), path.parts)
                          ELSE path.parts
  IN  IF IsHere(f, i, path) THEN ParallelJumpChild(f, i, rest)
      ELSE [to |-> f.acts[i].up, path |-> path]

\* What act_serial does with a path for its children.
JumpHere(f, i, path) ==
  LET self == PathOf(f.script, f.acts[i].node)
  IN  SerialJumpChild(f, i, IF path.abs THEN ChildPath(self, path.parts) ELSE path.parts)

RECURSIVE Jump(_, _, _), Update(_, _)

\* get_child_path() throws for the path of the act itself; act_serial ignores an
\* empty path.
Jump(f, i, path) ==
  LET serial == TypeOf(f, i) = "act_serial"
      here == IsHere(f, i, path)
      next == HandedOn(f, i, path)
  IN  IF here /\ path.abs /\ path.parts = PathOf(f.script, f.acts[i].node)
      THEN [f EXCEPT !.threw = TRUE]
      ELSE IF serial /\ here THEN JumpHere(f, i, path)
      ELSE IF next.to = 0 \/ (serial /\ path.parts = <<>>) THEN f
      ELSE Jump(f, next.to, next.path)

\* next() of the act above a leaf; act_parallel reports an error.
NextAct(f, i) == IF TypeOf(f, i) = "act_serial" THEN SerialNext(f, i) ELSE f

\* exit() from parent to parent up to flow::exit(), which stops the owner:
\* bot::on_stop() deactivates the flow.
Exit(f) == [Deactivate(f, 1) EXCEPT !.exited = TRUE]

\* signal(): the command of the slot.
Signal(f, i) ==
  CASE NodeOf(f, i).cmd = "next" -> NextAct(f, f.acts[i].up)
    [] NodeOf(f, i).cmd = "jump" -> Jump(f, f.acts[i].up, NodeOf(f, i).target)
    [] NodeOf(f, i).cmd = "exit" -> Exit(f)
    [] OTHER -> f

\* on_update() of a composite; act_parallel iterates over its acts meanwhile.
OnUpdate(f, i) ==
  LET loop == IF TypeOf(f, i) = "act_parallel" THEN {i} ELSE {}
      none == TypeOf(f, i) = "act_serial" /\ f.acts[i].kids = <<>>
  IN  [FoldLeft(LAMBDA g, k : IF g.threw THEN g ELSE Update(g, k),
                [Noted(f, "empty", none) EXCEPT !.looping = @ \union loop], Running(f, i))
         EXCEPT !.looping = @ \ loop]

\* update() of an act, active or not: act_message succeeds at once (and so does
\* act_wait_duration, whose duration_ stays 0), act_ensure does nothing.
Update(f, i) == IF TypeOf(f, i) = "act_message" THEN Signal(f, i) ELSE OnUpdate(f, i)

-----------------------------------------------------------------------------
(* find() *)

RECURSIVE Find(_, _, _)

\* find_child() of a composite; a leaf finds nothing.
FindChild(f, i, parts) ==
  LET k == IF parts = <<>> THEN 0 ELSE FindAct(f, i, Head(parts))
  IN  IF k = 0 THEN 0 ELSE Find(f, f.acts[i].kids[k], [abs |-> FALSE, parts |-> parts])

Find(f, i, path) ==
  LET self == PathOf(f.script, f.acts[i].node)
      name == f.acts[i].node
      parts == path.parts
  IN  IF parts = <<>> THEN 0
      ELSE IF IF path.abs THEN parts = self ELSE parts[Len(parts)] = name THEN i
      ELSE IF path.abs /\ ~IsChildOf(self, parts)
           THEN IF f.acts[i].up = 0 THEN 0 ELSE Find(f, f.acts[i].up, path)
      ELSE IF path.abs THEN FindChild(f, i, ChildPath(self, parts))
      ELSE IF Head(parts) = name THEN FindChild(f, i, Tail(parts))
      ELSE FindChild(f, i, parts)
=============================================================================
