-------------------------------- MODULE Odbc --------------------------------
(***************************************************************************)
(* The parts of nanodbc together: connection, transactions, statement,     *)
(* result and catalog.                                                     *)
(*                                                                         *)
(* A result is made of a statement that was executed and works on its      *)
(* handle: its moves set the statement's asynchronous mode, and fail once  *)
(* the handle or the link is gone.  A search of the catalog is a result of *)
(* one row at a time, seen through a class that offers next() and one      *)
(* accessor per column.  The application makes a new result after it has   *)
(* opened, prepared or executed the statement again.                       *)
(***************************************************************************)
EXTENDS Statement, Cursor

VARIABLE of  \* the statement of the result, and whether it is a search

resultVars == <<rowVars, of>>

ASSUME OdbcAssumption == Sets \in Seq(Nat) \ {<<>>} /\ Rowsets \subseteq Nat \ {0}

NoResultYet == [stmt |-> "none", search |-> FALSE]

OdbcInit == Init /\ CursorInit /\ of = NoResultYet

\* The handle has a cursor, and the driver can answer the call: an asynchronous
\* fetch executes until it is completed, anything else fails meanwhile.
Serves(s) ==
  /\ s \in handles /\ link.up /\ drv[s].sent.state # "none"
  /\ drv[s].executing = IF cur.busy THEN "fetch" ELSE "no"

\* What a result does to its statement
Tells(s, told) ==
  LET e == [st |-> stmt[s], d |-> drv[s]]
      o == CASE told = "on" -> EnableAsync(e.st, e.d)
             [] told = "off" -> DisableAsync(e.st, e.d)
             [] told = "no" -> e
  IN  /\ told # "no" => s \in handles
      /\ stmt' = [stmt EXCEPT ![s] = o.st]
      /\ drv' = [drv EXCEPT ![s] =
           [o.d EXCEPT !.executing = IF cur'.busy # cur.busy /\ s \in handles
                                     THEN (IF cur'.busy THEN "fetch" ELSE "no") ELSE @]]
      /\ UNCHANGED <<connVars, tvp, use>>

\* result(statement, rowset_size): of a statement that has been executed
Results(s) ==
  /\ Ready(s) /\ link.up /\ drv[s].sent.state # "none"
  /\ \E n \in Rowsets : NewResult(n)
  /\ of' = [stmt |-> s, search |-> FALSE]
  /\ Tells(s, "off")

\* find_tables() and its like: a statement of its own, and a result of one row
Find(s) ==
  /\ Ready(s) /\ link.up /\ drv[s].sent.state = "direct"
  /\ NewResult(1)
  /\ of' = [stmt |-> s, search |-> TRUE]
  /\ Tells(s, "off")

\* next() of a search, also in the loops of list_catalogs() and its like
FindNext(up, told) == MoveTo("next", 0, up, told)

\* An accessor: get() of a column
Access(up, told) == Get(up, told)

Walks ==
  LET s == of.stmt
      up == Serves(s)
  IN  /\ s # "none"
      /\ \E told \in {"no", "off", "on"} :
           /\ IF of.search THEN FindNext(up, told) \/ Access(up, told) ELSE CursorNext(up, told)
           /\ Tells(s, told)
      /\ UNCHANGED of

\* The result is destroyed.
Drop ==
  /\ of.stmt # "none" /\ of' = NoResultYet
  /\ NewResult(1)
  /\ UNCHANGED vars

OdbcNext ==
  \/ Beside /\ UNCHANGED resultVars
  \/ of.stmt = "none" /\ Next /\ UNCHANGED resultVars
  \/ "rows" \in use /\ \E s \in Stmts : Results(s) \/ Find(s)
  \/ Walks
  \/ Drop

OdbcSpec == OdbcInit /\ [][OdbcNext]_<<vars, resultVars>>
=============================================================================
