------------------------------ MODULE RowCursor ------------------------------
(***************************************************************************)
(* What nanodbc's result promises: one row at a time.                      *)
(*                                                                         *)
(* A result is a sequence of result sets and a place in one of them, on a  *)
(* row, before the first or behind the last.  Each call moves the place to *)
(* the row that its name says and answers whether there is one.  There are *)
(* no rowsets, but their size limits what is promised: prior(), last(),    *)
(* skip() and complete_next() land where they say only where it is one     *)
(* row, and after next_result() the place is lost until a move by number   *)
(* unless it is.                                                           *)
(***************************************************************************)
EXTENDS Integers, Sequences

CONSTANT Sets  \* the number of rows of each result set

VARIABLES set, at,
          ret,   \* what the last call answered
          op,    \* the last call and its argument
          size,  \* rows of a rowset
          sure   \* is the place known?

vars == <<set, at, ret, op, size, sure>>

Rows == IF set \in DOMAIN Sets THEN Sets[set] ELSE 0

Fresh == set = 1 /\ at = 0 /\ ret = "none" /\ size \in Nat \ {0} /\ sure = TRUE

Init == Fresh /\ op = <<"none", 0>>

\* The place becomes k, or the nearest there is.
Nearest(k) == IF k < 0 THEN 0 ELSE IF k > Rows THEN Rows + 1 ELSE k

To(k) ==
  /\ at' = Nearest(k) /\ ret' = IF at' \in 1..Rows THEN "row" ELSE "none"
  /\ sure' \in {sure, TRUE}

Anywhere == at' \in 0..(Rows + 1) /\ ret' \in {"row", "none", "error"} /\ sure' \in {sure, TRUE}

Exactly(holds, k) == IF holds THEN To(k) ELSE Anywhere

Last == IF Rows = 0 THEN 1 ELSE Rows

\* first() and move(k), which know the place whatever was before
Absolute ==
  /\ \/ op' = <<"first", 0>> /\ To(1)
     \/ op'[1] = "move" /\ To(op'[2])
  /\ sure'

\* next(), and the moves that work by rowsets
Relative ==
  \/ op' = <<"next", 0>> /\ Exactly(sure, at + 1)
  \/ op' = <<"prior", 0>> /\ Exactly(size = 1, at - 1)
  \/ op' = <<"last", 0>> /\ Exactly(size = 1, Last)
  \/ op'[1] = "skip" /\ Exactly(size = 1, at + op'[2])

\* complete_next() never answers that there is a row where there is none; one
\* that was met before may be denied.
Complete ==
  /\ op' = <<"complete", 0>> /\ sure' = sure
  /\ IF size = 1 THEN /\ at' = Nearest(at + 1)
                      /\ ret' = "none" \/ (ret' = "row" /\ at' \in 1..Rows)
     ELSE at' \in 0..(Rows + 1) /\ ret' \in {"row", "none", "error"}

\* A call throws, or, with an event, fails unnoticed.  The place does not move,
\* except to the first row of the rowset.
Fail ==
  /\ \/ op' = <<"error", 0>> /\ ret' = "error"
     \/ op' = <<"lost", 0>> /\ ret' \in {"row", "none"}
  /\ at' \in 0..at /\ (size = 1 => at' = at)
  /\ sure' = sure

\* The next result set, if there is one.
NextSet ==
  /\ set \in DOMAIN Sets
  /\ op' = <<"next_result", 0>>
  /\ set' = set + 1 /\ at' = 0 /\ sure' = (size = 1)
  /\ \/ ret' = IF set' \in DOMAIN Sets THEN "set" ELSE "over"
     \/ ret' = "error" /\ set' \in DOMAIN Sets
  /\ UNCHANGED size

\* Another result
Renew == op' = <<"new", 0>> /\ Fresh'

Next ==
  \/ (Absolute \/ Relative \/ Complete \/ Fail) /\ UNCHANGED <<set, size>>
  \/ NextSet \/ Renew

Spec == Init /\ [][Next]_vars
=============================================================================
