------------------------------- MODULE Cursor -------------------------------
(***************************************************************************)
(* result of nanodbc over the cursor of an ODBC driver.                    *)
(*                                                                         *)
(* The driver fetches rowsets; result_impl walks the rows of the rowset it *)
(* has and fetches another at its edges.  A column is read from a buffer   *)
(* bound for the whole rowset, or, where it is long or unbound, from the   *)
(* driver, which knows only the first row of the rowset; one column of     *)
(* each result set is followed, short or long.  The rows of a result set   *)
(* are numbered from 1.  A call asks the driver only where                 *)
(* `up' says that the driver can answer; it may always fail.  `told' is    *)
(* what the call tells the statement: to be asynchronous ("on"), not to be *)
(* ("off"), or nothing ("no").                                             *)
(***************************************************************************)
EXTENDS Integers, Sequences

CONSTANTS Sets,     \* the number of rows of each result set
          Rowsets,  \* rowset sizes
          Nulls     \* rows whose column is null

VARIABLES
  cur,   \* the driver: result set, first row of the rowset, how often the column of
         \* that row was got by SQLGetData, and whether a fetch still executes
  res,   \* result_impl: rowset_size_, row_count_, rowset_position_, at_end_, async_,
         \* and of the column bound_ and the positions whose indicator says null
  ret,   \* what the last move returned
  hist   \* the last call; whether an async_next() is to be completed, or failed
         \* unnoticed, and the place where it was called; whether the place is known;
         \* whether the last fetch failed

rowVars == <<cur, res, ret, hist>>

N == IF cur.set \in DOMAIN Sets THEN Sets[cur.set] ELSE 0
Null(row) == row \in Nulls

\* The row the application is on; 0 is before the first.
Place(lo, position) == IF lo = 0 THEN 0 ELSE IF lo + position > N THEN N + 1 ELSE lo + position
At == Place(cur.lo, res.position)

\* auto_bind_columns(): a short column is bound, a long one is not.  The indicators
\* are allocated, and hold anything.
AutoBind(r, short, garbage) == [r EXCEPT !.bound = short, !.nulls = garbage]

FreshCur == [set |-> 1, lo |-> 0, got |-> "no", busy |-> FALSE]
FreshRes(n, short) ==
  AutoBind([size |-> n, rows |-> 0, position |-> 0, atEnd |-> FALSE, bound |-> FALSE, nulls |-> {},
            async |-> FALSE], short, {})
FreshHist(op) == [op |-> <<op, 0>>, asked |-> "no", was |-> 0, sure |-> TRUE, failed |-> FALSE]

CursorInit ==
  /\ cur = FreshCur /\ res = FreshRes(1, TRUE) /\ ret = "none"
  /\ hist = FreshHist("none")

\* result(statement, rowset_size); with no rows nobody can read the indicators.
NewResult(n) ==
  /\ cur' = FreshCur /\ ret' = "none"
  /\ \E short \in BOOLEAN : res' = FreshRes(n, short)
  /\ hist' = FreshHist("new")

-----------------------------------------------------------------------------
(* Moving *)

\* SQLFetchScroll: where the rowset begins next.
Scroll(orientation, k) ==
  LET s == cur.lo
      n == res.size
      last == IF N < n THEN 1 ELSE N - n + 1
      within(p) == IF p < 1 THEN 0 ELSE IF p > N THEN N + 1 ELSE p
  IN  CASE orientation = "first" -> 1
        [] orientation = "last" -> last
        [] orientation = "next" -> within(IF s = 0 THEN 1 ELSE s + n)
        [] orientation = "prior" -> IF s = 0 \/ s = 1 THEN 0
                                    ELSE IF s > N THEN (IF N = 0 THEN 0 ELSE last)
                                    ELSE IF s <= n THEN 1 ELSE s - n
        [] orientation = "absolute" -> within(k)
        [] orientation = "relative" -> within(s + k)

\* The rows of a rowset that begins at lo
RowsFrom(lo) ==
  IF lo \notin 1..N THEN 0 ELSE IF N - lo + 1 < res.size THEN N - lo + 1 ELSE res.size

\* Mutant: the indicators of the last rowset stay.
BeforeMoveKeeps(r) == r

\* before_move()
BeforeMove(r) == [r EXCEPT !.nulls = {}]

\* The indicators that a fetch sets, where there is a null: those of a bound column,
\* and of another as the driver likes.
Marks(lo) == {i \in 0..(res.size - 1) : lo + i \in 1..N /\ Null(lo + i)}
Indicators(lo) == IF res.bound THEN {Marks(lo)} ELSE SUBSET Marks(lo)

\* A call that moves: the state it leaves, its answer, what it told the statement
Moved(c, r, answer, told) == [cur |-> c, res |-> r, ret |-> answer, told |-> told]
Answer(onRow) == IF onRow THEN "row" ELSE "none"

\* fetch() at a driver that answers.  at_end_ is set where there is no data, and
\* nothing clears it.
Fetched(orientation, k) ==
  LET lo == Scroll(orientation, k)
      b == BeforeMove(res)
  IN  {Moved([cur EXCEPT !.lo = lo, !.got = "no", !.busy = FALSE],
             [b EXCEPT !.position = 0, !.rows = RowsFrom(lo), !.atEnd = @ \/ lo \notin 1..N,
                       !.nulls = @ \union marks],
             Answer(lo \in 1..N), "off") : marks \in Indicators(lo)}

\* fetch() throws: the rowset is left as it was, without its indicators, and the
\* position is at its beginning.
Failed == {Moved(cur, [BeforeMove(res) EXCEPT !.position = 0], "error", told) : told \in {"off", "no"}}

Fetch(orientation, k, up) == Failed \union IF up THEN Fetched(orientation, k) ELSE {}

\* A move within the rowset
Within(position, onRow) == {Moved(cur, [res EXCEPT !.position = position], Answer(onRow), "no")}
Inside(position) == res.rows > 0 /\ position < res.size

\* Mutant: the rows of the rowset are not counted, only its size.
NextSized(up) ==
  IF Inside(res.position + 1) THEN Within(res.position + 1, TRUE) ELSE Fetch("next", 0, up)

NextRow(up) ==
  IF Inside(res.position + 1) THEN Within(res.position + 1, res.position + 1 < res.rows)
  ELSE Fetch("next", 0, up)

PriorRow(up) ==
  IF res.rows > 0 /\ res.position >= 1 THEN Within(res.position - 1, TRUE) ELSE Fetch("prior", 0, up)

SkipRows(k, up) ==
  IF Inside(res.position + k) THEN Within(res.position + k, res.position + k < res.rows)
  ELSE Fetch("relative", k, up)

\* first(), last(), next(), prior(), move(), skip()
Moves(op, k, up) ==
  CASE op = "first" -> Fetch("first", 0, up)
    [] op = "last" -> Fetch("last", 0, up)
    [] op = "next" -> NextRow(up)
    [] op = "prior" -> PriorRow(up)
    [] op = "move" -> Fetch("absolute", k, up)
    [] op = "skip" -> SkipRows(k, up)

OnSet == cur.set \in DOMAIN Sets
Idle == hist.asked = "no"

\* An application completes what it asked for before it goes on.
MoveTo(op, k, up, told) ==
  /\ Idle
  /\ \E m \in Moves(op, k, up /\ OnSet) :
       /\ cur' = m.cur /\ res' = m.res /\ ret' = m.ret /\ told = m.told
       /\ hist' = [hist EXCEPT
            !.op = IF m.ret = "error" THEN <<"error", 0>> ELSE <<op, k>>,
            !.sure = @ \/ (m.ret # "error" /\ m.told # "no"),
            !.failed = m.ret = "error" \/ (@ /\ m.told = "no")]

\* Rows are skipped forwards.
Movings(up, told) ==
  \/ \E op \in {"first", "last", "next", "prior"} : MoveTo(op, 0, up, told)
  \/ \E k \in 0..(N + 1) : MoveTo("move", k, up, told) \/ (k > 0 /\ MoveTo("skip", k, up, told))

-----------------------------------------------------------------------------
(* The asynchronous move *)

\* async_next(): async_ is what next() returns, which with an event is whether
\* the fetch executes still, and within a rowset whether there is a row.  A fetch
\* that fails with an event is not noticed.
Asking(up) ==
  IF Inside(res.position + 1)
  THEN {[m EXCEPT !.res.async = m.ret = "row"] : m \in NextRow(up)}
  ELSE {[m EXCEPT !.res.async = FALSE] : m \in Failed} \union
       IF ~up THEN {}
       ELSE {[m EXCEPT !.res.async = FALSE] : m \in Fetched("next", 0)} \union
            {Moved([cur EXCEPT !.busy = TRUE], [BeforeMove(res) EXCEPT !.position = 0, !.async = TRUE],
                   "none", "on")}

AsyncNext(up, told) ==
  /\ Idle
  /\ \E m \in Asking(up /\ OnSet) :
       /\ cur' = m.cur /\ res' = m.res /\ told = IF m.told = "no" THEN "no" ELSE "on"
       /\ hist' = [hist EXCEPT !.asked = IF m.ret = "error" THEN "lost" ELSE "yes", !.was = At,
                               !.failed = m.ret = "error" \/ (@ /\ m.told = "no")]
  /\ UNCHANGED ret

\* complete_next(): if async_, SQLCompleteAsync, which throws if nothing
\* executes.  Where there is no data async_ stays.
Completed(up) ==
  IF ~res.async THEN {Moved(cur, res, Answer(~res.atEnd), "no")}
  ELSE {Moved([cur EXCEPT !.busy = FALSE], res, "error", "no")} \union
       IF up /\ cur.busy
       THEN {[m EXCEPT !.res.async = m.ret = "none", !.told = "no",
                       !.ret = Answer(@ = "row" /\ ~res.atEnd)] : m \in Fetched("next", 0)}
       ELSE {}

CompleteNext(up, told) ==
  /\ ~Idle /\ told = "no"
  /\ \E m \in Completed(up) :
       /\ cur' = m.cur /\ res' = m.res /\ ret' = m.ret
       /\ hist' = [hist EXCEPT
            !.asked = "no",
            !.op = << IF hist.asked = "lost" THEN "lost"
                      ELSE IF m.ret = "error" /\ res.size = 1 THEN "error" ELSE "complete", 0>>,
            !.failed = IF cur.busy THEN m.ret = "error" ELSE @]

-----------------------------------------------------------------------------
(* Result sets and columns *)

\* next_result(): the rows and the position of the last rowset stay.  If the new
\* columns cannot be described none is bound.
NextResult(up, told) ==
  LET more == cur.set + 1 \in DOMAIN Sets
  IN  /\ Idle /\ OnSet /\ up /\ told = "off"
      /\ cur' = [cur EXCEPT !.set = @ + 1, !.lo = 0, !.got = "no"]
      /\ \/ /\ ret' = IF more THEN "set" ELSE "over"
            /\ IF more THEN \E short \in BOOLEAN, garbage \in SUBSET (0..(res.size - 1)) :
                              res' = AutoBind(res, short, garbage)
               ELSE res' = res
         \/ more /\ ret' = "error" /\ res' = [res EXCEPT !.bound = FALSE, !.nulls = {}]
      /\ hist' = [hist EXCEPT !.op = <<"next_result", 0>>, !.sure = res.size = 1]

\* SQLMoreResults fails, and next_result() throws.
NoResult(told) ==
  /\ Idle /\ told \in {"off", "no"}
  /\ ret' = "error"
  /\ hist' = [hist EXCEPT !.op = <<"error", 0>>]
  /\ UNCHANGED <<cur, res>>

\* unbind(): the indicators stay bound.
Unbind(up, told) ==
  /\ Idle /\ up /\ res.bound /\ told = "no"
  /\ res' = [res EXCEPT !.bound = FALSE]
  /\ UNCHANGED <<cur, ret, hist>>

-----------------------------------------------------------------------------
(* Reading *)

\* is_null() throws if the position is not in the rowset.
InRange == res.position < res.rows

\* A value is got from the driver: the column is not bound, and not known to be null.
Asks == InRange /\ ~res.bound /\ res.position \notin res.nulls

\* get_ref_impl() of an unbound column: SQLGetData, of the first row of the rowset,
\* tells its length or that it is null.  What was read before has no data, and the
\* length is whatever the variable holds.
Length ==
  LET mark == res.nulls \union {res.position}
  IN  IF cur.got # "no" THEN {res.nulls, mark} ELSE {IF Null(cur.lo) THEN mark ELSE res.nulls}

\* get(), get_ref(): of a bound column, or of one known to be null, nothing changes.
Get(up, told) ==
  /\ Idle /\ up /\ told = "off" /\ Asks /\ cur.lo \in 1..N
  /\ cur' = [cur EXCEPT !.got = IF @ = "no" THEN "once" ELSE "again"]
  /\ \E nulls \in Length : res' = [res EXCEPT !.nulls = nulls]
  /\ UNCHANGED <<ret, hist>>

CursorNext(up, told) ==
  \/ Movings(up, told) \/ AsyncNext(up, told) \/ CompleteNext(up, told)
  \/ NextResult(up, told) \/ NoResult(told)
  \/ Unbind(up, told) \/ Get(up, told)

\* at_end(): the number of the row is compared with the rows of the rowset.
AtEnd == res.atEnd \/ cur.lo \notin 1..N \/ cur.lo >= res.rows

-----------------------------------------------------------------------------
(* Properties *)

CurStates == [set : Nat \ {0}, lo : Nat, got : {"no", "once", "again"}, busy : BOOLEAN]
ResStates ==
  [size : Nat \ {0}, rows : Nat, position : Nat, atEnd : BOOLEAN, bound : BOOLEAN,
   nulls : SUBSET Nat, async : BOOLEAN]
Calls == {"none", "new", "first", "last", "next", "prior", "move", "skip", "complete", "lost",
          "error", "next_result"}
HistStates ==
  [op : Calls \X Nat, asked : {"no", "yes", "lost"}, was : Nat, sure : BOOLEAN, failed : BOOLEAN]

CursorTypeOK ==
  /\ cur \in CurStates /\ cur.lo <= N + 1 /\ res \in ResStates /\ hist \in HistStates
  /\ ret \in {"row", "none", "set", "over", "error"}

\* What the application sees of moves is a cursor over rows: the place is that of
\* the driver's rowset and the position in it, and a call of async_next() takes
\* effect with complete_next().
Promised == INSTANCE RowCursor WITH
  set <- cur.set, at <- IF hist.asked = "no" THEN At ELSE hist.was,
  op <- hist.op, size <- res.size, sure <- hist.sure

\* next(), first(), move() land on the row they name and answer whether there is
\* one, whatever the size of the rowset and whatever fetch failed before, on every
\* result set; prior(), last(), skip() and complete_next() do with rowsets of one row.
ImplementsRows == Promised!Init /\ [][Promised!Next]_Promised!vars

\* On a row, the indicator that is_null() and get() go by says whether the row of
\* the database is null: that of a bound column whatever the rowset, that of an
\* unbound one once it was got, if the rowset is one row.  (Not after a fetch that
\* threw, and not if an unbound column is got twice.)
OnRow == Idle /\ OnSet /\ At \in 1..N /\ InRange
Answered == res.bound \/ (res.size = 1 /\ cur.got = "once")
NullsOfRow ==
  OnRow /\ ~hist.failed /\ Answered => (res.position \in res.nulls <=> Null(At))

\* nanodbc.h, of is_null(): "Returns true if and only if the given column of the
\* current rowset is null", said of a bound column.
\* Refuted: the README says how.
IsNullTrue == OnRow /\ res.bound => (res.position \in res.nulls <=> Null(At))

\* nanodbc.h, of at_end(): "Returns true if there are no more results in the current
\* result set."
\* Refuted: the README says how.
AtEndTrue == OnRow /\ AtEnd => At = N

\* nanodbc.h: prior() "Fetches the prior row in the current result set", last() "the
\* last row in the current result set".
\* Refuted: the README says how.
Backward ==
  [][\A told \in {"no", "off"} :
       ret' = "row" =>
         /\ MoveTo("prior", 0, TRUE, told) /\ At > 1 => At' = At - 1
         /\ MoveTo("last", 0, TRUE, told) => At' = N]_rowVars

-----------------------------------------------------------------------------
(* Inductive invariants. *)

\* result_impl knows the rowset that the driver is on and is at a position of it,
\* except that after next_result() it knows the last one still.
PlaceInv ==
  /\ res.position < res.size
  /\ res.rows = 0 => res.position = 0
  /\ res.size = 1 => hist.sure
  /\ hist.sure => res.rows = RowsFrom(cur.lo) \/ (res.size = 1 /\ cur.lo = 0)

\* Between async_next() and complete_next() either the fetch executes, and the place
\* is where it was, or it is done, and at_end_ tells of an end, or it failed.
AsyncInv ==
  /\ (hist.asked = "no" => ~cur.busy) /\ (cur.busy => res.async)
  /\ hist.asked = "lost" => ~res.async /\ At <= hist.was /\ (res.size = 1 => At = hist.was)
  /\ hist.asked = "yes" /\ res.size = 1 /\ res.async => At = hist.was
  /\ hist.asked = "yes" /\ res.size = 1 /\ ~res.async =>
       At = Promised!Nearest(hist.was + 1) /\ (At \in 1..N \/ res.atEnd)

\* The indicators are those of the rowset, or were set by the one SQLGetData of its row.
NullInv ==
  /\ res.bound => cur.got = "no"
  /\ ~hist.failed /\ ~cur.busy /\ cur.lo \in 1..N =>
       /\ res.bound => res.nulls = Marks(cur.lo)
       /\ ~res.bound /\ res.size = 1 /\ cur.got = "once" => (0 \in res.nulls <=> Null(cur.lo))
=============================================================================
