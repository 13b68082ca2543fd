------------------------------ MODULE Statement ------------------------------
(***************************************************************************)
(* statement and table_valued_parameter of nanodbc.                        *)
(*                                                                         *)
(* A statement keeps, beside the handle it got from the driver, what it    *)
(* believes of the driver's side: whether the handle is open, how the      *)
(* query's parameter is described, whether the driver executes             *)
(* asynchronously, whether a table valued parameter has the focus.  The    *)
(* driver's side (drv) is modelled from how the code uses it.  A call that *)
(* throws is a step that stops where the code throws.  A query has one     *)
(* parameter: a value in "plain", a table in "table".                      *)
(***************************************************************************)
EXTENDS Connection, Sequences

CONSTANTS MaxBatch,  \* rows of a batch
          Uses       \* the sets of features an application is explored with,
                     \* of "tx", "bind", "async", "tvp" and "rows" (Odbc)

VARIABLES
  stmt,  \* statement_impl: open_, the description of the parameter in
         \* param_descr_data_, async_, async_enabled_, tvp_data_ not empty, open_tvp_
  drv,   \* the driver: asynchronous, the call still executing, prepared query,
         \* focus on a table, what is bound (a value, a table, or buffers that were
         \* released, and whether the nulls are where the application said), what was
         \* sent last
  tvp,   \* the table valued parameter: open_, its statement, its rows, whether its
         \* columns are described, the application holds it and tvp_data_ does
  use

stmtVars == <<stmt, drv, tvp, use>>
vars == <<connVars, stmtVars>>

ASSUME StatementAssumption == MaxBatch \in Nat \ {0} /\ "none" \notin Stmts

Queries == {"plain"} \union (IF "tvp" \in use THEN {"table"} ELSE {})
Kinds == {"scalar", "strings", "binary"}
Hows == {"plain", "nulls", "sentry"}
Rows == UNION {[1..n -> BOOLEAN] : n \in 1..MaxBatch}

Unbound == [state |-> "none", heard |-> TRUE]
Fresh == [async |-> FALSE, executing |-> "no", query |-> "none", focus |-> FALSE,
          bound |-> Unbound, sent |-> Unbound]
Closed_ == [open |-> FALSE, descr |-> "none", async |-> FALSE, enabled |-> FALSE,
            tvps |-> FALSE, openTvp |-> FALSE]
NoTvp == [open |-> FALSE, of |-> "none", rows |-> 0, cols |-> FALSE, held |-> FALSE, kept |-> FALSE]

StmtInit ==
  /\ stmt = [s \in Stmts |-> Closed_]
  /\ drv = [s \in Stmts |-> Fresh]
  /\ tvp = NoTvp
  /\ use \in Uses

\* A call on a handle that is not allocated, or that still executes, fails.
Ready(s) == s \in handles /\ drv[s].executing = "no"

Same == UNCHANGED <<conn, txs, use>>

-----------------------------------------------------------------------------
(* open, close *)

\* reset_parameters()
ResetParameters(st) == [st EXCEPT !.descr = "none"]

\* A table is destroyed, which closes it and releases what it has bound.
DropTable(d) ==
  [d EXCEPT !.focus = FALSE, !.bound.state = IF @ = "table" THEN "released" ELSE @]

\* tvp_data_.clear(): a table nobody else holds is destroyed.
ClearTvps(s) ==
  LET last == tvp.of = s /\ tvp.kept /\ ~tvp.held
  IN  [st |-> [stmt[s] EXCEPT !.tvps = FALSE,
                              !.openTvp = IF last /\ tvp.open THEN FALSE ELSE @],
       d |-> IF last THEN DropTable(drv[s]) ELSE drv[s],
       tv |-> IF last THEN NoTvp
              ELSE IF tvp.of = s THEN [tvp EXCEPT !.kept = FALSE] ELSE tvp]

\* SQLCancel in close() may fail if the handle is gone or the link is lost; the
\* statement then stays as it is.
CloseThrows(s) ==
  LET c == ClearTvps(s)
  IN  /\ stmt[s].open /\ conn.connected
      /\ s \notin handles \/ ~link.up
      /\ stmt' = [stmt EXCEPT ![s] = c.st]
      /\ drv' = [drv EXCEPT ![s] = c.d]
      /\ tvp' = c.tv
      /\ c.st # stmt[s]
      /\ UNCHANGED <<link, handles>> /\ Same

CanClose(s) == stmt[s].open /\ conn.connected => s \in handles

\* close() where nothing throws
AfterClose(s) ==
  LET c == ClearTvps(s).st
  IN  [IF c.open /\ conn.connected THEN ResetParameters(c) ELSE c EXCEPT !.open = FALSE]

Close(s) ==
  /\ CanClose(s)
  /\ stmt' = [stmt EXCEPT ![s] = AfterClose(s)]
  /\ tvp' = ClearTvps(s).tv
  /\ handles' = handles \ {s}
  /\ drv' = [drv EXCEPT ![s] = Fresh]
  /\ UNCHANGED link /\ Same

\* open(): SQLAllocHandle succeeds on a connection that is up, fails on one that
\* is not connected, and may do either where the loss went unnoticed.
Opened(s, ok) == [AfterClose(s) EXCEPT !.open = ok]

Open(s, ok) ==
  /\ CanClose(s)
  /\ link.up => ok
  /\ ok => conn.connected
  /\ stmt' = [stmt EXCEPT ![s] = Opened(s, ok)]
  /\ tvp' = ClearTvps(s).tv
  /\ handles' = IF ok THEN handles \union {s} ELSE handles \ {s}
  /\ drv' = [drv EXCEPT ![s] = Fresh]
  /\ UNCHANGED link /\ Same

\* cancel()
Cancel(s) ==
  /\ s \in handles /\ drv[s].executing # "no"
  /\ drv' = [drv EXCEPT ![s].executing = "no"]
  /\ UNCHANGED <<stmt, tvp, link, handles>> /\ Same

\* The last copy of the statement is destroyed, and another is made in its place.
Destroy(s) ==
  /\ stmt[s] # Closed_
  /\ stmt' = [stmt EXCEPT ![s] = Closed_]
  /\ drv' = [drv EXCEPT ![s] = Fresh]
  /\ handles' = handles \ {s}
  /\ tvp' = IF tvp.of # s THEN tvp ELSE IF tvp.held
           THEN [tvp EXCEPT !.of = "none", !.kept = FALSE] ELSE NoTvp
  /\ UNCHANGED link /\ Same

Ending(s) == Close(s) \/ CloseThrows(s) \/ Cancel(s)

Lifecycle(s) == Ending(s) \/ Destroy(s) \/ \E ok \in BOOLEAN : Open(s, ok)

-----------------------------------------------------------------------------
(* prepare, execute *)

\* Mutant: the flag is cleared without telling the driver.
DisableFlag(st, d) == [st |-> [st EXCEPT !.enabled = FALSE], d |-> d]

\* disable_async(), enable_async(): what the flag says is already so is not told
\* to the driver.
DisableAsync(st, d) ==
  [st |-> [st EXCEPT !.enabled = FALSE],
   d |-> IF st.enabled THEN [d EXCEPT !.async = FALSE] ELSE d]

EnableAsync(st, d) ==
  [st |-> [st EXCEPT !.enabled = TRUE],
   d |-> IF st.enabled THEN d ELSE [d EXCEPT !.async = TRUE]]

Asked(wait, st, d) == IF wait THEN EnableAsync(st, d) ELSE DisableAsync(st, d)

\* async_helper(): the driver may still be executing if it was told to.
AsyncHelper(e, what) ==
  {[st |-> [e.st EXCEPT !.async = FALSE], d |-> e.d]} \union
  IF e.d.async
  THEN {[st |-> [e.st EXCEPT !.async = TRUE], d |-> [e.d EXCEPT !.executing = what]]}
  ELSE {}

\* A call made with or without an event to wait for.  Without one async_ stays.
Outcomes(wait, e, what) == IF wait THEN AsyncHelper(e, what) ELSE {e}

\* prepare(query): nothing forgets how the last query's parameter is described.
Prepare(s, q, wait) ==
  LET e == Asked(wait, stmt[s], drv[s])
  IN  /\ stmt[s].open /\ Ready(s) /\ link.up
      /\ "reprepare" \in Risks \/ drv[s].query \in {"none", q}
      /\ \E o \in Outcomes(wait, [e EXCEPT !.d.query = q], "prepare") :
           stmt' = [stmt EXCEPT ![s] = o.st] /\ drv' = [drv EXCEPT ![s] = o.d]
      /\ UNCHANGED <<tvp, link, handles>> /\ Same

\* prepare(conn, query): on a handle opened anew
PrepareOn(s, q) ==
  /\ CanClose(s) /\ link.up
  /\ LET e == DisableAsync(Opened(s, TRUE), [Fresh EXCEPT !.query = q])
     IN  stmt' = [stmt EXCEPT ![s] = e.st] /\ drv' = [drv EXCEPT ![s] = e.d]
  /\ tvp' = ClearTvps(s).tv
  /\ handles' = handles \union {s}
  /\ UNCHANGED link /\ Same

\* What SQLExecute modifies belongs to a transaction that is open.
Modified == {Modify(link, t) : t \in Open_} \union (IF Open_ = {} THEN {link} ELSE {})

\* execute(): the driver refuses a parameter that is not bound.
Execute(s, n, wait) ==
  LET e == Asked(wait, stmt[s], drv[s])
  IN  /\ stmt[s].open /\ Ready(s) /\ link.up /\ drv[s].query # "none"
      /\ stmt[s].tvps => n = 1
      /\ drv[s].bound.state # "none"
      /\ \E o \in Outcomes(wait, [e EXCEPT !.d.sent = e.d.bound], "execute") :
           stmt' = [stmt EXCEPT ![s] = o.st] /\ drv' = [drv EXCEPT ![s] = o.d]
      /\ link' \in Modified
      /\ UNCHANGED <<tvp, handles>> /\ Same

\* execute_direct(): on a handle opened anew, a query without parameters
ExecuteDirect(s, wait) ==
  LET e == Asked(wait, Opened(s, TRUE), [Fresh EXCEPT !.sent.state = "direct"])
  IN  /\ CanClose(s) /\ link.up
      /\ \E o \in Outcomes(wait, e, "execute") :
           stmt' = [stmt EXCEPT ![s] = o.st] /\ drv' = [drv EXCEPT ![s] = o.d]
      /\ tvp' = ClearTvps(s).tv
      /\ handles' = handles \union {s}
      /\ link' \in Modified
      /\ Same

\* complete_prepare(), complete_execute(): async_ stays TRUE.
Complete(s) ==
  /\ stmt[s].async /\ s \in handles /\ drv[s].executing \in {"prepare", "execute"}
  /\ drv' = [drv EXCEPT ![s].executing = "no"]
  /\ UNCHANGED <<stmt, tvp, link, handles>> /\ Same

Executing(s) ==
  \/ \E q \in Queries, wait \in BOOLEAN :
       /\ wait => "async" \in use
       /\ Prepare(s, q, wait) \/ PrepareOn(s, q) \/ ExecuteDirect(s, wait)
  \/ \E n \in 1..MaxBatch, wait \in BOOLEAN :
       (wait => "async" \in use) /\ Execute(s, n, wait)
  \/ "async" \in use /\ Complete(s)

\* columns(), parameters(), procedure_columns() and the like ask the driver,
\* synchronously.
Ask(s) ==
  LET e == DisableAsync(stmt[s], drv[s])
  IN  /\ stmt[s].open /\ Ready(s)
      /\ stmt[s].enabled
      /\ stmt' = [stmt EXCEPT ![s] = e.st] /\ drv' = [drv EXCEPT ![s] = e.d]
      /\ UNCHANGED <<tvp, link, handles>> /\ Same

-----------------------------------------------------------------------------
(* Parameters *)

\* The driver describes the parameter of the query, or, with the focus on a
\* table, a column of it.
Describe(d) == IF d.focus THEN "column" ELSE d.query

\* prepare_bind(): a description is asked for once, and an entry is made before
\* the driver answers, so that a failure leaves an empty one.  The indicators
\* that are bound are released.
PrepareBind(st, d) ==
  LET e == DisableAsync(st, d)
      known == st.descr # "none"
      released == [e.d EXCEPT !.bound.state = IF @ = "none" THEN @ ELSE "released"]
  IN  {[throws |-> FALSE, d |-> released,
        st |-> IF known THEN e.st ELSE [e.st EXCEPT !.descr = Describe(d)]]} \union
      IF known \/ "undescribed" \notin Risks THEN {}
      ELSE {[throws |-> TRUE, d |-> e.d, st |-> [e.st EXCEPT !.descr = "empty"]]}

\* The indicators of bind(), bind_strings(): where neither flags nor a sentry
\* say so, or only a sentry for a scalar does, nothing is null; one string is
\* bound without an indicator.
Indicator(kind, how, null) ==
  [i \in DOMAIN null |->
     /\ how # "plain"
     /\ ~(kind = "scalar" /\ how = "sentry")
     /\ ~(kind = "strings" /\ Len(null) = 1)
     /\ null[i]]

\* What the application means
Meant(how, null) == [i \in DOMAIN null |-> how # "plain" /\ null[i]]

Heard(kind, how, null) == Indicator(kind, how, null) = Meant(how, null)

\* bind(), bind_strings(): refused while a table is open, after the parameter
\* has been described.
Bind(s, kind, how, null) ==
  /\ stmt[s].open /\ Ready(s) /\ drv[s].query # "none"
  /\ "focus" \in Risks \/ ~stmt[s].openTvp
  /\ drv[s].query = "plain"
  /\ \E p \in PrepareBind(stmt[s], drv[s]) :
       /\ stmt' = [stmt EXCEPT ![s] = p.st]
       /\ drv' = [drv EXCEPT ![s] =
            IF p.throws \/ p.st.openTvp THEN p.d
            ELSE [p.d EXCEPT !.bound = [state |-> "bound", heard |-> Heard(kind, how, null)]]]
  /\ UNCHANGED <<tvp, link, handles>> /\ Same

\* bind_null() does not look for an open table: with the focus on one it binds
\* a column of it.
BindNull(s) ==
  /\ stmt[s].open /\ Ready(s) /\ drv[s].query # "none"
  /\ "focus" \in Risks \/ ~stmt[s].openTvp
  /\ \E p \in PrepareBind(stmt[s], drv[s]) :
       /\ stmt' = [stmt EXCEPT ![s] = p.st]
       /\ drv' = [drv EXCEPT ![s] =
            IF p.throws \/ p.d.focus THEN p.d
            ELSE [p.d EXCEPT !.bound = [state |-> "bound", heard |-> TRUE]]]
  /\ UNCHANGED <<tvp, link, handles>> /\ Same

\* reset_parameters()
Reset(s) ==
  /\ stmt[s].descr # "none" \/ drv[s].bound.state # "none"
  /\ stmt' = [stmt EXCEPT ![s] = ResetParameters(@)]
  /\ drv' = IF s \in handles THEN [drv EXCEPT ![s].bound = Unbound] ELSE drv
  /\ UNCHANGED <<tvp, link, handles>> /\ Same

\* describe_parameters(), by an application that knows its query
DescribeParameters(s) ==
  /\ drv[s].query # "none" /\ stmt[s].descr # drv[s].query
  /\ stmt' = [stmt EXCEPT ![s].descr = drv[s].query]
  /\ UNCHANGED <<drv, tvp, link, handles>> /\ Same

Parameters(s) ==
  \/ \E kind \in Kinds, how \in Hows, null \in Rows :
       "bind" \in use /\ (how = "plain" => \A i \in DOMAIN null : ~null[i]) /\ Bind(s, kind, how, null)
  \/ "bind" \in use /\ BindNull(s)
  \/ Reset(s) \/ DescribeParameters(s)

-----------------------------------------------------------------------------
(* Table valued parameters *)

\* close_tvp()
CloseTvp(st) == [st EXCEPT !.openTvp = FALSE]

\* table_valued_parameter::close(): throws, and nothing changes, if the driver
\* does not take the focus back.
TvpClose ==
  LET s == tvp.of
  IN  /\ tvp.open
      /\ s # "none" /\ tvp.rows > 0 => Ready(s)
      /\ tvp' = [tvp EXCEPT !.open = FALSE, !.rows = 0]
      /\ IF s = "none" THEN UNCHANGED <<stmt, drv>>
         ELSE /\ stmt' = [stmt EXCEPT ![s] = CloseTvp(@)]
              /\ drv' = IF tvp.rows > 0 THEN [drv EXCEPT ![s].focus = FALSE] ELSE drv
      /\ UNCHANGED <<link, handles>> /\ Same

\* prepare_tvp_name(), prepare_tvp_param_all(): a call that fails throws, a row
\* that cannot be fetched ends the loop silently; what was described stays.
DescribeColumns(cols) ==
  {[throws |-> t, cols |-> c] : t \in BOOLEAN, c \in {cols}} \union {[throws |-> FALSE, cols |-> TRUE]}

\* open(): of a table that is not open.  open_tvp() throws if another table is,
\* and if the parameter is not described as a table; the first table kept for a
\* parameter stays the one that is kept.  What throws later leaves the table open,
\* neither bound nor with the focus.
TvpOpen(s, rows) ==
  /\ "tvp" \in use
  /\ ~tvp.open /\ tvp.of \in {"none", s}
  /\ stmt[s].open /\ Ready(s) /\ drv[s].query # "none" /\ link.up
  /\ ~stmt[s].openTvp
  /\ \E p \in PrepareBind(stmt[s], drv[s]), c \in DescribeColumns(tvp.cols) :
       IF p.throws \/ p.st.descr # "table"
          THEN /\ stmt' = [stmt EXCEPT ![s] = p.st] /\ drv' = [drv EXCEPT ![s] = p.d]
               /\ UNCHANGED tvp
          ELSE /\ stmt' = [stmt EXCEPT ![s] = [p.st EXCEPT !.tvps = TRUE, !.openTvp = TRUE]]
               /\ tvp' = [open |-> TRUE, of |-> s, rows |-> rows, cols |-> c.cols, held |-> TRUE,
                          kept |-> (tvp.kept /\ tvp.held) \/ ~stmt[s].tvps]
               /\ drv' = [drv EXCEPT ![s] = IF c.throws THEN p.d ELSE
                    [p.d EXCEPT !.focus = rows > 0,
                                !.bound = [Unbound EXCEPT !.state = "table"]]]
  /\ UNCHANGED <<link, handles>> /\ Same

\* The application lets go of the table: destroyed unless the statement keeps it.
TvpDrop ==
  LET s == tvp.of
  IN  /\ tvp.held
      /\ tvp' = IF tvp.kept THEN [tvp EXCEPT !.held = FALSE] ELSE NoTvp
      /\ IF tvp.kept \/ s = "none" THEN UNCHANGED <<stmt, drv>>
         ELSE /\ tvp.open => Ready(s)
              /\ stmt' = [stmt EXCEPT ![s] = IF tvp.open THEN CloseTvp(@) ELSE @]
              /\ drv' = [drv EXCEPT ![s] = DropTable(@)]
      /\ UNCHANGED <<link, handles>> /\ Same

\* describe_parameters() of the table
TvpDescribe ==
  /\ tvp.held /\ ~tvp.cols
  /\ tvp' = [tvp EXCEPT !.cols = TRUE]
  /\ UNCHANGED <<stmt, drv, link, handles>> /\ Same

\* A column is bound, as many rows as the table has, if prepare_bind() finds its
\* description; without the focus it is a parameter of the statement.
BindColumn(n, heard) ==
  LET s == tvp.of
  IN  /\ s # "none" /\ Ready(s) /\ tvp.cols /\ tvp.rows = n
      /\ "focus" \in Risks \/ drv[s].focus
      /\ drv' = [drv EXCEPT ![s].bound =
           [state |-> IF drv[s].focus THEN "table" ELSE "bound", heard |-> heard]]
      /\ UNCHANGED <<stmt, tvp, link, handles>> /\ Same

\* bind(), bind_strings() and bind_null() of the table: indicators as those of the
\* statement
TvpBind(kind, how, null) == BindColumn(Len(null), Heard(kind, how, null))
TvpBindNull(n) == BindColumn(n, TRUE)

Tables ==
  \/ TvpClose \/ TvpDrop \/ TvpDescribe
  \/ \E s \in Stmts, rows \in 0..MaxBatch : TvpOpen(s, rows)
  \/ \E kind \in Kinds, how \in Hows, null \in Rows : TvpBind(kind, how, null)
  \/ \E n \in 1..MaxBatch : TvpBindNull(n)

-----------------------------------------------------------------------------
(* The connection under the statements *)

\* connect() and disconnect() under objects that live on the connection are the
\* application's to avoid.
Unused == Live = {} /\ \A s \in Stmts : ~stmt[s].open

Connection_ ==
  /\ "reconnect" \in Risks \/ Unused
  /\ \/ Disconnect
     \/ \E rc \in {"success", "error", "executing"} : Connect(rc)
     \/ \E ok \in BOOLEAN : AsyncComplete(ok)
  /\ drv' = [s \in Stmts |-> Fresh]
  /\ UNCHANGED <<stmt, tvp, use>>

Below ==
  /\ LinkLost \/ ("tx" \in use /\ TxNext)
  /\ UNCHANGED stmtVars

Init == ConnInit /\ StmtInit

\* What leaves the result of a statement alone
Beside ==
  \/ Connection_ \/ Below \/ Tables
  \/ \E s \in Stmts : Ending(s) \/ Ask(s) \/ Parameters(s)

Next == Beside \/ \E s \in Stmts : Lifecycle(s) \/ Executing(s)

Spec == Init /\ [][Next]_vars

-----------------------------------------------------------------------------
(* Properties *)

Batches == [state : {"none", "bound", "table", "released", "direct"}, heard : BOOLEAN]

StmtStates == [open : BOOLEAN, descr : {"none", "empty", "column", "plain", "table"},
               async : BOOLEAN, enabled : BOOLEAN, tvps : BOOLEAN, openTvp : BOOLEAN]
DrvStates == [async : BOOLEAN, executing : {"no", "prepare", "execute", "fetch"},
              query : {"none", "plain", "table"}, focus : BOOLEAN, bound : Batches, sent : Batches]
TvpStates == [open : BOOLEAN, of : Stmts \union {"none"}, rows : 0..MaxBatch, cols : BOOLEAN,
              held : BOOLEAN, kept : BOOLEAN]

TypeOK ==
  ConnTypeOK /\ stmt \in [Stmts -> StmtStates] /\ drv \in [Stmts -> DrvStates] /\ tvp \in TvpStates

\* An open statement of a connected connection has a handle of the driver, and
\* every handle is a statement's, so that none leaks.
HandlesLive == \A s \in Stmts : conn.connected => (stmt[s].open <=> s \in handles)

\* A description in param_descr_data_ is the one of the query that is prepared,
\* whatever was prepared, described, opened and closed before.
DescribedAsPrepared ==
  \A s \in Stmts : stmt[s].descr # "none" /\ drv[s].query # "none" => stmt[s].descr = drv[s].query

\* The driver is asynchronous only while async_enabled_ says so: a call without
\* an event never returns while it executes.
SyncIsSync == \A s \in Stmts : drv[s].async => stmt[s].enabled

\* open_tvp_ and the table's open_ agree over every order of closing, reopening
\* and destroying the two, and the focus is on the table only while it is open.
TvpPaired ==
  \A s \in Stmts : /\ stmt[s].openTvp <=> tvp.open /\ tvp.of = s
                   /\ drv[s].focus => stmt[s].openTvp

\* What statement_impl believes of the driver is so.
StatementSound == HandlesLive /\ DescribedAsPrepared /\ SyncIsSync /\ TvpPaired

\* nanodbc.h: "null_sentry  Value which should represent a null value", "nulls  Flags
\* for values that should be set to a null value": what is sent is null where the
\* application said so.
\* Refuted: the README says how.
NullsAsMeant == \A s \in Stmts : drv[s].sent.heard

\* The connection's count, its autocommit and the transactions agree.
TransactionsCounted == CountMatches /\ AutocommitMatches

-----------------------------------------------------------------------------
(* Inductive invariants. *)

\* A statement is open as long as its handle is allocated, and only then has the
\* driver a query and the statement a description of its parameter.
OpenInv(s) ==
  /\ stmt[s].open <=> s \in handles
  /\ stmt[s].open => conn.connected
  /\ drv[s].query # "none" => stmt[s].open
  /\ stmt[s].descr # "none" => stmt[s].descr = drv[s].query

\* The focus is on a table with rows; one without takes none and gives none back.
TableInv(s) ==
  /\ stmt[s].openTvp <=> tvp.open /\ tvp.of = s
  /\ drv[s].focus => stmt[s].openTvp /\ tvp.rows > 0

SoundInv == SyncIsSync /\ \A s \in Stmts : OpenInv(s) /\ TableInv(s)
=============================================================================
