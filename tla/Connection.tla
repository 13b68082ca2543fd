----------------------------- MODULE Connection -----------------------------
(***************************************************************************)
(* connection and transaction of nanodbc over an ODBC driver.              *)
(*                                                                         *)
(* A connection counts the transaction objects that live on it; the first  *)
(* turns autocommit off, the last turns it on again, commits or rolls      *)
(* back.  The driver (link) is modelled from how the code uses it: work is *)
(* pending while autocommit is off, a disconnect with pending work is      *)
(* refused, turning autocommit on commits what is pending, a link may be   *)
(* lost at any time, which undoes pending work.                            *)
(***************************************************************************)
EXTENDS Integers, FiniteSets

CONSTANTS Txs,    \* transaction objects
          Stmts,  \* statement objects
          Risks   \* what the application does although nothing checks it:
                  \*   "reconnect"   - connects or disconnects under live objects
                  \*   "reprepare"   - prepares another query on an open statement
                  \*   "undescribed" - the driver may fail to describe a parameter
                  \*   "focus"       - binds a parameter while a table is open

ASSUME ConnAssumption == IsFiniteSet(Txs)

VARIABLES
  conn,     \* connection_impl: connected_, transactions_, rollback_, and
            \* whether an async_connect() is still executing
  txs,      \* transaction_impl: state "none", "live" or "gone", and committed_
  link,     \* the driver: up, autocommit, the transactions with pending work,
            \* and those whose work is durable
  handles   \* the driver: statements whose handle is allocated

connVars == <<conn, txs, link, handles>>

ConnInit ==
  /\ conn = [connected |-> FALSE, transactions |-> 0, rollback |-> FALSE, opening |-> FALSE]
  /\ txs = [t \in Txs |-> [state |-> "none", committed |-> FALSE]]
  /\ link = [up |-> FALSE, auto |-> TRUE, pending |-> {}, durable |-> {}]
  /\ handles = {}

Live == {t \in Txs : txs[t].state = "live"}
Open_ == {t \in Live : ~txs[t].committed}

-----------------------------------------------------------------------------
(* The driver *)

\* SQLDisconnect fails while a transaction is in process.
Disconnects(l) == l.up => l.pending = {}

\* SQLEndTran
EndTran(l, commit) ==
  IF ~l.up THEN l
  ELSE [l EXCEPT !.durable = IF commit THEN @ \union l.pending ELSE @, !.pending = {}]

\* SQLSetConnectAttr(SQL_ATTR_AUTOCOMMIT); autocommit on commits what is pending.
SetAutocommit(l, on) == [EndTran(l, on) EXCEPT !.auto = IF l.up THEN on ELSE @]

\* A statement that modifies the database is executed under transaction t.
Modify(l, t) ==
  IF l.auto THEN [l EXCEPT !.durable = @ \union {t}] ELSE [l EXCEPT !.pending = @ \union {t}]

\* The network or the server goes away, unnoticed by the connection.
LinkLost ==
  /\ link.up
  /\ link' = [link EXCEPT !.up = FALSE, !.pending = {}]
  /\ UNCHANGED <<conn, txs, handles>>

-----------------------------------------------------------------------------
(* connection *)

\* connect(): disconnect() first, which throws if the driver refuses, then a
\* new dbc handle; what becomes of SQLConnect is the driver's choice.  The
\* count of transactions and the mark for rollback stay.
Connect(rc) ==
  /\ conn.connected => Disconnects(link)
  /\ conn' = [conn EXCEPT !.connected = rc = "success", !.opening = rc = "executing"]
  /\ link' = [link EXCEPT !.up = rc = "success", !.auto = TRUE, !.pending = {}]
  /\ handles' = {}
  /\ UNCHANGED txs

\* async_complete(), if the driver has completed.
AsyncComplete(ok) ==
  /\ conn.opening
  /\ conn' = [conn EXCEPT !.connected = @ \/ ok, !.opening = FALSE]
  /\ link' = [link EXCEPT !.up = ok]
  /\ UNCHANGED <<txs, handles>>

\* disconnect(), if the driver lets it.
Disconnect ==
  /\ conn.connected /\ Disconnects(link)
  /\ conn' = [conn EXCEPT !.connected = FALSE]
  /\ link' = [link EXCEPT !.up = FALSE, !.auto = TRUE, !.pending = {}]
  /\ handles' = {}
  /\ UNCHANGED txs

Ref(c) == [c EXCEPT !.transactions = @ + 1]

Unref(c) == [c EXCEPT !.transactions = IF @ > 0 THEN @ - 1 ELSE 0]

-----------------------------------------------------------------------------
(* transaction *)

\* Mutant: every transaction sets autocommit, not only the first.
FirstAlways(c) == c.connected

\* Is the connection to be told of this transaction, the first or the last?
First(c) == c.transactions = 0 /\ c.connected

\* The constructor throws, and there is no transaction, if autocommit cannot
\* be turned off.
Begin(t) ==
  /\ txs[t].state = "none"
  /\ First(conn) => link.up
  /\ link' = IF First(conn) THEN [link EXCEPT !.auto = FALSE] ELSE link
  /\ conn' = Ref(conn)
  /\ txs' = [txs EXCEPT ![t].state = "live"]
  /\ UNCHANGED handles

\* commit(): the last one tells the driver, whatever the mark for rollback says.
\* If the driver fails commit() throws, and the work may be undone or still pending.
Commit(t) ==
  LET c == Unref(conn)
      tell == First(c)
  IN  /\ txs[t].state = "live" /\ ~txs[t].committed
      /\ conn' = c
      /\ txs' = [txs EXCEPT ![t].committed = TRUE]
      /\ \/ ~tell /\ UNCHANGED link
         \/ tell /\ link.up /\ link' = EndTran(link, TRUE)
         \/ tell /\ link' \in {EndTran(link, FALSE), link}
      /\ UNCHANGED handles

\* rollback() only marks the connection.
Rollback(t) ==
  /\ txs[t].state = "live" /\ ~txs[t].committed /\ ~conn.rollback
  /\ conn' = [conn EXCEPT !.rollback = TRUE]
  /\ UNCHANGED <<txs, link, handles>>

\* Mutant: the mark for rollback is not looked at.
EndedUnmarked(c, l) ==
  [conn |-> c, link |-> IF First(c) THEN SetAutocommit(l, TRUE) ELSE l]

\* The second half of the destructor: the last one rolls back if the connection
\* is marked, and turns autocommit on.
Ended(c, l) ==
  IF ~First(c) THEN [conn |-> c, link |-> l]
  ELSE [conn |-> [c EXCEPT !.rollback = FALSE],
        link |-> SetAutocommit(IF c.rollback THEN EndTran(l, FALSE) ELSE l, TRUE)]

\* ~transaction_impl(): one that was not committed marks the connection.
End(t) ==
  LET c == IF txs[t].committed THEN conn ELSE Unref([conn EXCEPT !.rollback = TRUE])
      e == Ended(c, link)
  IN  /\ txs[t].state = "live"
      /\ txs' = [txs EXCEPT ![t].state = "gone"]
      /\ conn' = e.conn /\ link' = e.link
      /\ UNCHANGED handles

TxNext == \E t \in Txs : Begin(t) \/ Commit(t) \/ Rollback(t) \/ End(t)

-----------------------------------------------------------------------------
(* Properties *)

Conns == [connected : BOOLEAN, transactions : Nat, rollback : BOOLEAN, opening : BOOLEAN]
TxStates == [state : {"none", "live", "gone"}, committed : BOOLEAN]
Links == [up : BOOLEAN, auto : BOOLEAN, pending : SUBSET Txs, durable : SUBSET Txs]

ConnTypeOK ==
  conn \in Conns /\ txs \in [Txs -> TxStates] /\ link \in Links /\ handles \subseteq Stmts

\* The count of transactions is the number of objects that are neither
\* committed nor destroyed, over every order of their ends.
CountMatches == conn.transactions = Cardinality(Open_)

\* Autocommit follows the objects: it is off while a transaction is open, so
\* that what modifies the database takes effect only with the commit, and on
\* once the last one is destroyed, so that later statements take effect at once.
AutocommitMatches ==
  conn.connected /\ link.up =>
    /\ Open_ # {} => ~link.auto
    /\ Live = {} => link.auto

\* nanodbc.h, of ~transaction(): "If this transaction has not been committed, it will
\* rollback any modifying ops".
\* Refuted: the README says how.
UncommittedLost == \A t \in link.durable : txs[t].state = "gone" => txs[t].committed

\* Work becomes durable by a commit() only, or, if that failed and left it pending,
\* when the committed object is destroyed on a connection that is not marked for
\* rollback: a destructor that finds the mark, or sets it, undoes what is pending,
\* whatever the order in which nested transactions end.
Commits == \E t \in Txs : ~txs[t].committed /\ txs'[t].committed
Retries == ~conn.rollback /\ \E t \in Live : txs[t].committed /\ txs'[t].state = "gone"
MarkHonoured == [][link'.durable # link.durable => Commits \/ Retries]_connVars

-----------------------------------------------------------------------------
(* Inductive invariants. *)

\* A transaction that was not begun is not committed, and autocommit is the
\* driver's default until a transaction is begun on a connection.
CountInv ==
  /\ \A t \in Txs : txs[t].state = "none" => ~txs[t].committed
  /\ conn.opening => ~conn.connected
  /\ ~conn.connected => link.auto
  /\ CountMatches /\ AutocommitMatches
=============================================================================
