----------------------------- MODULE OdbcProofs -----------------------------
(***************************************************************************)
(* Theorems about the parts of nanodbc for any number of transactions,     *)
(* statements and rows of a batch.  Each names the risks its application   *)
(* does not take.                                                          *)
(***************************************************************************)
EXTENDS Odbc, FiniteSetTheorems, TLAPS

\* What a result does to a statement, and every step as connection and statements
\* see it.
Telling == \E s \in Stmts, told \in {"no", "off", "on"} : Tells(s, told)
Step == Next \/ Telling

\* The result is of a statement.
OfInv == of.stmt \in Stmts \union {"none"}

\* Every step is one of the statements or one of the result of one of them.
LEMMA OdbcStep ==
  ASSUME OfInv, [OdbcNext]_<<vars, resultVars>> PROVE [Step]_vars /\ OfInv'
<1>1. CASE Beside /\ UNCHANGED resultVars
  BY <1>1 DEF Next, Step, OfInv, resultVars
<1>2. CASE Next /\ UNCHANGED resultVars
  BY <1>2 DEF Step, OfInv, resultVars
<1>3. ASSUME NEW s \in Stmts, Results(s) \/ Find(s) PROVE [Step]_vars /\ OfInv'
  BY <1>3 DEF Results, Find, Step, Telling, OfInv
<1>4. CASE Walks
  <2>1. of.stmt \in Stmts /\ UNCHANGED of
    BY <1>4 DEF Walks, OfInv
  <2>2. PICK told \in {"no", "off", "on"} : Tells(of.stmt, told)
    BY <1>4 DEF Walks
  <2> QED BY <2>1, <2>2 DEF Step, Telling, OfInv
<1>5. CASE Drop
  BY <1>5 DEF Drop, OfInv, NoResultYet
<1>6. CASE UNCHANGED <<vars, resultVars>>
  BY <1>6 DEF OfInv, resultVars
<1> QED BY <1>1, <1>2, <1>3, <1>4, <1>5, <1>6 DEF OdbcNext

\* What is shown of connection and statements is shown of all their steps.
LEMMA OdbcSteps == OdbcSpec => Init /\ [][Step]_vars
<1>1. OdbcInit => Init /\ OfInv
  BY DEF OdbcInit, OfInv, NoResultYet
<1>2. OfInv /\ [OdbcNext]_<<vars, resultVars>> => [Step]_vars /\ OfInv'
  BY OdbcStep
<1> QED BY <1>1, <1>2, PTL DEF OdbcSpec

-----------------------------------------------------------------------------
(* Transactions. *)

\* What a statement, a result of it or a table does to the connection: nothing,
\* or work under a transaction that is open.
Works ==
  /\ UNCHANGED <<conn, txs>>
  /\ link' = link \/ (link.up /\ \E t \in Open_ : link' = Modify(link, t))

\* SQLExecute modifies nothing or works under an open transaction.
LEMMA ModifiedMeans ==
  ASSUME link' \in Modified PROVE link' = link \/ \E t \in Open_ : link' = Modify(link, t)
BY DEF Modified

\* Every call of a statement only works under the transactions.
LEMMA StatementWorks ==
  ASSUME NEW s \in Stmts, Lifecycle(s) \/ Executing(s) \/ Ask(s) \/ Parameters(s)
  PROVE  Works
<1>1. CASE Lifecycle(s)
  BY <1>1 DEF Lifecycle, Ending, Open, Close, CloseThrows, Cancel, Destroy, Same, Works
<1>2. CASE Executing(s)
  <2>1. ASSUME NEW q, NEW wait, Prepare(s, q, wait) \/ PrepareOn(s, q) PROVE Works
    BY <2>1 DEF Prepare, PrepareOn, Same, Works
  <2>2. ASSUME NEW wait, ExecuteDirect(s, wait) PROVE Works
    BY <2>2, ModifiedMeans DEF ExecuteDirect, Same, Works
  <2>3. ASSUME NEW n, NEW wait, Execute(s, n, wait) PROVE Works
    BY <2>3, ModifiedMeans DEF Execute, Same, Works
  <2>4. CASE Complete(s)
    BY <2>4 DEF Complete, Same, Works
  <2> QED BY <1>2, <2>1, <2>2, <2>3, <2>4 DEF Executing
<1>3. CASE Ask(s)
  BY <1>3 DEF Ask, Same, Works
<1>4. CASE Parameters(s)
  BY <1>4 DEF Parameters, Bind, BindNull, Reset, DescribeParameters, Same, Works
<1> QED BY <1>1, <1>2, <1>3, <1>4

\* A result leaves the connection.
LEMMA TellingWorks == ASSUME Telling PROVE Works /\ UNCHANGED <<handles, tvp>>
BY DEF Telling, Tells, connVars, Works

\* So does every call of a table.
LEMMA TableWorks == ASSUME Tables PROVE Works
BY DEF Tables, TvpClose, TvpDrop, TvpDescribe, TvpOpen, TvpBind, TvpBindNull, BindColumn, Same,
   Works

\* The transactions that are open are finitely many.
LEMMA OpenFinite == IsFiniteSet(Open_) /\ Cardinality(Open_) \in Nat
<1>1. Open_ \subseteq Txs
  BY DEF Open_, Live
<1>2. IsFiniteSet(Open_)
  BY <1>1, ConnAssumption, FS_Subset
<1> QED BY <1>2, FS_CardinalityType

\* The connection counts 0 exactly when none is open.
LEMMA CountZero == CountMatches => (conn.transactions = 0 <=> Open_ = {})
BY OpenFinite, FS_EmptySet DEF CountMatches

\* ref_transaction() and unref_transaction() keep the type of a connection.
LEMMA UnrefType == ASSUME NEW c \in Conns PROVE Ref(c) \in Conns /\ Unref(c) \in Conns
BY DEF Conns, Ref, Unref

\* unref_transaction() changes the count only, and not below 0.
LEMMA UnrefMeans ==
  ASSUME NEW c \in Conns
  PROVE  /\ Unref(c) \in Conns
         /\ Unref(c).connected = c.connected /\ Unref(c).opening = c.opening
         /\ Unref(c).rollback = c.rollback
         /\ Unref(c).transactions = IF c.transactions > 0 THEN c.transactions - 1 ELSE 0
<1>1. c = [connected |-> c.connected, transactions |-> c.transactions, rollback |-> c.rollback,
           opening |-> c.opening]
  BY DEF Conns
<1>2. /\ Unref(c).connected = c.connected /\ Unref(c).opening = c.opening
      /\ Unref(c).rollback = c.rollback
  BY <1>1 DEF Unref
<1>3. Unref(c).transactions = IF c.transactions > 0 THEN c.transactions - 1 ELSE 0
  BY <1>1 DEF Unref
<1> QED BY <1>2, <1>3, UnrefType

\* The driver's calls keep the type of a link.
LEMMA LinkType ==
  ASSUME NEW l \in Links, NEW b \in BOOLEAN, NEW t \in Txs
  PROVE  EndTran(l, b) \in Links /\ SetAutocommit(l, b) \in Links /\ Modify(l, t) \in Links
<1>1. EndTran(l, b) \in Links
  BY DEF Links, EndTran
<1>2. SetAutocommit(l, b) \in Links
  BY <1>1 DEF Links, SetAutocommit
<1>3. Modify(l, t) \in Links
  BY DEF Links, Modify
<1> QED BY <1>1, <1>2, <1>3

\* Every step of a transaction keeps the types.
LEMMA TxType ==
  ASSUME ConnTypeOK, NEW t \in Txs, Begin(t) \/ Commit(t) \/ Rollback(t) \/ End(t)
  PROVE  ConnTypeOK'
<1>1. CASE Begin(t)
  <2>1. conn' \in Conns
    BY <1>1, UnrefType DEF Begin, ConnTypeOK
  <2>2. txs' \in [Txs -> TxStates]
    BY <1>1 DEF Begin, ConnTypeOK, TxStates
  <2>3. link' \in Links
    BY <1>1 DEF Begin, ConnTypeOK, Links
  <2> QED BY <1>1, <2>1, <2>2, <2>3 DEF Begin, ConnTypeOK
<1>2. CASE Commit(t)
  <2>1. conn' = Unref(conn) /\ handles' = handles
    BY <1>2 DEF Commit
  <2>2. /\ txs' = [txs EXCEPT ![t].committed = TRUE]
        /\ link' = link \/ link' = EndTran(link, TRUE) \/ link' = EndTran(link, FALSE)
    BY <1>2 DEF Commit
  <2>3. conn' \in Conns
    BY <2>1, UnrefType DEF ConnTypeOK
  <2>4. link' \in Links
    BY <2>2, LinkType DEF ConnTypeOK
  <2>5. txs' \in [Txs -> TxStates]
    BY <2>2 DEF ConnTypeOK, TxStates
  <2> QED BY <2>1, <2>3, <2>4, <2>5 DEF ConnTypeOK
<1>3. CASE Rollback(t)
  BY <1>3 DEF Rollback, ConnTypeOK, Conns
<1>4. CASE End(t)
  <2> DEFINE c == IF txs[t].committed THEN conn ELSE Unref([conn EXCEPT !.rollback = TRUE])
  <2>1. c \in Conns
    <3>1. [conn EXCEPT !.rollback = TRUE] \in Conns
      BY DEF ConnTypeOK, Conns
    <3> QED BY <3>1, UnrefType DEF ConnTypeOK
  <2>2. /\ conn' = Ended(c, link).conn /\ link' = Ended(c, link).link /\ handles' = handles
        /\ txs' = [txs EXCEPT ![t].state = "gone"]
    BY <1>4 DEF End
  <2> HIDE DEF c
  <2>3. conn' \in Conns
    BY <2>1, <2>2 DEF Ended, Conns
  <2>4. link' \in Links
    BY <2>2, LinkType DEF Ended, ConnTypeOK
  <2>5. txs' \in [Txs -> TxStates]
    BY <2>2 DEF ConnTypeOK, TxStates
  <2> QED BY <2>2, <2>3, <2>4, <2>5 DEF ConnTypeOK
<1> QED BY <1>1, <1>2, <1>3, <1>4

\* Where autocommit and the link stay and no transaction begins or ends, the
\* counts agree as before.
LEMMA CountKept ==
  ASSUME ConnTypeOK, CountInv, UNCHANGED txs,
         conn'.transactions = conn.transactions, conn'.connected = conn.connected,
         conn'.opening = conn.opening, link'.auto = link.auto, link'.up => link.up
  PROVE  CountInv'
<1>1. Open_' = Open_ /\ Live' = Live
  BY DEF Open_, Live
<1> QED BY <1>1 DEF CountInv, CountMatches, AutocommitMatches

\* The constructor of transaction counts it and turns autocommit off with the first.
LEMMA CountBegin ==
  ASSUME ConnTypeOK, CountInv, NEW t \in Txs, Begin(t) PROVE CountInv'
<1>1. \A u \in Txs : txs'[u] = IF u = t THEN [txs[t] EXCEPT !.state = "live"] ELSE txs[u]
  BY DEF Begin, ConnTypeOK
<1>2. txs[t].state = "none" /\ ~txs[t].committed
  BY DEF Begin, CountInv
<1>3. Open_' = Open_ \cup {t} /\ t \notin Open_ /\ t \in Live'
  BY <1>1, <1>2 DEF Open_, Live, ConnTypeOK, TxStates
<1>4. /\ conn'.transactions = conn.transactions + 1
      /\ conn'.connected = conn.connected /\ conn'.opening = conn.opening
      /\ link'.up = link.up
      /\ link'.auto = IF First(conn) THEN FALSE ELSE link.auto
  <2>1. conn' = Ref(conn) /\ link' = IF First(conn) THEN [link EXCEPT !.auto = FALSE] ELSE link
    BY DEF Begin
  <2>2. link'.up = link.up /\ link'.auto = IF First(conn) THEN FALSE ELSE link.auto
    BY <2>1 DEF ConnTypeOK, Links
  <2> QED BY <2>1, <2>2 DEF Ref, ConnTypeOK, Conns
<1>5. CountMatches'
  <2>1. Cardinality(Open_') = Cardinality(Open_) + 1
    BY <1>3, OpenFinite, FS_AddElement
  <2> QED BY <1>4, <2>1 DEF CountInv, CountMatches
<1>6. AutocommitMatches'
  BY <1>3, <1>4, CountZero DEF CountInv, AutocommitMatches, First
<1>7. \A u \in Txs : txs'[u].state = "none" => ~txs'[u].committed
  BY <1>1, <1>2 DEF CountInv, ConnTypeOK, TxStates
<1> QED BY <1>4, <1>5, <1>6, <1>7 DEF CountInv, First

\* commit() counts it out.
LEMMA CountCommit ==
  ASSUME ConnTypeOK, CountInv, NEW t \in Txs, Commit(t) PROVE CountInv'
<1>1. /\ txs' = [txs EXCEPT ![t].committed = TRUE]
      /\ link' = link \/ link' = EndTran(link, TRUE) \/ link' = EndTran(link, FALSE)
  BY DEF Commit
<1>2. \A u \in Txs : /\ u # t => txs'[u] = txs[u]
                     /\ txs'[u].state = txs[u].state
                     /\ txs'[t].committed
  BY <1>1 DEF ConnTypeOK, TxStates
<1>3. txs[t].state = "live" /\ ~txs[t].committed /\ conn' = Unref(conn)
  BY DEF Commit
<1>4. Open_' = Open_ \ {t} /\ t \in Open_ /\ Live' = Live
  BY <1>2, <1>3 DEF Open_, Live
<1>5. link'.up = link.up /\ link'.auto = link.auto
  BY <1>1 DEF EndTran, ConnTypeOK, Links
<1>6. /\ conn'.transactions = IF conn.transactions > 0 THEN conn.transactions - 1 ELSE 0
      /\ conn'.connected = conn.connected /\ conn'.opening = conn.opening
  BY <1>3 DEF Unref, ConnTypeOK, Conns
<1>7. CountMatches'
  <2>1. Cardinality(Open_') = Cardinality(Open_) - 1
    BY <1>4, OpenFinite, FS_RemoveElement
  <2>2. Cardinality(Open_) # 0
    BY <1>4, OpenFinite, FS_EmptySet
  <2> QED BY <1>6, <2>1, <2>2, OpenFinite DEF CountInv, CountMatches
<1>8. AutocommitMatches'
  BY <1>4, <1>5, <1>6 DEF CountInv, AutocommitMatches
<1> QED BY <1>2, <1>3, <1>5, <1>6, <1>7, <1>8 DEF CountInv

\* The count and the mark for rollback that the destructor of t comes to.
EndCount(t) == IF txs[t].committed THEN conn.transactions
               ELSE IF conn.transactions > 0 THEN conn.transactions - 1 ELSE 0
EndMark(t) == conn.rollback \/ ~txs[t].committed

\* What the destructor of a transaction leaves: the connection it has counted
\* down, and, for the last, a driver without pending work that commits by itself.
LEMMA EndMeans ==
  ASSUME ConnTypeOK, NEW t \in Txs, End(t)
  PROVE  /\ conn'.transactions = EndCount(t)
         /\ conn'.connected = conn.connected /\ conn'.opening = conn.opening
         /\ link'.up = link.up
         /\ (EndCount(t) = 0 /\ conn.connected) =>
              /\ ~conn'.rollback
              /\ link.up => link'.auto /\ link'.pending = {}
              /\ ~link.up => link' = link
              /\ link'.durable \subseteq
                   link.durable \cup (IF EndMark(t) THEN {} ELSE link.pending)
         /\ ~(EndCount(t) = 0 /\ conn.connected) => link' = link /\ (conn'.rollback <=> EndMark(t))
<1> DEFINE c == IF txs[t].committed THEN conn ELSE Unref([conn EXCEPT !.rollback = TRUE])
           l == IF c.rollback THEN EndTran(link, FALSE) ELSE link
<1>1. /\ c \in Conns /\ c.transactions = EndCount(t) /\ c.connected = conn.connected
      /\ c.opening = conn.opening /\ (c.rollback <=> EndMark(t))
  <2>1. CASE txs[t].committed
    BY <2>1 DEF ConnTypeOK, EndCount, EndMark
  <2>2. CASE ~txs[t].committed
    <3> DEFINE d == [conn EXCEPT !.rollback = TRUE]
    <3>1. /\ d \in Conns /\ d.rollback /\ d.connected = conn.connected
          /\ d.opening = conn.opening /\ d.transactions = conn.transactions
      BY DEF ConnTypeOK, Conns
    <3> HIDE DEF d
    <3>2. c = Unref(d)
      BY <2>2 DEF d
    <3>3. /\ Unref(d) \in Conns /\ Unref(d).connected = d.connected /\ Unref(d).opening = d.opening
          /\ Unref(d).rollback = d.rollback
          /\ Unref(d).transactions = IF d.transactions > 0 THEN d.transactions - 1 ELSE 0
      BY <3>1, UnrefMeans
    <3> HIDE DEF c
    <3> QED BY <2>2, <3>1, <3>2, <3>3 DEF EndCount, EndMark
  <2> QED BY <2>1, <2>2
<1>2. conn' = Ended(c, link).conn /\ link' = Ended(c, link).link
  BY DEF End
<1>3. CASE First(c)
  <2>1. conn' = [c EXCEPT !.rollback = FALSE] /\ link' = SetAutocommit(l, TRUE)
    BY <1>2, <1>3 DEF Ended
  <2> HIDE DEF c
  <2>2. /\ conn'.transactions = EndCount(t) /\ conn'.connected = conn.connected
        /\ conn'.opening = conn.opening /\ ~conn'.rollback
    BY <1>1, <2>1 DEF Conns
  <2>3. /\ l \in Links /\ l.up = link.up /\ (~link.up => l = link)
        /\ l.durable = link.durable
        /\ link.up => l.pending = IF EndMark(t) THEN {} ELSE link.pending
    BY <1>1 DEF ConnTypeOK, Links, EndTran
  <2> HIDE DEF l
  <2>4. /\ link'.up = link.up
        /\ link.up => link'.auto /\ link'.pending = {}
        /\ ~link.up => link' = link
        /\ link'.durable \subseteq link.durable \cup (IF EndMark(t) THEN {} ELSE link.pending)
    BY <2>1, <2>3 DEF SetAutocommit, EndTran, Links
  <2> QED BY <1>1, <1>3, <2>2, <2>4 DEF First
<1>4. CASE ~First(c)
  <2>1. conn' = c /\ link' = link
    BY <1>2, <1>4 DEF Ended
  <2> HIDE DEF c
  <2> QED BY <1>1, <1>4, <2>1 DEF First
<1> QED BY <1>3, <1>4

\* Nothing durable is undone.
LEMMA EndGrows ==
  ASSUME ConnTypeOK, NEW t \in Txs, End(t) PROVE link.durable \subseteq link'.durable
<1> DEFINE c == IF txs[t].committed THEN conn ELSE Unref([conn EXCEPT !.rollback = TRUE])
           l == IF c.rollback THEN EndTran(link, FALSE) ELSE link
<1>1. link' = IF First(c) THEN SetAutocommit(l, TRUE) ELSE link
  BY DEF End, Ended
<1> HIDE DEF c
<1>2. l \in Links /\ l.durable = link.durable
  BY DEF ConnTypeOK, Links, EndTran
<1> HIDE DEF l
<1>3. l.durable \subseteq SetAutocommit(l, TRUE).durable
  BY <1>2 DEF SetAutocommit, EndTran, Links
<1> QED BY <1>1, <1>2, <1>3

\* The destructor counts out what was not committed and turns autocommit on after the last.
LEMMA CountEnd ==
  ASSUME ConnTypeOK, CountInv, NEW t \in Txs, End(t) PROVE CountInv'
<1>1. \A u \in Txs : /\ u # t => txs'[u] = txs[u]
                     /\ txs'[t].state = "gone" /\ txs[t].state = "live"
                     /\ txs'[u].committed = txs[u].committed
  BY DEF End, ConnTypeOK, TxStates
<1>2. Open_' = Open_ \ {t} /\ Live' = Live \ {t} /\ (t \in Open_ <=> ~txs[t].committed)
  BY <1>1 DEF Open_, Live
<1>3. /\ conn'.transactions = EndCount(t)
      /\ conn'.connected = conn.connected /\ conn'.opening = conn.opening
      /\ link'.up = link.up
      /\ (EndCount(t) = 0 /\ conn.connected) => (link.up => link'.auto) /\ (~link.up => link' = link)
      /\ ~(EndCount(t) = 0 /\ conn.connected) => link' = link
  BY EndMeans
<1>4. CountMatches'
  <2>1. Cardinality(Open_') = IF t \in Open_ THEN Cardinality(Open_) - 1 ELSE Cardinality(Open_)
    BY <1>2, OpenFinite, FS_RemoveElement
  <2>2. t \in Open_ => Cardinality(Open_) # 0
    BY OpenFinite, FS_EmptySet
  <2> QED BY <1>2, <1>3, <2>1, <2>2, OpenFinite DEF CountInv, CountMatches, EndCount
<1>5. conn'.transactions = 0 <=> Open_' = {}
  <2>1. (CountMatches => (conn.transactions = 0 <=> Open_ = {}))'
    BY CountZero, PTL
  <2> QED BY <1>4, <2>1
<1>6. AutocommitMatches'
  <2>1. Open_' \subseteq Open_ /\ Open_' \subseteq Live'
    BY <1>2 DEF Open_
  <2> QED BY <1>3, <1>5, <2>1 DEF CountInv, AutocommitMatches
<1> QED BY <1>1, <1>3, <1>4, <1>6 DEF CountInv

\* connect(), disconnect() and async_complete() of a connection nothing lives on.
LEMMA CountConnection ==
  ASSUME ConnTypeOK, CountInv, "reconnect" \notin Risks, Connection_ PROVE CountInv'
<1>1. Live = {} /\ Open_ = {} /\ UNCHANGED txs
  BY DEF Connection_, Unused, Open_, Disconnect, Connect, AsyncComplete
<1>2. Live' = {} /\ Open_' = {}
  BY <1>1 DEF Live, Open_
<1>3. /\ conn'.transactions = conn.transactions /\ link'.auto
      /\ conn'.opening => ~conn'.connected
  <2>1. CASE Disconnect
    BY <2>1 DEF Disconnect, ConnTypeOK, Conns, Links, CountInv
  <2>2. ASSUME NEW rc \in {"success", "error", "executing"}, Connect(rc)
        PROVE  /\ conn'.transactions = conn.transactions /\ link'.auto
               /\ conn'.opening => ~conn'.connected
    BY <2>2 DEF Connect, ConnTypeOK, Conns, Links
  <2>3. ASSUME NEW ok \in BOOLEAN, AsyncComplete(ok)
        PROVE  /\ conn'.transactions = conn.transactions /\ link'.auto
               /\ conn'.opening => ~conn'.connected
    <3>1. conn.opening /\ link.auto
      BY <2>3 DEF AsyncComplete, CountInv
    <3> QED BY <2>3, <3>1 DEF AsyncComplete, ConnTypeOK, Conns, Links
  <2> QED BY <2>1, <2>2, <2>3 DEF Connection_
<1>4. CountMatches'
  BY <1>1, <1>2, <1>3 DEF CountInv, CountMatches
<1> QED BY <1>1, <1>2, <1>3, <1>4 DEF CountInv, AutocommitMatches

\* Work under a transaction leaves the link as it is but for what is pending.
LEMMA ModifyMeans ==
  ASSUME NEW l \in Links, NEW t \in Txs
  PROVE  /\ Modify(l, t).up = l.up /\ Modify(l, t).auto = l.auto
         /\ l.auto => Modify(l, t).durable = l.durable \cup {t} /\ Modify(l, t).pending = l.pending
         /\ ~l.auto => Modify(l, t).pending = l.pending \cup {t} /\ Modify(l, t).durable = l.durable
BY DEF Modify, Links

\* The steps there are.
LEMMA AnyStep ==
  ASSUME [Step]_vars
  PROVE  \/ Connection_ \/ Below \/ Tables \/ Telling \/ UNCHANGED vars
         \/ \E s \in Stmts : Lifecycle(s) \/ Executing(s) \/ Ask(s) \/ Parameters(s)
BY DEF Step, Next, Beside, Lifecycle

\* Every step keeps CountInv.
LEMMA CountStep ==
  ASSUME ConnTypeOK, CountInv, "reconnect" \notin Risks, [Step]_vars
  PROVE  CountInv'
<1>1. CASE Connection_
  BY <1>1, CountConnection
<1>2. CASE LinkLost
  <2>1. link'.auto = link.auto /\ ~link'.up /\ UNCHANGED <<conn, txs>>
    BY <1>2 DEF LinkLost, ConnTypeOK, Links
  <2> QED BY <2>1, CountKept
<1>3. ASSUME NEW t \in Txs, Rollback(t) PROVE CountInv'
  <2>1. /\ conn'.transactions = conn.transactions /\ conn'.connected = conn.connected
        /\ conn'.opening = conn.opening /\ UNCHANGED <<txs, link>>
    BY <1>3 DEF Rollback, ConnTypeOK, Conns
  <2> QED BY <2>1, CountKept
<1>4. CASE Works
  <2>1. link'.auto = link.auto /\ link'.up = link.up /\ UNCHANGED <<conn, txs>>
    BY <1>4, ModifyMeans DEF Works, ConnTypeOK, Open_, Live
  <2> QED BY <2>1, CountKept
<1>5. CASE UNCHANGED vars
  BY <1>5, CountKept DEF vars, connVars
<1> QED BY <1>1, <1>2, <1>3, <1>4, <1>5, CountBegin, CountCommit, CountEnd, StatementWorks, TableWorks,
           TellingWorks, AnyStep DEF Below, TxNext

-----------------------------------------------------------------------------
(* The operators of statement: what each makes of a statement st, the driver's *)
(* side d of it and the table.                                                 *)

\* What a statement and the driver start with has its type.
LEMMA BatchTypes == Unbound \in Batches /\ Fresh \in DrvStates /\ Closed_ \in StmtStates
<1>1. Unbound \in Batches
  BY DEF Unbound, Batches
<1>2. Closed_ \in StmtStates
  BY DEF Closed_, StmtStates
<1> QED BY <1>1, <1>2 DEF Fresh, DrvStates

\* So has the table that there is not.
LEMMA NoTvpType == NoTvp \in TvpStates
BY StatementAssumption DEF NoTvp, TvpStates

\* disable_async() and enable_async() leave all but the two flags, and the driver
\* is asynchronous only if the statement says so.
LEMMA AskedMeans ==
  ASSUME NEW st \in StmtStates, NEW d \in DrvStates, NEW wait \in BOOLEAN
  PROVE  LET e == Asked(wait, st, d)
         IN  /\ e.st \in StmtStates /\ e.d \in DrvStates
             /\ e.st.open = st.open /\ e.st.descr = st.descr /\ e.st.tvps = st.tvps
             /\ e.st.openTvp = st.openTvp
             /\ e.d.query = d.query /\ e.d.focus = d.focus /\ e.d.bound = d.bound
             /\ e.d.sent = d.sent /\ e.d.executing = d.executing
             /\ (d.async => st.enabled) => (e.d.async => e.st.enabled)
             /\ e = [st |-> e.st, d |-> e.d]
<1>1. CASE wait
  BY <1>1 DEF Asked, EnableAsync, StmtStates, DrvStates
<1>2. CASE ~wait
  BY <1>2 DEF Asked, DisableAsync, StmtStates, DrvStates
<1> QED BY <1>1, <1>2

\* A call that may still execute leaves all but async_.
LEMMA OutcomesMean ==
  ASSUME NEW st \in StmtStates, NEW d \in DrvStates, NEW wait \in BOOLEAN,
         NEW what \in {"prepare", "execute"}, NEW o \in Outcomes(wait, [st |-> st, d |-> d], what)
  PROVE  /\ o.st \in StmtStates /\ o.d \in DrvStates
         /\ o.st.open = st.open /\ o.st.descr = st.descr /\ o.st.tvps = st.tvps
         /\ o.st.openTvp = st.openTvp /\ o.st.enabled = st.enabled
         /\ o.d.query = d.query /\ o.d.focus = d.focus /\ o.d.bound = d.bound
         /\ o.d.sent = d.sent /\ o.d.async = d.async
<1>1. CASE o = [st |-> st, d |-> d]
  BY <1>1
<1>2. CASE o = [st |-> [st EXCEPT !.async = FALSE], d |-> d]
  BY <1>2 DEF StmtStates
<1>3. CASE o = [st |-> [st EXCEPT !.async = TRUE], d |-> [d EXCEPT !.executing = what]]
  BY <1>3 DEF StmtStates, DrvStates
<1> QED BY <1>1, <1>2, <1>3 DEF Outcomes, AsyncHelper

\* A table that is destroyed has neither the focus nor anything bound.
LEMMA DropMeans ==
  ASSUME NEW d \in DrvStates
  PROVE  /\ DropTable(d) \in DrvStates /\ ~DropTable(d).focus
         /\ DropTable(d).query = d.query /\ DropTable(d).sent = d.sent
         /\ DropTable(d).async = d.async /\ DropTable(d).executing = d.executing
         /\ DropTable(d).bound.heard = d.bound.heard
         /\ DropTable(d).bound.state = IF d.bound.state = "table" THEN "released" ELSE d.bound.state
<1> DEFINE b == [d.bound EXCEPT !.state = IF @ = "table" THEN "released" ELSE @]
<1>1. /\ b \in Batches /\ b.heard = d.bound.heard
      /\ b.state = IF d.bound.state = "table" THEN "released" ELSE d.bound.state
  BY DEF DrvStates, Batches
<1>2. DropTable(d) = [d EXCEPT !.focus = FALSE, !.bound = b]
  BY DEF DropTable, DrvStates
<1> HIDE DEF b
<1> QED BY <1>1, <1>2 DEF DrvStates

\* Is the table of s destroyed with tvp_data_?
LastHolder(s) == tvp.of = s /\ tvp.kept /\ ~tvp.held

\* tvp_data_.clear() leaves the handle, the description and the flag of async; a table
\* that nobody else holds goes with it.
LEMMA ClearMeans ==
  ASSUME TypeOK, NEW s \in Stmts
  PROVE  LET c == ClearTvps(s)
         IN  /\ c.st \in StmtStates /\ c.d \in DrvStates /\ c.tv \in TvpStates
             /\ c.st.open = stmt[s].open /\ c.st.descr = stmt[s].descr
             /\ c.st.enabled = stmt[s].enabled /\ ~c.st.tvps
             /\ c.tv = tvp \/ (tvp.of = s /\ c.tv.of \in {s, "none"})
             /\ LastHolder(s) => /\ c.tv = NoTvp /\ c.d = DropTable(drv[s])
                                 /\ c.st.openTvp => stmt[s].openTvp /\ ~tvp.open
             /\ ~LastHolder(s) => /\ c.d = drv[s] /\ c.st.openTvp = stmt[s].openTvp
                                  /\ c.tv.open = tvp.open /\ c.tv.of = tvp.of /\ c.tv.rows = tvp.rows
<1>0. stmt[s] \in StmtStates /\ drv[s] \in DrvStates /\ tvp \in TvpStates
  BY DEF TypeOK
<1> DEFINE t == [stmt[s] EXCEPT !.tvps = FALSE,
                                !.openTvp = IF LastHolder(s) /\ tvp.open THEN FALSE ELSE @]
           tv == IF LastHolder(s) THEN NoTvp
                 ELSE IF tvp.of = s THEN [tvp EXCEPT !.kept = FALSE] ELSE tvp
           d == IF LastHolder(s) THEN DropTable(drv[s]) ELSE drv[s]
<1>1. /\ t \in StmtStates /\ t.open = stmt[s].open /\ t.descr = stmt[s].descr
      /\ t.enabled = stmt[s].enabled /\ ~t.tvps
      /\ LastHolder(s) => (t.openTvp => stmt[s].openTvp /\ ~tvp.open)
      /\ ~LastHolder(s) => t.openTvp = stmt[s].openTvp
  BY <1>0 DEF StmtStates
<1>2. /\ tv \in TvpStates
      /\ tv = tvp \/ (tvp.of = s /\ tv.of \in {s, "none"})
      /\ LastHolder(s) => tv = NoTvp
      /\ ~LastHolder(s) => tv.open = tvp.open /\ tv.of = tvp.of /\ tv.rows = tvp.rows
  <2>1. CASE LastHolder(s)
    BY <2>1, NoTvpType DEF NoTvp, LastHolder
  <2>2. CASE ~LastHolder(s)
    BY <1>0, <2>2 DEF TvpStates
  <2> QED BY <2>1, <2>2
<1>3. d \in DrvStates /\ (LastHolder(s) => d = DropTable(drv[s])) /\ (~LastHolder(s) => d = drv[s])
  BY <1>0, DropMeans
<1>4. ClearTvps(s) = [st |-> t, d |-> d, tv |-> tv]
  BY DEF ClearTvps, LastHolder
<1> HIDE DEF t, d, tv
<1>5. ClearTvps(s).st = t /\ ClearTvps(s).d = d /\ ClearTvps(s).tv = tv
  BY <1>4
<1> QED BY <1>1, <1>2, <1>3, <1>5

\* tvp_data_.clear() keeps open_tvp_, the focus and the table's open_ together.
LEMMA ClearTable ==
  ASSUME TypeOK, NEW s \in Stmts, TableInv(s)
  PROVE  LET c == ClearTvps(s)
         IN  /\ c.st.openTvp <=> c.tv.open /\ c.tv.of = s
             /\ c.d.focus => c.st.openTvp /\ c.tv.rows > 0
<1>1. CASE LastHolder(s)
  <2>1. ~NoTvp.open /\ drv[s] \in DrvStates
    BY DEF NoTvp, TypeOK
  <2> QED BY <1>1, <2>1, ClearMeans, DropMeans DEF TableInv
<1>2. CASE ~LastHolder(s)
  BY <1>2, ClearMeans DEF TableInv
<1> QED BY <1>1, <1>2

\* close() leaves a closed statement.
LEMMA OpenedType ==
  ASSUME TypeOK, NEW s \in Stmts, NEW ok \in BOOLEAN
  PROVE  /\ AfterClose(s) \in StmtStates /\ Opened(s, ok) \in StmtStates
         /\ ~AfterClose(s).open /\ (Opened(s, ok).open <=> ok)
         /\ ~AfterClose(s).tvps /\ ~Opened(s, ok).tvps
         /\ AfterClose(s).openTvp = ClearTvps(s).st.openTvp
         /\ Opened(s, ok).openTvp = ClearTvps(s).st.openTvp
         /\ AfterClose(s).descr = IF stmt[s].open /\ conn.connected THEN "none" ELSE stmt[s].descr
         /\ Opened(s, ok).descr = AfterClose(s).descr
<1> DEFINE c == ClearTvps(s).st
           r == IF c.open /\ conn.connected THEN ResetParameters(c) ELSE c
           a == AfterClose(s)
<1>1. /\ c \in StmtStates /\ c.open = stmt[s].open /\ c.descr = stmt[s].descr /\ ~c.tvps
  BY ClearMeans
<1>2. a = [r EXCEPT !.open = FALSE]
  BY DEF AfterClose
<1> HIDE DEF c
<1>3. /\ r \in StmtStates /\ ~r.tvps /\ r.openTvp = c.openTvp
      /\ r.descr = IF stmt[s].open /\ conn.connected THEN "none" ELSE stmt[s].descr
  BY <1>1 DEF ResetParameters, StmtStates
<1> HIDE DEF a, r
<1>4. /\ a \in StmtStates /\ ~a.open /\ ~a.tvps /\ a.openTvp = c.openTvp /\ a.descr = r.descr
  BY <1>2, <1>3 DEF StmtStates
<1>5. Opened(s, ok) = [a EXCEPT !.open = ok]
  BY DEF Opened, a
<1>6. /\ Opened(s, ok) \in StmtStates /\ (Opened(s, ok).open <=> ok) /\ Opened(s, ok).descr = a.descr
      /\ ~Opened(s, ok).tvps /\ Opened(s, ok).openTvp = c.openTvp
  BY <1>4, <1>5 DEF StmtStates
<1> QED BY <1>3, <1>4, <1>6 DEF a, c

\* A statement that is closed forgets its parameter.
LEMMA ClosedForgets ==
  ASSUME NEW s \in Stmts, OpenInv(s)
  PROVE  (IF stmt[s].open /\ conn.connected THEN "none" ELSE stmt[s].descr) = "none"
BY DEF OpenInv

\* disable_async() leaves all but its flag and what it tells the driver.
LEMMA DisableMeans ==
  ASSUME NEW st \in StmtStates, NEW d \in DrvStates
  PROVE  LET e == DisableAsync(st, d)
         IN  /\ e.st \in StmtStates /\ e.d \in DrvStates
             /\ e.st.open = st.open /\ e.st.descr = st.descr /\ e.st.tvps = st.tvps
             /\ e.st.openTvp = st.openTvp
             /\ e.d.query = d.query /\ e.d.focus = d.focus /\ e.d.bound = d.bound
             /\ e.d.sent = d.sent
             /\ (d.async => st.enabled) => (e.d.async => e.st.enabled)
BY DEF DisableAsync, StmtStates, DrvStates

\* prepare_bind() asks for a description that is not there, and releases the
\* indicators that are bound.
LEMMA PrepareBindMeans ==
  ASSUME NEW st \in StmtStates, NEW d \in DrvStates, NEW p \in PrepareBind(st, d)
  PROVE  /\ p.st \in StmtStates /\ p.d \in DrvStates
         /\ p.st.open = st.open /\ p.st.tvps = st.tvps /\ p.st.openTvp = st.openTvp
         /\ p.d.query = d.query /\ p.d.focus = d.focus /\ p.d.sent = d.sent
         /\ p.d.bound.heard = d.bound.heard
         /\ (d.async => st.enabled) => (p.d.async => p.st.enabled)
         /\ p.throws => "undescribed" \in Risks /\ p.st.descr = "empty"
         /\ ~p.throws => /\ p.st.descr = IF st.descr # "none" THEN st.descr ELSE Describe(d)
                         /\ p.d.bound.state = IF d.bound.state = "none" THEN "none" ELSE "released"
<1> DEFINE e == DisableAsync(st, d)
           b == [e.d.bound EXCEPT !.state = IF @ = "none" THEN @ ELSE "released"]
           r == [e.d EXCEPT !.bound = b]
           t == IF st.descr # "none" THEN e.st ELSE [e.st EXCEPT !.descr = Describe(d)]
<1>1. /\ e.st \in StmtStates /\ e.d \in DrvStates
      /\ e.st.open = st.open /\ e.st.descr = st.descr /\ e.st.tvps = st.tvps
      /\ e.st.openTvp = st.openTvp
      /\ e.d.query = d.query /\ e.d.focus = d.focus /\ e.d.bound = d.bound /\ e.d.sent = d.sent
      /\ (d.async => st.enabled) => (e.d.async => e.st.enabled)
  BY DisableMeans
<1>2. \/ p = [throws |-> FALSE, d |-> r, st |-> t]
      \/ /\ p = [throws |-> TRUE, d |-> e.d, st |-> [e.st EXCEPT !.descr = "empty"]]
         /\ "undescribed" \in Risks
  BY <1>1 DEF PrepareBind, DrvStates
<1> HIDE DEF e
<1>3. /\ b \in Batches /\ b.heard = d.bound.heard
      /\ b.state = IF d.bound.state = "none" THEN "none" ELSE "released"
  BY <1>1 DEF DrvStates, Batches
<1> HIDE DEF b
<1>4. /\ r \in DrvStates /\ r.query = d.query /\ r.focus = d.focus /\ r.sent = d.sent
      /\ r.bound = b /\ (r.async <=> e.d.async)
  BY <1>1, <1>3 DEF DrvStates
<1>5. Describe(d) \in {"none", "empty", "column", "plain", "table"}
  BY DEF Describe, DrvStates
<1>6. /\ t \in StmtStates /\ t.open = st.open /\ t.tvps = st.tvps /\ t.openTvp = st.openTvp
      /\ (t.enabled <=> e.st.enabled)
      /\ t.descr = IF st.descr # "none" THEN st.descr ELSE Describe(d)
  BY <1>1, <1>5 DEF StmtStates
<1> HIDE DEF r, t
<1>7. CASE p = [throws |-> FALSE, d |-> r, st |-> t]
  <2>1. ~p.throws /\ p.d = r /\ p.st = t
    BY <1>7
  <2> QED BY <1>1, <1>3, <1>4, <1>6, <2>1
<1>8. CASE /\ p = [throws |-> TRUE, d |-> e.d, st |-> [e.st EXCEPT !.descr = "empty"]]
           /\ "undescribed" \in Risks
  <2> DEFINE u == [e.st EXCEPT !.descr = "empty"]
  <2>1. /\ u \in StmtStates /\ u.open = st.open /\ u.tvps = st.tvps /\ u.openTvp = st.openTvp
        /\ (u.enabled <=> e.st.enabled) /\ u.descr = "empty"
    BY <1>1 DEF StmtStates
  <2> HIDE DEF u
  <2>2. p = [throws |-> TRUE, d |-> e.d, st |-> u]
    BY <1>8 DEF u
  <2>3. p.throws /\ p.d = e.d /\ p.st = u
    BY <2>2
  <2> QED BY <1>1, <1>8, <2>1, <2>3
<1> QED BY <1>2, <1>7, <1>8

-----------------------------------------------------------------------------
(* The steps of statement s: types, and what is left alone. *)

\* A step of statement s, or of the table while it is that of s, leaves the other
\* statements; the table was nobody's or that of s and stays so.
Changes(s) ==
  /\ stmt' \in [Stmts -> StmtStates] /\ drv' \in [Stmts -> DrvStates] /\ tvp' \in TvpStates
  /\ handles' \subseteq Stmts
  /\ \A r \in Stmts : r # s => /\ stmt'[r] = stmt[r] /\ drv'[r] = drv[r]
                               /\ r \in handles' <=> r \in handles
  /\ tvp' = tvp \/ (tvp.of \in {"none", s} /\ tvp'.of \in {"none", s})

\* The usual form of such a step.
LEMMA Changing ==
  ASSUME TypeOK, NEW s \in Stmts, NEW st \in StmtStates, NEW d \in DrvStates,
         stmt' = [stmt EXCEPT ![s] = st], drv' = [drv EXCEPT ![s] = d],
         handles' \in {handles, handles \union {s}, handles \ {s}},
         tvp' \in TvpStates, tvp' = tvp \/ (tvp.of \in {"none", s} /\ tvp'.of \in {"none", s})
  PROVE  Changes(s) /\ stmt'[s] = st /\ drv'[s] = d
<1>1. stmt' \in [Stmts -> StmtStates] /\ stmt'[s] = st /\ \A r \in Stmts : r # s => stmt'[r] = stmt[r]
  BY DEF TypeOK
<1>2. drv' \in [Stmts -> DrvStates] /\ drv'[s] = d /\ \A r \in Stmts : r # s => drv'[r] = drv[r]
  BY DEF TypeOK
<1>3. handles' \subseteq Stmts /\ \A r \in Stmts : r # s => (r \in handles' <=> r \in handles)
  BY DEF TypeOK, ConnTypeOK
<1> QED BY <1>1, <1>2, <1>3 DEF Changes

\* The same where only the driver's side changes.
LEMMA ChangingDrv ==
  ASSUME TypeOK, NEW s \in Stmts, NEW d \in DrvStates, UNCHANGED <<stmt, tvp, handles>>,
         drv' = [drv EXCEPT ![s] = d]
  PROVE  Changes(s) /\ drv'[s] = d
BY DEF Changes, TypeOK, ConnTypeOK

\* open()
LEMMA OpenChanges ==
  ASSUME TypeOK, NEW s \in Stmts, NEW ok \in BOOLEAN, Open(s, ok)
  PROVE  /\ Changes(s) /\ stmt'[s] = Opened(s, ok) /\ drv'[s] = Fresh /\ tvp' = ClearTvps(s).tv
         /\ s \in handles' <=> ok
<1>1. /\ stmt' = [stmt EXCEPT ![s] = Opened(s, ok)] /\ drv' = [drv EXCEPT ![s] = Fresh]
      /\ tvp' = ClearTvps(s).tv
      /\ handles' = IF ok THEN handles \union {s} ELSE handles \ {s}
  BY DEF Open
<1>2. Opened(s, ok) \in StmtStates /\ Fresh \in DrvStates
  BY OpenedType, BatchTypes
<1>3. tvp' \in TvpStates /\ (tvp' = tvp \/ (tvp.of \in {"none", s} /\ tvp'.of \in {"none", s}))
  BY <1>1, ClearMeans
<1>4. handles' \in {handles, handles \union {s}, handles \ {s}} /\ (s \in handles' <=> ok)
  BY <1>1
<1> QED BY <1>1, <1>2, <1>3, <1>4, Changing

\* close()
LEMMA CloseChanges ==
  ASSUME TypeOK, NEW s \in Stmts, Close(s)
  PROVE  /\ Changes(s) /\ stmt'[s] = AfterClose(s) /\ drv'[s] = Fresh /\ tvp' = ClearTvps(s).tv
         /\ s \notin handles'
<1>1. /\ stmt' = [stmt EXCEPT ![s] = AfterClose(s)] /\ drv' = [drv EXCEPT ![s] = Fresh]
      /\ tvp' = ClearTvps(s).tv /\ handles' = handles \ {s}
  BY DEF Close
<1>2. AfterClose(s) \in StmtStates /\ Fresh \in DrvStates
  BY OpenedType, BatchTypes
<1>3. tvp' \in TvpStates /\ (tvp' = tvp \/ (tvp.of \in {"none", s} /\ tvp'.of \in {"none", s}))
  BY <1>1, ClearMeans
<1> QED BY <1>1, <1>2, <1>3, Changing

\* close() where it throws
LEMMA CloseThrowsChanges ==
  ASSUME TypeOK, NEW s \in Stmts, CloseThrows(s)
  PROVE  /\ Changes(s) /\ stmt'[s] = ClearTvps(s).st /\ drv'[s] = ClearTvps(s).d
         /\ tvp' = ClearTvps(s).tv
<1>1. /\ stmt' = [stmt EXCEPT ![s] = ClearTvps(s).st] /\ drv' = [drv EXCEPT ![s] = ClearTvps(s).d]
      /\ tvp' = ClearTvps(s).tv /\ handles' = handles
  BY DEF CloseThrows
<1>2. ClearTvps(s).st \in StmtStates /\ ClearTvps(s).d \in DrvStates
  BY ClearMeans
<1>3. tvp' \in TvpStates /\ (tvp' = tvp \/ (tvp.of \in {"none", s} /\ tvp'.of \in {"none", s}))
  BY <1>1, ClearMeans
<1> QED BY <1>1, <1>2, <1>3, Changing, ZenonT(30)

\* ~statement_impl()
LEMMA DestroyChanges ==
  ASSUME TypeOK, NEW s \in Stmts, Destroy(s)
  PROVE  /\ Changes(s) /\ stmt'[s] = Closed_ /\ drv'[s] = Fresh /\ s \notin handles'
         /\ tvp'.of # s
<1>1. /\ stmt' = [stmt EXCEPT ![s] = Closed_] /\ drv' = [drv EXCEPT ![s] = Fresh]
      /\ handles' = handles \ {s}
  BY DEF Destroy
<1>2. /\ tvp' \in TvpStates /\ tvp'.of # s
      /\ tvp' = tvp \/ (tvp.of \in {"none", s} /\ tvp'.of \in {"none", s})
  <2>1. CASE tvp.of # s
    BY <2>1 DEF Destroy, TypeOK
  <2>2. CASE tvp.of = s /\ tvp.held
    <3>1. tvp' = [tvp EXCEPT !.of = "none", !.kept = FALSE]
      BY <2>2 DEF Destroy
    <3> QED BY <2>2, <3>1, StatementAssumption DEF TypeOK, TvpStates
  <2>3. CASE tvp.of = s /\ ~tvp.held
    <3>1. tvp' = NoTvp /\ NoTvp.of = "none"
      BY <2>3 DEF Destroy, NoTvp
    <3> QED BY <2>3, <3>1, NoTvpType, StatementAssumption
  <2> QED BY <2>1, <2>2, <2>3
<1> QED BY <1>1, <1>2, BatchTypes, Changing

\* cancel(), complete_prepare(), complete_execute()
LEMMA CompleteChanges ==
  ASSUME TypeOK, NEW s \in Stmts, Cancel(s) \/ Complete(s)
  PROVE  /\ Changes(s) /\ UNCHANGED <<stmt, tvp, handles>>
         /\ drv'[s].query = drv[s].query /\ drv'[s].focus = drv[s].focus
         /\ drv'[s].bound = drv[s].bound /\ drv'[s].sent = drv[s].sent
         /\ drv'[s].async = drv[s].async
<1> DEFINE d == [drv[s] EXCEPT !.executing = "no"]
<1>1. UNCHANGED <<stmt, tvp, handles>> /\ drv' = [drv EXCEPT ![s] = d]
  BY DEF Cancel, Complete
<1>2. /\ d \in DrvStates /\ d.query = drv[s].query /\ d.focus = drv[s].focus
      /\ d.bound = drv[s].bound /\ d.sent = drv[s].sent /\ d.async = drv[s].async
  BY DEF TypeOK, DrvStates
<1> HIDE DEF d
<1>3. Changes(s) /\ drv'[s] = d
  BY <1>1, <1>2, ChangingDrv
<1> QED BY <1>1, <1>2, <1>3

\* prepare(query)
LEMMA PrepareChanges ==
  ASSUME TypeOK, NEW s \in Stmts, NEW q \in {"plain", "table"}, NEW wait \in BOOLEAN,
         Prepare(s, q, wait)
  PROVE  /\ Changes(s) /\ UNCHANGED <<tvp, handles>>
         /\ stmt'[s].open = stmt[s].open /\ stmt'[s].descr = stmt[s].descr
         /\ stmt'[s].tvps = stmt[s].tvps /\ stmt'[s].openTvp = stmt[s].openTvp
         /\ drv'[s].query = q /\ drv'[s].focus = drv[s].focus
         /\ drv'[s].bound = drv[s].bound /\ drv'[s].sent = drv[s].sent
         /\ (drv[s].async => stmt[s].enabled) => (drv'[s].async => stmt'[s].enabled)
<1> DEFINE e == Asked(wait, stmt[s], drv[s])
           d == [e.d EXCEPT !.query = q]
<1>0. stmt[s] \in StmtStates /\ drv[s] \in DrvStates
  BY DEF TypeOK
<1>1. /\ e.st \in StmtStates /\ e.d \in DrvStates
      /\ e.st.open = stmt[s].open /\ e.st.descr = stmt[s].descr /\ e.st.tvps = stmt[s].tvps
      /\ e.st.openTvp = stmt[s].openTvp /\ e.d.focus = drv[s].focus
      /\ e.d.bound = drv[s].bound /\ e.d.sent = drv[s].sent
      /\ (drv[s].async => stmt[s].enabled) => (e.d.async => e.st.enabled)
      /\ e = [st |-> e.st, d |-> e.d]
  BY <1>0, AskedMeans
<1>2. UNCHANGED <<tvp, handles>> /\ tvp' \in TvpStates
  BY DEF Prepare, TypeOK
<1>3. PICK o \in Outcomes(wait, [e EXCEPT !.d.query = q], "prepare") :
        stmt' = [stmt EXCEPT ![s] = o.st] /\ drv' = [drv EXCEPT ![s] = o.d]
  BY DEF Prepare
<1> HIDE DEF e
<1>4. [e EXCEPT !.d.query = q] = [st |-> e.st, d |-> d]
  BY <1>1
<1>5. /\ d \in DrvStates /\ d.query = q /\ d.focus = e.d.focus /\ d.bound = e.d.bound
      /\ d.sent = e.d.sent /\ d.async = e.d.async
  BY <1>1 DEF DrvStates
<1> HIDE DEF d
<1>6. o \in Outcomes(wait, [st |-> e.st, d |-> d], "prepare")
  BY <1>3, <1>4
<1>7. /\ o.st \in StmtStates /\ o.d \in DrvStates
      /\ o.st.open = e.st.open /\ o.st.descr = e.st.descr /\ o.st.tvps = e.st.tvps
      /\ o.st.openTvp = e.st.openTvp /\ o.st.enabled = e.st.enabled
      /\ o.d.query = d.query /\ o.d.focus = d.focus /\ o.d.bound = d.bound
      /\ o.d.sent = d.sent /\ o.d.async = d.async
  BY <1>1, <1>5, <1>6, OutcomesMean
<1>8. Changes(s) /\ stmt'[s] = o.st /\ drv'[s] = o.d
  BY <1>2, <1>3, <1>7, Changing
<1> QED BY <1>1, <1>2, <1>5, <1>7, <1>8

\* prepare(conn, query)
LEMMA PrepareOnChanges ==
  ASSUME TypeOK, NEW s \in Stmts, NEW q \in {"plain", "table"}, PrepareOn(s, q)
  PROVE  /\ Changes(s) /\ tvp' = ClearTvps(s).tv /\ s \in handles'
         /\ stmt'[s].open /\ stmt'[s].descr = Opened(s, TRUE).descr /\ ~stmt'[s].tvps
         /\ stmt'[s].openTvp = ClearTvps(s).st.openTvp
         /\ drv'[s].query = q /\ ~drv'[s].focus /\ drv'[s].bound = Unbound
         /\ drv'[s].sent = Unbound /\ ~drv'[s].async
<1> DEFINE st == Opened(s, TRUE)
           d == [Fresh EXCEPT !.query = q]
           e == DisableAsync(st, d)
<1>1. /\ st \in StmtStates /\ st.open /\ ~st.tvps /\ st.openTvp = ClearTvps(s).st.openTvp
  BY OpenedType
<1>2. /\ d \in DrvStates /\ d.query = q /\ ~d.focus /\ d.bound = Unbound /\ d.sent = Unbound
      /\ ~d.async
  BY BatchTypes DEF Fresh, DrvStates
<1>3. /\ stmt' = [stmt EXCEPT ![s] = e.st] /\ drv' = [drv EXCEPT ![s] = e.d]
      /\ tvp' = ClearTvps(s).tv /\ handles' = handles \union {s}
  BY DEF PrepareOn
<1>4. tvp' \in TvpStates /\ (tvp' = tvp \/ (tvp.of \in {"none", s} /\ tvp'.of \in {"none", s}))
  BY <1>3, ClearMeans
<1> HIDE DEF st, d
<1>5. /\ e.st \in StmtStates /\ e.d \in DrvStates
      /\ e.st.open = st.open /\ e.st.descr = st.descr /\ e.st.tvps = st.tvps
      /\ e.st.openTvp = st.openTvp
      /\ e.d.query = d.query /\ e.d.focus = d.focus /\ e.d.bound = d.bound /\ e.d.sent = d.sent
  BY <1>1, <1>2, DisableMeans
<1>6. ~e.d.async
  BY <1>1, <1>2 DEF DisableAsync, DrvStates
<1> HIDE DEF e
<1>7. Changes(s) /\ stmt'[s] = e.st /\ drv'[s] = e.d
  BY <1>3, <1>4, <1>5, Changing
<1> QED BY <1>1, <1>2, <1>3, <1>5, <1>6, <1>7 DEF st

\* execute()
LEMMA ExecuteChanges ==
  ASSUME TypeOK, NEW s \in Stmts, NEW n \in 1..MaxBatch, NEW wait \in BOOLEAN, Execute(s, n, wait)
  PROVE  /\ Changes(s) /\ UNCHANGED <<tvp, handles>>
         /\ stmt'[s].open = stmt[s].open /\ stmt'[s].descr = stmt[s].descr
         /\ stmt'[s].tvps = stmt[s].tvps /\ stmt'[s].openTvp = stmt[s].openTvp
         /\ drv'[s].query = drv[s].query /\ drv'[s].focus = drv[s].focus
         /\ drv'[s].bound = drv[s].bound
         /\ drv'[s].sent = drv[s].bound
         /\ (drv[s].async => stmt[s].enabled) => (drv'[s].async => stmt'[s].enabled)
<1> DEFINE e == Asked(wait, stmt[s], drv[s])
           d == [e.d EXCEPT !.sent = e.d.bound]
<1>0. stmt[s] \in StmtStates /\ drv[s] \in DrvStates
  BY DEF TypeOK
<1>1. /\ e.st \in StmtStates /\ e.d \in DrvStates
      /\ e.st.open = stmt[s].open /\ e.st.descr = stmt[s].descr /\ e.st.tvps = stmt[s].tvps
      /\ e.st.openTvp = stmt[s].openTvp /\ e.d.focus = drv[s].focus
      /\ e.d.bound = drv[s].bound /\ e.d.query = drv[s].query
      /\ (drv[s].async => stmt[s].enabled) => (e.d.async => e.st.enabled)
      /\ e = [st |-> e.st, d |-> e.d]
  BY <1>0, AskedMeans
<1>2. UNCHANGED <<tvp, handles>> /\ tvp' \in TvpStates
  BY DEF Execute, TypeOK
<1>3. PICK o \in Outcomes(wait, [e EXCEPT !.d.sent = e.d.bound], "execute") :
        stmt' = [stmt EXCEPT ![s] = o.st] /\ drv' = [drv EXCEPT ![s] = o.d]
  BY DEF Execute
<1> HIDE DEF e
<1>4. [e EXCEPT !.d.sent = e.d.bound] = [st |-> e.st, d |-> d]
  BY <1>1
<1>5. e.d.bound \in Batches
  BY <1>1 DEF DrvStates
<1>6. /\ d \in DrvStates /\ d.query = e.d.query /\ d.focus = e.d.focus /\ d.bound = e.d.bound
      /\ d.sent = e.d.bound /\ d.async = e.d.async
  BY <1>1, <1>5 DEF DrvStates
<1> HIDE DEF d
<1>7. o \in Outcomes(wait, [st |-> e.st, d |-> d], "execute")
  BY <1>3, <1>4
<1>8. /\ o.st \in StmtStates /\ o.d \in DrvStates
      /\ o.st.open = e.st.open /\ o.st.descr = e.st.descr /\ o.st.tvps = e.st.tvps
      /\ o.st.openTvp = e.st.openTvp /\ o.st.enabled = e.st.enabled
      /\ o.d.query = d.query /\ o.d.focus = d.focus /\ o.d.bound = d.bound
      /\ o.d.sent = d.sent /\ o.d.async = d.async
  BY <1>1, <1>6, <1>7, OutcomesMean
<1>9. Changes(s) /\ stmt'[s] = o.st /\ drv'[s] = o.d
  BY <1>2, <1>3, <1>8, Changing
<1> QED BY <1>1, <1>2, <1>6, <1>8, <1>9

\* execute_direct()
LEMMA DirectChanges ==
  ASSUME TypeOK, NEW s \in Stmts, NEW wait \in BOOLEAN, ExecuteDirect(s, wait)
  PROVE  /\ Changes(s) /\ tvp' = ClearTvps(s).tv /\ s \in handles'
         /\ stmt'[s].open /\ stmt'[s].descr = Opened(s, TRUE).descr /\ ~stmt'[s].tvps
         /\ stmt'[s].openTvp = ClearTvps(s).st.openTvp
         /\ drv'[s].query = "none" /\ ~drv'[s].focus /\ drv'[s].bound = Unbound
         /\ drv'[s].sent = [Unbound EXCEPT !.state = "direct"]
         /\ drv'[s].async => stmt'[s].enabled
<1> DEFINE st == Opened(s, TRUE)
           d == [Fresh EXCEPT !.sent.state = "direct"]
           e == Asked(wait, st, d)
<1>1. /\ st \in StmtStates /\ st.open /\ ~st.tvps /\ st.openTvp = ClearTvps(s).st.openTvp
  BY OpenedType
<1>2. [Unbound EXCEPT !.state = "direct"] \in Batches
  BY BatchTypes DEF Batches
<1>3. /\ d \in DrvStates /\ d.query = "none" /\ ~d.focus /\ d.bound = Unbound /\ ~d.async
      /\ d.sent = [Unbound EXCEPT !.state = "direct"]
  <2> DEFINE b == [Unbound EXCEPT !.state = "direct"]
  <2>1. /\ Fresh \in DrvStates /\ Fresh.query = "none" /\ ~Fresh.focus /\ Fresh.bound = Unbound
        /\ ~Fresh.async /\ Fresh.sent = Unbound
    BY BatchTypes DEF Fresh
  <2>2. d = [Fresh EXCEPT !.sent = b]
    BY <2>1
  <2> HIDE DEF b, d
  <2>3. /\ d \in DrvStates /\ d.query = "none" /\ ~d.focus /\ d.bound = Unbound /\ ~d.async
        /\ d.sent = b
    BY <1>2, <2>1, <2>2 DEF DrvStates, b
  <2> QED BY <2>3 DEF b
<1>4. tvp' = ClearTvps(s).tv /\ handles' = handles \union {s}
  BY DEF ExecuteDirect
<1>5. PICK o \in Outcomes(wait, e, "execute") :
        stmt' = [stmt EXCEPT ![s] = o.st] /\ drv' = [drv EXCEPT ![s] = o.d]
  BY DEF ExecuteDirect
<1>6. tvp' \in TvpStates /\ (tvp' = tvp \/ (tvp.of \in {"none", s} /\ tvp'.of \in {"none", s}))
  BY <1>4, ClearMeans
<1> HIDE DEF st, d
<1>7. /\ e.st \in StmtStates /\ e.d \in DrvStates
      /\ e.st.open = st.open /\ e.st.descr = st.descr /\ e.st.tvps = st.tvps
      /\ e.st.openTvp = st.openTvp
      /\ e.d.query = d.query /\ e.d.focus = d.focus /\ e.d.bound = d.bound /\ e.d.sent = d.sent
      /\ (d.async => st.enabled) => (e.d.async => e.st.enabled)
      /\ e = [st |-> e.st, d |-> e.d]
  <2>1. st \in StmtStates /\ d \in DrvStates
    BY <1>1, <1>3
  <2> QED BY ONLY <2>1, AskedMeans
<1> HIDE DEF e
<1>8. /\ o.st \in StmtStates /\ o.d \in DrvStates
      /\ o.st.open = e.st.open /\ o.st.descr = e.st.descr /\ o.st.tvps = e.st.tvps
      /\ o.st.openTvp = e.st.openTvp /\ o.st.enabled = e.st.enabled
      /\ o.d.query = e.d.query /\ o.d.focus = e.d.focus /\ o.d.bound = e.d.bound
      /\ o.d.sent = e.d.sent /\ o.d.async = e.d.async
  <2>1. o \in Outcomes(wait, [st |-> e.st, d |-> e.d], "execute")
    BY <1>5, <1>7
  <2> QED BY <1>7, <2>1, OutcomesMean
<1>9. Changes(s) /\ stmt'[s] = o.st /\ drv'[s] = o.d
  BY <1>4, <1>5, <1>6, <1>8, Changing
<1>10. stmt'[s].open /\ ~stmt'[s].tvps /\ stmt'[s].openTvp = ClearTvps(s).st.openTvp
  BY <1>1, <1>7, <1>8, <1>9
<1>11. stmt'[s].descr = Opened(s, TRUE).descr
  BY <1>7, <1>8, <1>9 DEF st
<1>12. /\ drv'[s].query = "none" /\ ~drv'[s].focus /\ drv'[s].bound = Unbound
       /\ drv'[s].async => stmt'[s].enabled
  BY <1>3, <1>7, <1>8, <1>9
<1>13. drv'[s].sent = [Unbound EXCEPT !.state = "direct"]
  BY <1>3, <1>7, <1>8, <1>9
<1> QED BY <1>4, <1>9, <1>10, <1>11, <1>12, <1>13

\* A result's calls
LEMMA TellsChanges ==
  ASSUME TypeOK, NEW s \in Stmts, NEW told \in {"no", "off", "on"}, Tells(s, told)
  PROVE  /\ Changes(s) /\ UNCHANGED <<tvp, handles>>
         /\ stmt'[s].open = stmt[s].open /\ stmt'[s].descr = stmt[s].descr
         /\ stmt'[s].tvps = stmt[s].tvps /\ stmt'[s].openTvp = stmt[s].openTvp
         /\ drv'[s].query = drv[s].query /\ drv'[s].focus = drv[s].focus
         /\ (drv[s].async => stmt[s].enabled) => (drv'[s].async => stmt'[s].enabled)
<1> DEFINE e == IF told = "no" THEN [st |-> stmt[s], d |-> drv[s]] ELSE Asked(told = "on", stmt[s], drv[s])
           x == IF cur'.busy # cur.busy /\ s \in handles
                THEN (IF cur'.busy THEN "fetch" ELSE "no") ELSE e.d.executing
           d == [e.d EXCEPT !.executing = x]
<1>0. stmt[s] \in StmtStates /\ drv[s] \in DrvStates /\ tvp \in TvpStates
  BY DEF TypeOK
<1>1. /\ e.st \in StmtStates /\ e.d \in DrvStates
      /\ e.st.open = stmt[s].open /\ e.st.descr = stmt[s].descr /\ e.st.tvps = stmt[s].tvps
      /\ e.st.openTvp = stmt[s].openTvp
      /\ e.d.query = drv[s].query /\ e.d.focus = drv[s].focus
      /\ (drv[s].async => stmt[s].enabled) => (e.d.async => e.st.enabled)
  <2>1. CASE told = "no"
    BY <1>0, <2>1
  <2>2. CASE told = "on"
    BY <1>0, <2>2, AskedMeans
  <2>3. CASE told = "off"
    BY <1>0, <2>3, AskedMeans
  <2> QED BY <2>1, <2>2, <2>3
<1>2. /\ UNCHANGED <<tvp, handles>>
      /\ stmt' = [stmt EXCEPT ![s] = e.st] /\ drv' = [drv EXCEPT ![s] = d]
  <2>1. UNCHANGED <<tvp, handles>>
    BY DEF Tells, connVars
  <2>2. CASE told = "no"
    BY <2>1, <2>2 DEF Tells
  <2>3. CASE told = "on"
    BY <2>1, <2>3 DEF Tells, Asked
  <2>4. CASE told = "off"
    BY <2>1, <2>4 DEF Tells, Asked
  <2> QED BY <2>1, <2>2, <2>3, <2>4
<1> HIDE DEF e
<1>3. x \in {"no", "prepare", "execute", "fetch"}
  BY <1>1 DEF DrvStates
<1> HIDE DEF x
<1>4. d \in DrvStates /\ d.query = e.d.query /\ d.focus = e.d.focus /\ d.async = e.d.async
  BY <1>1, <1>3 DEF DrvStates
<1> HIDE DEF d
<1>5. Changes(s) /\ stmt'[s] = e.st /\ drv'[s] = d
  BY <1>0, <1>1, <1>2, <1>4, Changing
<1> QED BY <1>1, <1>2, <1>4, <1>5

\* columns(), parameters() and the like
LEMMA AskChanges ==
  ASSUME TypeOK, NEW s \in Stmts, Ask(s)
  PROVE  /\ Changes(s) /\ UNCHANGED <<tvp, handles>>
         /\ stmt'[s].open = stmt[s].open /\ stmt'[s].descr = stmt[s].descr
         /\ stmt'[s].tvps = stmt[s].tvps /\ stmt'[s].openTvp = stmt[s].openTvp
         /\ drv'[s].query = drv[s].query /\ drv'[s].focus = drv[s].focus
         /\ drv'[s].bound = drv[s].bound /\ drv'[s].sent = drv[s].sent
         /\ (drv[s].async => stmt[s].enabled) => (drv'[s].async => stmt'[s].enabled)
<1> DEFINE e == DisableAsync(stmt[s], drv[s])
<1>0. stmt[s] \in StmtStates /\ drv[s] \in DrvStates
  BY DEF TypeOK
<1>1. /\ e.st \in StmtStates /\ e.d \in DrvStates
      /\ e.st.open = stmt[s].open /\ e.st.descr = stmt[s].descr /\ e.st.tvps = stmt[s].tvps
      /\ e.st.openTvp = stmt[s].openTvp
      /\ e.d.query = drv[s].query /\ e.d.focus = drv[s].focus /\ e.d.bound = drv[s].bound
      /\ e.d.sent = drv[s].sent
      /\ (drv[s].async => stmt[s].enabled) => (e.d.async => e.st.enabled)
  BY <1>0, DisableMeans
<1>2. /\ UNCHANGED <<tvp, handles>> /\ tvp' \in TvpStates
      /\ stmt' = [stmt EXCEPT ![s] = e.st] /\ drv' = [drv EXCEPT ![s] = e.d]
  BY DEF Ask, TypeOK
<1> HIDE DEF e
<1>3. Changes(s) /\ stmt'[s] = e.st /\ drv'[s] = e.d
  BY <1>1, <1>2, Changing
<1> QED BY <1>1, <1>2, <1>3

\* reset_parameters()
LEMMA ResetChanges ==
  ASSUME TypeOK, NEW s \in Stmts, Reset(s)
  PROVE  /\ Changes(s) /\ UNCHANGED <<tvp, handles>>
         /\ stmt'[s].open = stmt[s].open /\ stmt'[s].descr = "none"
         /\ stmt'[s].tvps = stmt[s].tvps /\ stmt'[s].openTvp = stmt[s].openTvp
         /\ stmt'[s].enabled = stmt[s].enabled
         /\ drv'[s].query = drv[s].query /\ drv'[s].focus = drv[s].focus
         /\ drv'[s].bound \in {drv[s].bound, Unbound} /\ drv'[s].sent = drv[s].sent
         /\ drv'[s].async = drv[s].async
<1> DEFINE st == [stmt[s] EXCEPT !.descr = "none"]
           d == IF s \in handles THEN [drv[s] EXCEPT !.bound = Unbound] ELSE drv[s]
<1>0. stmt[s] \in StmtStates /\ drv[s] \in DrvStates /\ tvp \in TvpStates
  BY DEF TypeOK
<1>1. /\ st \in StmtStates /\ st.open = stmt[s].open /\ st.descr = "none" /\ st.tvps = stmt[s].tvps
      /\ st.openTvp = stmt[s].openTvp /\ st.enabled = stmt[s].enabled
  BY <1>0 DEF StmtStates
<1>2. /\ d \in DrvStates /\ d.query = drv[s].query /\ d.focus = drv[s].focus
      /\ d.bound \in {drv[s].bound, Unbound} /\ d.sent = drv[s].sent /\ d.async = drv[s].async
  BY <1>0, BatchTypes DEF DrvStates
<1>3. /\ UNCHANGED <<tvp, handles>> /\ stmt' = [stmt EXCEPT ![s] = st]
      /\ drv' = [drv EXCEPT ![s] = d]
  BY DEF Reset, ResetParameters, TypeOK
<1> HIDE DEF st, d
<1>4. Changes(s) /\ stmt'[s] = st /\ drv'[s] = d
  BY <1>0, <1>1, <1>2, <1>3, Changing
<1> QED BY <1>1, <1>2, <1>3, <1>4

\* describe_parameters()
LEMMA DescribeChanges ==
  ASSUME TypeOK, NEW s \in Stmts, DescribeParameters(s)
  PROVE  /\ Changes(s) /\ UNCHANGED <<tvp, handles>>
         /\ stmt'[s].open = stmt[s].open /\ stmt'[s].descr = drv[s].query
         /\ stmt'[s].tvps = stmt[s].tvps /\ stmt'[s].openTvp = stmt[s].openTvp
         /\ stmt'[s].enabled = stmt[s].enabled /\ drv'[s] = drv[s]
<1> DEFINE st == [stmt[s] EXCEPT !.descr = drv[s].query]
<1>0. stmt[s] \in StmtStates /\ drv[s] \in DrvStates /\ tvp \in TvpStates
  BY DEF TypeOK
<1>1. /\ st \in StmtStates /\ st.open = stmt[s].open /\ st.descr = drv[s].query
      /\ st.tvps = stmt[s].tvps
      /\ st.openTvp = stmt[s].openTvp /\ st.enabled = stmt[s].enabled
  <2>1. drv[s].query \in {"none", "plain", "table"}
    BY <1>0 DEF DrvStates
  <2> QED BY <1>0, <2>1 DEF StmtStates
<1>2. /\ UNCHANGED <<tvp, handles>> /\ stmt' = [stmt EXCEPT ![s] = st]
      /\ drv' = [drv EXCEPT ![s] = drv[s]]
  BY DEF DescribeParameters, TypeOK
<1> HIDE DEF st
<1>3. Changes(s) /\ stmt'[s] = st /\ drv'[s] = drv[s]
  BY <1>0, <1>1, <1>2, Changing, ZenonT(30)
<1> QED BY <1>1, <1>2, <1>3

\* Either the indicators are what is meant or not.
LEMMA HeardType == ASSUME NEW kind, NEW how, NEW null PROVE Heard(kind, how, null) \in BOOLEAN
BY Zenon DEF Heard

\* bind(), bind_strings()
LEMMA BindMeans ==
  ASSUME TypeOK, NEW s \in Stmts, NEW kind, NEW how, NEW null \in Rows, Bind(s, kind, how, null)
  PROVE  /\ Changes(s) /\ UNCHANGED <<tvp, handles>>
         /\ drv'[s].query = drv[s].query /\ drv'[s].focus = drv[s].focus
         /\ drv'[s].sent = drv[s].sent
         /\ \E p \in PrepareBind(stmt[s], drv[s]) :
              /\ stmt'[s] = p.st /\ drv'[s].async = p.d.async
              /\ ~p.throws /\ ~p.st.openTvp =>
                   drv'[s].bound = [state |-> "bound", heard |-> Heard(kind, how, null)]
<1> DEFINE b == [state |-> "bound", heard |-> Heard(kind, how, null)]
<1>1. b \in Batches
  BY HeardType DEF Batches
<1>2. PICK p \in PrepareBind(stmt[s], drv[s]) :
        /\ stmt' = [stmt EXCEPT ![s] = p.st]
        /\ drv' = [drv EXCEPT ![s] = IF p.throws \/ p.st.openTvp THEN p.d
                                     ELSE [p.d EXCEPT !.bound = b]]
  BY DEF Bind
<1>3. UNCHANGED <<tvp, handles>>
  BY DEF Bind
<1>0. stmt[s] \in StmtStates /\ drv[s] \in DrvStates /\ tvp \in TvpStates
  BY DEF TypeOK
<1> HIDE DEF b
<1> DEFINE d == IF p.throws \/ p.st.openTvp THEN p.d ELSE [p.d EXCEPT !.bound = b]
<1>4. stmt' = [stmt EXCEPT ![s] = p.st] /\ drv' = [drv EXCEPT ![s] = d]
  BY <1>2
<1>5. ~p.throws /\ ~p.st.openTvp => d = [p.d EXCEPT !.bound = b]
  OBVIOUS
<1>6. /\ p.st \in StmtStates /\ p.d \in DrvStates
      /\ p.d.query = drv[s].query /\ p.d.focus = drv[s].focus /\ p.d.sent = drv[s].sent
  BY <1>0, PrepareBindMeans
<1>7. /\ d \in DrvStates /\ d.query = p.d.query /\ d.focus = p.d.focus /\ d.sent = p.d.sent
      /\ d.async = p.d.async /\ (d = [p.d EXCEPT !.bound = b] => d.bound = b)
  BY <1>1, <1>6 DEF DrvStates
<1> HIDE DEF d
<1>8. Changes(s) /\ stmt'[s] = p.st /\ drv'[s] = d
  BY <1>0, <1>3, <1>4, <1>6, <1>7, Changing
<1> QED BY <1>3, <1>5, <1>6, <1>7, <1>8 DEF b

\* bind_null()
LEMMA BindNullMeans ==
  ASSUME TypeOK, NEW s \in Stmts, BindNull(s)
  PROVE  /\ Changes(s) /\ UNCHANGED <<tvp, handles>>
         /\ drv'[s].query = drv[s].query /\ drv'[s].focus = drv[s].focus
         /\ drv'[s].sent = drv[s].sent
         /\ \E p \in PrepareBind(stmt[s], drv[s]) :
              /\ stmt'[s] = p.st /\ drv'[s].async = p.d.async
              /\ ~p.throws /\ ~drv[s].focus =>
                   drv'[s].bound = [state |-> "bound", heard |-> TRUE]
<1> DEFINE b == [state |-> "bound", heard |-> TRUE]
<1>1. b \in Batches
  BY DEF Batches
<1>2. PICK p \in PrepareBind(stmt[s], drv[s]) :
        /\ stmt' = [stmt EXCEPT ![s] = p.st]
        /\ drv' = [drv EXCEPT ![s] = IF p.throws \/ p.d.focus THEN p.d
                                     ELSE [p.d EXCEPT !.bound = b]]
  BY DEF BindNull
<1>3. UNCHANGED <<tvp, handles>>
  BY DEF BindNull
<1>0. stmt[s] \in StmtStates /\ drv[s] \in DrvStates /\ tvp \in TvpStates
  BY DEF TypeOK
<1> HIDE DEF b
<1> DEFINE d == IF p.throws \/ p.d.focus THEN p.d ELSE [p.d EXCEPT !.bound = b]
<1>4. stmt' = [stmt EXCEPT ![s] = p.st] /\ drv' = [drv EXCEPT ![s] = d]
  BY <1>2
<1>5. ~p.throws /\ ~drv[s].focus => d = [p.d EXCEPT !.bound = b]
  BY <1>0, PrepareBindMeans
<1>6. /\ p.st \in StmtStates /\ p.d \in DrvStates
      /\ p.d.query = drv[s].query /\ p.d.focus = drv[s].focus /\ p.d.sent = drv[s].sent
  BY <1>0, PrepareBindMeans
<1>7. /\ d \in DrvStates /\ d.query = p.d.query /\ d.focus = p.d.focus /\ d.sent = p.d.sent
      /\ d.async = p.d.async /\ (d = [p.d EXCEPT !.bound = b] => d.bound = b)
  BY <1>1, <1>6 DEF DrvStates
<1> HIDE DEF d
<1>8. Changes(s) /\ stmt'[s] = p.st /\ drv'[s] = d
  BY <1>0, <1>3, <1>4, <1>6, <1>7, Changing
<1> QED BY <1>3, <1>5, <1>6, <1>7, <1>8 DEF b

-----------------------------------------------------------------------------
(* The steps of the table, which are steps of the statement it is of, if any. *)

\* close() of the table
LEMMA TvpCloseChanges ==
  ASSUME TypeOK, TvpClose
  PROVE  /\ Changes(tvp.of) /\ ~tvp'.open /\ tvp'.of = tvp.of /\ tvp'.kept = tvp.kept
         /\ handles' = handles
         /\ tvp.of \in Stmts =>
              LET s == tvp.of
              IN  /\ ~stmt'[s].openTvp /\ stmt'[s].open = stmt[s].open
                  /\ stmt'[s].descr = stmt[s].descr /\ stmt'[s].tvps = stmt[s].tvps
                  /\ stmt'[s].enabled = stmt[s].enabled
                  /\ drv'[s].query = drv[s].query /\ drv'[s].async = drv[s].async
                  /\ drv'[s].bound = drv[s].bound /\ drv'[s].sent = drv[s].sent
                  /\ tvp.rows > 0 => ~drv'[s].focus
                  /\ drv'[s].focus => drv[s].focus
<1>0. stmt \in [Stmts -> StmtStates] /\ drv \in [Stmts -> DrvStates] /\ tvp \in TvpStates
      /\ handles \subseteq Stmts
  BY DEF TypeOK, ConnTypeOK
<1>1. tvp' = [tvp EXCEPT !.open = FALSE, !.rows = 0] /\ handles' = handles
  BY DEF TvpClose
<1>2. tvp' \in TvpStates /\ ~tvp'.open /\ tvp'.of = tvp.of /\ tvp'.kept = tvp.kept
  <2>1. 0 \in 0..MaxBatch
    BY StatementAssumption
  <2> QED BY <1>0, <1>1, <2>1 DEF TvpStates
<1>3. CASE tvp.of = "none"
  <2>1. UNCHANGED <<stmt, drv>>
    BY <1>3 DEF TvpClose
  <2> QED BY <1>0, <1>1, <1>2, <1>3, <2>1, StatementAssumption DEF Changes
<1>4. CASE tvp.of # "none"
  <2> DEFINE s == tvp.of
             st == [stmt[s] EXCEPT !.openTvp = FALSE]
             d == IF tvp.rows > 0 THEN [drv[s] EXCEPT !.focus = FALSE] ELSE drv[s]
  <2>1. s \in Stmts /\ stmt[s] \in StmtStates /\ drv[s] \in DrvStates
    BY <1>0, <1>4 DEF TvpStates
  <2>2. stmt' = [stmt EXCEPT ![s] = st]
    BY <1>4, <2>1 DEF TvpClose, CloseTvp
  <2>3. drv' = [drv EXCEPT ![s] = d]
    BY <1>0, <1>4, <2>1 DEF TvpClose
  <2>4. /\ st \in StmtStates /\ ~st.openTvp /\ st.open = stmt[s].open /\ st.descr = stmt[s].descr
        /\ st.tvps = stmt[s].tvps /\ st.enabled = stmt[s].enabled
    BY <2>1 DEF StmtStates
  <2>5. /\ d \in DrvStates /\ d.query = drv[s].query /\ d.async = drv[s].async
        /\ d.bound = drv[s].bound /\ d.sent = drv[s].sent
        /\ (tvp.rows > 0 => ~d.focus) /\ (d.focus => drv[s].focus)
    BY <2>1 DEF DrvStates
  <2> HIDE DEF st, d
  <2>6. Changes(s) /\ stmt'[s] = st /\ drv'[s] = d
    <3>1. tvp'.of \in {"none", s} /\ tvp.of \in {"none", s}
      BY <1>2
    <3> HIDE DEF s
    <3> QED BY <1>1, <1>2, <2>1, <2>2, <2>3, <2>4, <2>5, <3>1, Changing
  <2> QED BY <1>1, <1>2, <2>1, <2>4, <2>5, <2>6
<1> QED BY <1>3, <1>4

\* The application lets go of the table.
LEMMA TvpDropChanges ==
  ASSUME TypeOK, TvpDrop
  PROVE  /\ Changes(tvp.of) /\ handles' = handles
         /\ tvp.kept => /\ UNCHANGED <<stmt, drv>> /\ tvp'.open = tvp.open /\ tvp'.of = tvp.of
                        /\ tvp'.rows = tvp.rows /\ tvp'.kept
         /\ ~tvp.kept => tvp' = NoTvp
         /\ ~tvp.kept /\ tvp.of \in Stmts =>
              LET s == tvp.of
              IN  /\ drv'[s] = DropTable(drv[s])
                  /\ stmt'[s].open = stmt[s].open
                  /\ stmt'[s].descr = stmt[s].descr /\ stmt'[s].tvps = stmt[s].tvps
                  /\ stmt'[s].enabled = stmt[s].enabled
                  /\ stmt'[s].openTvp => stmt[s].openTvp /\ ~tvp.open
<1>0. stmt \in [Stmts -> StmtStates] /\ drv \in [Stmts -> DrvStates] /\ tvp \in TvpStates
      /\ handles \subseteq Stmts
  BY DEF TypeOK, ConnTypeOK
<1>1. handles' = handles
  BY DEF TvpDrop
<1>2. CASE tvp.kept
  <2>1. UNCHANGED <<stmt, drv>> /\ tvp' = [tvp EXCEPT !.held = FALSE]
    BY <1>2 DEF TvpDrop
  <2>2. /\ tvp' \in TvpStates /\ tvp'.open = tvp.open /\ tvp'.of = tvp.of /\ tvp'.rows = tvp.rows
        /\ tvp'.kept
    BY <1>0, <1>2, <2>1 DEF TvpStates
  <2> QED BY <1>0, <1>1, <1>2, <2>1, <2>2 DEF Changes
<1>3. CASE ~tvp.kept /\ tvp.of = "none"
  <2>1. UNCHANGED <<stmt, drv>> /\ tvp' = NoTvp
    BY <1>3 DEF TvpDrop
  <2>2. tvp' \in TvpStates /\ tvp'.of = "none"
    BY <2>1, NoTvpType DEF NoTvp
  <2> QED BY <1>0, <1>1, <1>3, <2>1, <2>2, StatementAssumption DEF Changes
<1>4. CASE ~tvp.kept /\ tvp.of # "none"
  <2> DEFINE s == tvp.of
             st == IF tvp.open THEN [stmt[s] EXCEPT !.openTvp = FALSE] ELSE stmt[s]
             d == DropTable(drv[s])
  <2>1. s \in Stmts /\ stmt[s] \in StmtStates /\ drv[s] \in DrvStates
    BY <1>0, <1>4 DEF TvpStates
  <2>2. stmt' = [stmt EXCEPT ![s] = st] /\ drv' = [drv EXCEPT ![s] = d]
    BY <1>4, <2>1 DEF TvpDrop, CloseTvp
  <2>3. tvp' = NoTvp /\ tvp' \in TvpStates /\ tvp'.of = "none"
    BY <1>4, NoTvpType DEF TvpDrop, NoTvp
  <2>4. /\ st \in StmtStates /\ st.open = stmt[s].open /\ st.descr = stmt[s].descr
        /\ st.tvps = stmt[s].tvps /\ st.enabled = stmt[s].enabled
        /\ st.openTvp => stmt[s].openTvp /\ ~tvp.open
    BY <2>1 DEF StmtStates
  <2>5. d \in DrvStates
    BY <2>1, DropMeans
  <2> HIDE DEF st, d
  <2>6. Changes(s) /\ stmt'[s] = st /\ drv'[s] = d
    <3>1. tvp'.of \in {"none", s} /\ tvp.of \in {"none", s}
      BY <2>3
    <3> HIDE DEF s
    <3> QED BY <1>1, <2>1, <2>2, <2>3, <2>4, <2>5, <3>1, Changing, ZenonT(30)
  <2> QED BY <1>1, <1>4, <2>1, <2>3, <2>4, <2>6 DEF d
<1> QED BY <1>2, <1>3, <1>4

\* describe_parameters() of the table
LEMMA TvpDescribeChanges ==
  ASSUME TypeOK, TvpDescribe
  PROVE  /\ Changes(tvp.of) /\ UNCHANGED <<stmt, drv, handles>>
         /\ tvp'.open = tvp.open /\ tvp'.of = tvp.of /\ tvp'.rows = tvp.rows /\ tvp'.kept = tvp.kept
<1>1. UNCHANGED <<stmt, drv, handles>> /\ tvp' = [tvp EXCEPT !.cols = TRUE]
  BY DEF TvpDescribe
<1>2. /\ tvp' \in TvpStates /\ tvp'.open = tvp.open /\ tvp'.of = tvp.of /\ tvp'.rows = tvp.rows
      /\ tvp'.kept = tvp.kept
  BY <1>1 DEF TypeOK, TvpStates
<1> QED BY <1>1, <1>2 DEF Changes, TypeOK, ConnTypeOK

\* bind(), bind_strings() and bind_null() of the table
LEMMA ColumnChanges ==
  ASSUME TypeOK, NEW n, NEW heard \in BOOLEAN, BindColumn(n, heard)
  PROVE  /\ tvp.of \in Stmts /\ Changes(tvp.of) /\ UNCHANGED <<stmt, tvp, handles>>
         /\ "focus" \in Risks \/ drv[tvp.of].focus
         /\ LET d == drv'[tvp.of]
            IN  /\ d.query = drv[tvp.of].query /\ d.focus = drv[tvp.of].focus
                /\ d.async = drv[tvp.of].async /\ d.sent = drv[tvp.of].sent
                /\ d.bound = [state |-> IF drv[tvp.of].focus THEN "table" ELSE "bound",
                              heard |-> heard]
<1> DEFINE s == tvp.of
           b == [state |-> IF drv[s].focus THEN "table" ELSE "bound", heard |-> heard]
           d == [drv[s] EXCEPT !.bound = b]
<1>1. s \in Stmts /\ drv[s] \in DrvStates
  BY DEF BindColumn, TypeOK, TvpStates
<1>2. /\ UNCHANGED <<stmt, tvp, handles>> /\ drv' = [drv EXCEPT ![s] = d]
      /\ "focus" \in Risks \/ drv[s].focus
  BY DEF BindColumn
<1>3. b \in Batches
  BY DEF Batches
<1> HIDE DEF b
<1>4. /\ d \in DrvStates /\ d.query = drv[s].query /\ d.focus = drv[s].focus
      /\ d.async = drv[s].async /\ d.sent = drv[s].sent /\ d.bound = b
  BY <1>1, <1>3 DEF DrvStates
<1> HIDE DEF d
<1>5. Changes(s) /\ drv'[s] = d
  <2> HIDE DEF s
  <2> QED BY <1>1, <1>2, <1>4, ChangingDrv
<1> QED BY <1>1, <1>2, <1>4, <1>5 DEF b

\* open() of the table: it stops, or the table is that of s, and bound unless its
\* columns cannot be described.
Opening(s, rows, p, throws) ==
  /\ \/ /\ p.throws \/ p.st.descr # "table"
        /\ stmt'[s] = p.st /\ drv'[s] = p.d /\ tvp' = tvp
     \/ /\ ~p.throws /\ p.st.descr = "table"
        /\ stmt'[s].open = p.st.open /\ stmt'[s].descr = p.st.descr
        /\ stmt'[s].enabled = p.st.enabled /\ stmt'[s].tvps /\ stmt'[s].openTvp
        /\ tvp'.open /\ tvp'.of = s /\ tvp'.rows = rows
        /\ tvp'.kept <=> (tvp.kept /\ tvp.held) \/ ~stmt[s].tvps
        /\ drv'[s].query = p.d.query /\ drv'[s].sent = p.d.sent /\ drv'[s].async = p.d.async
        /\ throws => drv'[s] = p.d
        /\ ~throws => /\ drv'[s].focus <=> rows > 0
                      /\ drv'[s].bound = [Unbound EXCEPT !.state = "table"]

\* What prepare_tvp_param_all() may come to.
LEMMA ColumnsType ==
  ASSUME NEW cols \in BOOLEAN, NEW c \in DescribeColumns(cols)
  PROVE  c.throws \in BOOLEAN /\ c.cols \in BOOLEAN
<1>1. CASE c = [throws |-> FALSE, cols |-> TRUE]
  BY <1>1
<1>2. CASE \E throws \in BOOLEAN : c = [throws |-> throws, cols |-> cols]
  BY <1>2
<1> QED BY <1>1, <1>2 DEF DescribeColumns

\* Every open() of the table is such a step.
LEMMA TvpOpenChanges ==
  ASSUME TypeOK, NEW s \in Stmts, NEW rows \in 0..MaxBatch, TvpOpen(s, rows)
  PROVE  /\ Changes(s) /\ handles' = handles
         /\ \E p \in PrepareBind(stmt[s], drv[s]), throws \in BOOLEAN : Opening(s, rows, p, throws)
<1>0. stmt[s] \in StmtStates /\ drv[s] \in DrvStates /\ tvp \in TvpStates
  BY DEF TypeOK
<1>1. PICK p \in PrepareBind(stmt[s], drv[s]), c \in DescribeColumns(tvp.cols) :
        /\ IF p.throws \/ p.st.descr # "table"
           THEN /\ stmt' = [stmt EXCEPT ![s] = p.st] /\ drv' = [drv EXCEPT ![s] = p.d]
                /\ UNCHANGED tvp
           ELSE /\ stmt' = [stmt EXCEPT ![s] = [p.st EXCEPT !.tvps = TRUE, !.openTvp = TRUE]]
                /\ tvp' = [open |-> TRUE, of |-> s, rows |-> rows, cols |-> c.cols, held |-> TRUE,
                           kept |-> (tvp.kept /\ tvp.held) \/ ~stmt[s].tvps]
                /\ drv' = [drv EXCEPT ![s] = IF c.throws THEN p.d ELSE
                     [p.d EXCEPT !.focus = rows > 0,
                                 !.bound = [Unbound EXCEPT !.state = "table"]]]
  BY DEF TvpOpen
<1>2. handles' = handles /\ tvp.of \in {"none", s}
  BY DEF TvpOpen
<1>3. c.throws \in BOOLEAN /\ c.cols \in BOOLEAN
  <2>1. tvp.cols \in BOOLEAN
    BY <1>0 DEF TvpStates
  <2> QED BY <2>1, ColumnsType
<1>4. /\ p.st \in StmtStates /\ p.d \in DrvStates
  BY <1>0, PrepareBindMeans
<1>5. CASE p.throws \/ p.st.descr # "table"
  <2>1. stmt' = [stmt EXCEPT ![s] = p.st] /\ drv' = [drv EXCEPT ![s] = p.d] /\ tvp' = tvp
    BY <1>1, <1>5
  <2>2. Changes(s) /\ stmt'[s] = p.st /\ drv'[s] = p.d
    BY <1>0, <1>2, <1>4, <2>1, Changing
  <2>3. Opening(s, rows, p, c.throws)
    BY <1>1, <1>5, <2>1, <2>2 DEF Opening
  <2>4. \E q \in PrepareBind(stmt[s], drv[s]), throws \in BOOLEAN : Opening(s, rows, q, throws)
    BY <1>3, <2>3, Zenon
  <2> QED BY <1>2, <2>2, <2>4
<1>6. CASE ~(p.throws \/ p.st.descr # "table")
  <2> DEFINE kept == (tvp.kept /\ tvp.held) \/ ~stmt[s].tvps
             st == [p.st EXCEPT !.tvps = TRUE, !.openTvp = TRUE]
             b == [Unbound EXCEPT !.state = "table"]
             focus == rows > 0
             d == IF c.throws THEN p.d ELSE [p.d EXCEPT !.focus = focus, !.bound = b]
             tv == [open |-> TRUE, of |-> s, rows |-> rows, cols |-> c.cols, held |-> TRUE,
                    kept |-> kept]
  <2>1. stmt' = [stmt EXCEPT ![s] = st] /\ drv' = [drv EXCEPT ![s] = d] /\ tvp' = tv
    BY <1>1, <1>6
  <2>2. kept \in BOOLEAN /\ focus \in BOOLEAN
    <3>1. kept \in BOOLEAN
      BY Zenon
    <3>2. focus = TRUE \/ focus = FALSE
      OBVIOUS
    <3> QED BY <3>1, <3>2
  <2>3. b \in Batches
    BY BatchTypes DEF Batches
  <2>4. /\ st \in StmtStates /\ st.open = p.st.open /\ st.descr = p.st.descr
        /\ st.enabled = p.st.enabled /\ st.tvps /\ st.openTvp
    BY <1>4 DEF StmtStates
  <2> HIDE DEF b, focus, kept
  <2>5. /\ d \in DrvStates /\ d.query = p.d.query /\ d.sent = p.d.sent /\ d.async = p.d.async
        /\ c.throws => d = p.d
        /\ ~c.throws => d.focus = focus /\ d.bound = b
    BY <1>4, <2>2, <2>3 DEF DrvStates
  <2>6. tv \in TvpStates /\ tv.open /\ tv.of = s /\ tv.rows = rows /\ tv.kept = kept
    BY <1>3, <2>2 DEF TvpStates
  <2> HIDE DEF st, d, tv
  <2>7. Changes(s) /\ stmt'[s] = st /\ drv'[s] = d
    <3>1. tvp' \in TvpStates /\ tvp'.of \in {"none", s} /\ tvp.of \in {"none", s}
      BY <1>2, <2>1, <2>6
    <3> QED BY <1>2, <2>1, <2>4, <2>5, <3>1, Changing
  <2>8. /\ tvp'.open /\ tvp'.of = s /\ tvp'.rows = rows /\ tvp'.kept = kept
        /\ drv'[s].query = p.d.query /\ drv'[s].sent = p.d.sent /\ drv'[s].async = p.d.async
        /\ c.throws => drv'[s] = p.d
        /\ ~c.throws => drv'[s].focus = focus /\ drv'[s].bound = b
    BY <2>1, <2>5, <2>6, <2>7
  <2>9. Opening(s, rows, p, c.throws)
    <3>1. /\ stmt'[s].open = p.st.open /\ stmt'[s].descr = p.st.descr
          /\ stmt'[s].enabled = p.st.enabled /\ stmt'[s].tvps /\ stmt'[s].openTvp
      BY <2>4, <2>7
    <3>3. tvp'.kept <=> (tvp.kept /\ tvp.held) \/ ~stmt[s].tvps
      BY <2>8 DEF kept
    <3>4. ~c.throws => /\ drv'[s].focus <=> rows > 0
                       /\ drv'[s].bound = [Unbound EXCEPT !.state = "table"]
      BY <2>8 DEF focus, b
    <3>5. ~p.throws /\ p.st.descr = "table"
      BY <1>6
    <3> QED BY ONLY <2>8, <3>1, <3>3, <3>4, <3>5, Zenon DEF Opening
  <2>10. \E q \in PrepareBind(stmt[s], drv[s]), throws \in BOOLEAN : Opening(s, rows, q, throws)
    BY <1>3, <2>9, Zenon
  <2> QED BY <1>2, <2>7, <2>10
<1> QED BY <1>5, <1>6

-----------------------------------------------------------------------------
(* Types. *)

\* The queries have one parameter: a value or a table.
LEMMA QueryTypes == Queries \subseteq {"plain", "table"}
BY DEF Queries

\* Every call of a statement leaves the others alone.
LEMMA StatementChanges ==
  ASSUME TypeOK, NEW s \in Stmts, Lifecycle(s) \/ Executing(s) \/ Ask(s) \/ Parameters(s)
  PROVE  Changes(s)
<1>1. CASE Lifecycle(s)
  BY <1>1, OpenChanges, CloseChanges, CloseThrowsChanges, CompleteChanges, DestroyChanges
     DEF Lifecycle, Ending
<1>2. CASE Executing(s)
  <2>1. ASSUME NEW q \in Queries, NEW wait \in BOOLEAN,
               Prepare(s, q, wait) \/ PrepareOn(s, q) \/ ExecuteDirect(s, wait)
        PROVE  Changes(s)
    <3>1. q \in {"plain", "table"}
      BY QueryTypes
    <3> QED BY <2>1, <3>1, PrepareChanges, PrepareOnChanges, DirectChanges
  <2>2. ASSUME NEW n \in 1..MaxBatch, NEW wait \in BOOLEAN, Execute(s, n, wait)
        PROVE  Changes(s)
    BY <2>2, ExecuteChanges
  <2>3. CASE Complete(s)
    BY <2>3, CompleteChanges
  <2> QED BY <1>2, <2>1, <2>2, <2>3 DEF Executing
<1>3. CASE Ask(s)
  BY <1>3, AskChanges
<1>4. CASE Parameters(s)
  BY <1>4, BindMeans, BindNullMeans, ResetChanges, DescribeChanges DEF Parameters
<1> QED BY <1>1, <1>2, <1>3, <1>4

\* Every call of the table leaves all statements but its own.
LEMMA TableChanges ==
  ASSUME TypeOK, Tables
  PROVE  \E s \in Stmts \union {"none"} : Changes(s)
<1>0. tvp.of \in Stmts \union {"none"}
  BY DEF TypeOK, TvpStates
<1>1. CASE TvpClose \/ TvpDrop \/ TvpDescribe
  BY <1>0, <1>1, TvpCloseChanges, TvpDropChanges, TvpDescribeChanges
<1>2. ASSUME NEW s \in Stmts, NEW rows \in 0..MaxBatch, TvpOpen(s, rows)
      PROVE  Changes(s)
  BY <1>2, TvpOpenChanges
<1>3. ASSUME NEW kind, NEW how, NEW null \in Rows, TvpBind(kind, how, null)
      PROVE  Changes(tvp.of)
  BY <1>3, HeardType, ColumnChanges DEF TvpBind
<1>4. ASSUME NEW n \in 1..MaxBatch, TvpBindNull(n)
      PROVE  Changes(tvp.of)
  BY <1>4, ColumnChanges DEF TvpBindNull
<1> QED BY <1>0, <1>1, <1>2, <1>3, <1>4 DEF Tables

\* Work under a transaction keeps the type of the link.
LEMMA WorksType == ASSUME ConnTypeOK, Works PROVE link' \in Links
<1>1. Open_ \subseteq Txs
  BY DEF Open_, Live
<1> QED BY <1>1, LinkType DEF Works, ConnTypeOK

\* connect(), disconnect(), async_complete()
LEMMA ConnectType ==
  ASSUME TypeOK, Connection_ PROVE ConnTypeOK'
<1>1. ASSUME NEW rc, Connect(rc) PROVE ConnTypeOK'
  <2>1. (rc = "success") \in BOOLEAN /\ (rc = "executing") \in BOOLEAN
    BY Zenon
  <2> DEFINE up == rc = "success"
             opening == rc = "executing"
  <2>2. /\ conn' = [conn EXCEPT !.connected = up, !.opening = opening]
        /\ link' = [link EXCEPT !.up = up, !.auto = TRUE, !.pending = {}]
        /\ handles' = {} /\ txs' = txs
    BY <1>1 DEF Connect
  <2> HIDE DEF up, opening
  <2>3. up \in BOOLEAN /\ opening \in BOOLEAN
    BY <2>1 DEF up, opening
  <2> QED BY <2>2, <2>3 DEF TypeOK, ConnTypeOK, Conns, Links
<1>2. CASE Disconnect
  BY <1>2 DEF Disconnect, TypeOK, ConnTypeOK, Conns, Links
<1>3. ASSUME NEW ok \in BOOLEAN, AsyncComplete(ok) PROVE ConnTypeOK'
  <2> DEFINE c == conn.connected \/ ok
  <2>1. c \in BOOLEAN
    BY Zenon
  <2>2. /\ conn' = [conn EXCEPT !.connected = c, !.opening = FALSE]
        /\ link' = [link EXCEPT !.up = ok] /\ UNCHANGED <<txs, handles>>
    BY <1>3 DEF AsyncComplete, TypeOK, ConnTypeOK, Conns
  <2> HIDE DEF c
  <2> QED BY <2>1, <2>2 DEF TypeOK, ConnTypeOK, Conns, Links
<1> QED BY <1>1, <1>2, <1>3 DEF Connection_

\* Every step keeps the types.
LEMMA TypeStep == TypeOK /\ [Step]_vars => TypeOK'
<1> SUFFICES ASSUME TypeOK, [Step]_vars PROVE TypeOK'
  OBVIOUS
<1>1. ASSUME NEW s, Changes(s), Works PROVE TypeOK'
  <2>1. link' \in Links /\ conn' = conn /\ txs' = txs
    BY <1>1, WorksType DEF TypeOK, Works
  <2> QED BY <1>1, <2>1 DEF TypeOK, ConnTypeOK, Changes
<1>2. CASE Connection_
  <2>1. drv' \in [Stmts -> DrvStates] /\ UNCHANGED <<stmt, tvp>>
    BY <1>2, BatchTypes DEF Connection_
  <2> QED BY <1>2, <2>1, ConnectType DEF TypeOK
<1>3. CASE Below
  <2>1. CASE LinkLost
    BY <1>3, <2>1 DEF Below, LinkLost, TypeOK, ConnTypeOK, Links, stmtVars
  <2>2. CASE TxNext
    BY <1>3, <2>2, TxType DEF Below, TxNext, TypeOK, stmtVars
  <2> QED BY <1>3, <2>1, <2>2 DEF Below
<1>4. CASE Tables
  BY <1>1, <1>4, TableChanges, TableWorks
<1>5. ASSUME NEW s \in Stmts, Lifecycle(s) \/ Executing(s) \/ Ask(s) \/ Parameters(s)
      PROVE  TypeOK'
  BY <1>1, <1>5, StatementChanges, StatementWorks
<1>6. CASE UNCHANGED vars
  BY <1>6 DEF vars, connVars, stmtVars, TypeOK, ConnTypeOK
<1>7. CASE Telling
  BY <1>1, <1>7, TellsChanges, TellingWorks DEF Telling
<1> QED BY <1>2, <1>3, <1>4, <1>5, <1>6, <1>7, AnyStep

\* They hold at first.
LEMMA TypeInit == Init => TypeOK
<1> SUFFICES ASSUME Init PROVE TypeOK
  OBVIOUS
<1>1. ConnTypeOK
  BY DEF Init, ConnInit, ConnTypeOK, Conns, TxStates, Links
<1>2. stmt \in [Stmts -> StmtStates] /\ drv \in [Stmts -> DrvStates] /\ tvp \in TvpStates
  BY BatchTypes, NoTvpType DEF Init, StmtInit
<1> QED BY <1>1, <1>2 DEF TypeOK

\* Connections, transactions, statements and the table keep their types over every
\* order of the calls, whatever risks the application takes.
THEOREM StatementTypes == OdbcSpec => []TypeOK
BY TypeInit, TypeStep, OdbcSteps, PTL

-----------------------------------------------------------------------------
(* Transactions: the theorems. *)

\* No transaction is open at first.
LEMMA CountInit == Init => CountInv
<1> SUFFICES ASSUME Init PROVE CountInv
  OBVIOUS
<1>1. Live = {} /\ Open_ = {}
  BY DEF Init, ConnInit, Live, Open_
<1> QED BY <1>1, FS_EmptySet
        DEF Init, ConnInit, CountInv, CountMatches, AutocommitMatches

\* connection::transactions_ is the number of transactions that are neither
\* committed nor destroyed, and autocommit is off exactly while one is open,
\* for any number of nested transactions ended in any order, as long as the
\* application does not connect or disconnect under them.
THEOREM CountsTransactions ==
  ASSUME "reconnect" \notin Risks PROVE OdbcSpec => []TransactionsCounted
<1>1. TypeOK /\ CountInv /\ [Step]_vars => CountInv'
  BY CountStep DEF TypeOK
<1>2. CountInv => TransactionsCounted
  BY DEF CountInv, TransactionsCounted
<1> QED BY <1>1, <1>2, CountInit, TypeInit, TypeStep, OdbcSteps, PTL

-----------------------------------------------------------------------------
(* The mark for rollback. *)

\* The driver has a link only while the connection believes so.
Linked == link.up => conn.connected

\* What neither connects nor disconnects leaves connected_ and brings no link up.
Steady == conn'.connected = conn.connected /\ (link'.up => link.up)

\* Work neither connects nor disconnects.
LEMMA WorksSteady == ASSUME ConnTypeOK, Works PROVE Steady
<1>1. ASSUME NEW t \in Open_ PROVE Modify(link, t).up = link.up
  BY DEF ConnTypeOK, Links, Modify
<1> QED BY <1>1 DEF Works, Steady

\* Ending a transaction leaves the link.
LEMMA EndKeeps ==
  ASSUME NEW l \in Links, NEW b \in BOOLEAN
  PROVE  EndTran(l, b).up = l.up /\ SetAutocommit(l, b).up = l.up
<1>1. EndTran(l, b) \in Links /\ EndTran(l, b).up = l.up
  BY DEF EndTran, Links
<1> QED BY <1>1 DEF SetAutocommit, Links

\* Transactions, and the loss of the link, leave the statements.
LEMMA BelowSteady == ASSUME ConnTypeOK, Below PROVE Steady /\ UNCHANGED <<handles, stmt, drv, tvp>>
<1>0. conn \in Conns /\ link \in Links
  BY DEF ConnTypeOK
<1>1. UNCHANGED <<stmt, drv, tvp>>
  BY DEF Below, stmtVars
<1>2. CASE LinkLost
  BY <1>0, <1>1, <1>2 DEF LinkLost, Links, Steady
<1>3. ASSUME NEW t \in Txs, Begin(t) PROVE Steady /\ handles' = handles
  <2>1. link'.up = link.up /\ handles' = handles
    BY <1>0, <1>3 DEF Begin, Links
  <2>2. conn'.connected = conn.connected
    BY <1>0, <1>3 DEF Begin, Ref, Conns
  <2> QED BY <2>1, <2>2 DEF Steady
<1>4. ASSUME NEW t \in Txs, Commit(t) PROVE Steady /\ handles' = handles
  <2>1. conn' = Unref(conn) /\ handles' = handles
    BY <1>4 DEF Commit
  <2>2. conn'.connected = conn.connected
    BY <1>0, <2>1, UnrefMeans
  <2>5. link' = link \/ link' = EndTran(link, TRUE) \/ link' = EndTran(link, FALSE)
    BY <1>4 DEF Commit
  <2>6. link'.up = link.up
    BY <1>0, <2>5, EndKeeps
  <2> QED BY <2>1, <2>2, <2>6 DEF Steady
<1>5. ASSUME NEW t \in Txs, Rollback(t) PROVE Steady /\ handles' = handles
  BY <1>0, <1>5 DEF Rollback, Conns, Steady
<1>6. ASSUME NEW t \in Txs, End(t) PROVE Steady /\ handles' = handles
  <2>1. handles' = handles
    BY <1>6 DEF End
  <2> QED BY <1>6, <2>1, EndMeans DEF Steady
<1> QED BY <1>1, <1>2, <1>3, <1>4, <1>5, <1>6 DEF Below, TxNext, LinkLost

\* Every step keeps a link under a connection that believes in it.
LEMMA LinkedStep == TypeOK /\ Linked /\ [Step]_vars => Linked'
<1> SUFFICES ASSUME TypeOK, Linked, [Step]_vars PROVE Linked'
  OBVIOUS
<1>0. ConnTypeOK /\ conn \in Conns /\ link \in Links
  BY DEF TypeOK, ConnTypeOK
<1>1. CASE Connection_
  <2>1. CASE Disconnect
    BY <1>0, <2>1 DEF Disconnect, Linked, Conns, Links
  <2>2. ASSUME NEW rc, Connect(rc) PROVE Linked'
    BY <1>0, <2>2 DEF Connect, Linked, Conns, Links
  <2>3. ASSUME NEW ok \in BOOLEAN, AsyncComplete(ok) PROVE Linked'
    BY <1>0, <2>3 DEF AsyncComplete, Linked, Conns, Links
  <2> QED BY <1>1, <2>1, <2>2, <2>3 DEF Connection_
<1>2. ASSUME Steady PROVE Linked'
  BY <1>2 DEF Steady, Linked
<1>3. CASE UNCHANGED vars
  BY <1>3 DEF vars, connVars, Linked
<1> QED BY <1>0, <1>1, <1>2, <1>3, BelowSteady, WorksSteady, StatementWorks, TableWorks,
           TellingWorks, AnyStep

\* Work becomes durable by commit(), or by the destructor that retries it.
Honours == link'.durable # link.durable => Commits \/ Retries

\* The destructor honours the mark.
LEMMA EndHonours == ASSUME ConnTypeOK, NEW t \in Txs, End(t) PROVE Honours
<1>1. CASE link'.durable = link.durable
  BY <1>1 DEF Honours
<1>2. CASE link'.durable # link.durable
  <2>1. EndCount(t) = 0 /\ conn.connected
    BY <1>2, EndMeans
  <2>2. link'.durable \subseteq link.durable \cup (IF EndMark(t) THEN {} ELSE link.pending)
    BY <2>1, EndMeans
  <2>3. link.durable \subseteq link'.durable
    BY EndGrows
  <2>4. ~conn.rollback /\ txs[t].committed
    BY <1>2, <2>2, <2>3 DEF EndMark
  <2>5. t \in Live /\ txs'[t].state = "gone"
    BY DEF End, Live, ConnTypeOK, TxStates
  <2> QED BY <2>4, <2>5 DEF Honours, Retries
<1> QED BY <1>1, <1>2

\* Every step honours the mark.
LEMMA HonoursStep ==
  ASSUME ConnTypeOK, Linked, CountInv, [Step]_vars PROVE Honours
<1>0. conn \in Conns /\ link \in Links
  BY DEF ConnTypeOK
<1>1. CASE Connection_
  <2>1. ASSUME NEW rc, Connect(rc) PROVE link'.durable = link.durable
    BY <1>0, <2>1 DEF Connect, Links
  <2>2. ASSUME NEW ok, AsyncComplete(ok) PROVE link'.durable = link.durable
    BY <1>0, <2>2 DEF AsyncComplete, Links
  <2>3. CASE Disconnect
    BY <1>0, <2>3 DEF Disconnect, Links, Honours
  <2> QED BY <1>1, <2>1, <2>2, <2>3 DEF Connection_, Honours
<1>2. CASE LinkLost
  BY <1>0, <1>2 DEF LinkLost, Links, Honours
<1>3. ASSUME NEW t \in Txs, Begin(t) PROVE Honours
  BY <1>0, <1>3 DEF Begin, Links, Honours
<1>4. ASSUME NEW t \in Txs, Commit(t) PROVE Honours
  <2>1. ~txs[t].committed /\ txs'[t].committed
    BY <1>4 DEF Commit, ConnTypeOK, TxStates
  <2> QED BY <2>1 DEF Honours, Commits
<1>5. ASSUME NEW t \in Txs, Rollback(t) PROVE Honours
  BY <1>5 DEF Rollback, Honours
<1>6. CASE Works
  <2>1. CASE link' = link
    BY <2>1 DEF Honours
  <2>2. ASSUME NEW t \in Open_, link.up, link' = Modify(link, t) PROVE Honours
    <3>1. t \in Txs
      BY DEF Open_, Live
    <3>2. ~link.auto
      BY <2>2 DEF Linked, CountInv, AutocommitMatches
    <3> QED BY <1>0, <2>2, <3>1, <3>2, ModifyMeans DEF Honours
  <2> QED BY <1>6, <2>1, <2>2 DEF Works
<1>7. CASE UNCHANGED vars
  BY <1>7 DEF vars, connVars, Honours
<1> QED BY <1>1, <1>2, <1>3, <1>4, <1>5, <1>6, <1>7, EndHonours, StatementWorks, TableWorks,
           TellingWorks, AnyStep DEF Below, TxNext

\* For any number of nested transactions, ended in any order: what modifies the
\* database becomes durable by a commit() only, or by the destructor that follows a
\* commit() that failed; a destructor on a connection that is marked for rollback,
\* or that marks it, makes nothing durable, and neither does a statement, a
\* result, or the loss of the link.  The application does not connect or
\* disconnect under them.
THEOREM HonoursMark ==
  ASSUME "reconnect" \notin Risks PROVE OdbcSpec => MarkHonoured
<1>1. TypeOK /\ CountInv /\ [Step]_vars => CountInv'
  BY CountStep DEF TypeOK
<1>2. Init => Linked
  BY DEF Init, ConnInit, Linked
<1>3. TypeOK /\ CountInv /\ Linked /\ [Step]_vars =>
        [link'.durable # link.durable => Commits \/ Retries]_connVars
  BY HonoursStep DEF TypeOK, Honours
<1> QED BY <1>1, <1>2, <1>3, CountInit, LinkedStep, TypeInit, TypeStep, OdbcSteps, PTL DEF MarkHonoured

-----------------------------------------------------------------------------
(* Statements: what statement_impl believes of the driver. *)

\* What statement and table believe of each other and of the driver, of statement s.
Sound(s) == (drv[s].async => stmt[s].enabled) /\ OpenInv(s) /\ TableInv(s)

\* SoundInv, one statement at a time.
LEMMA SoundMeans == SoundInv <=> \A r \in Stmts : Sound(r)
BY DEF SoundInv, SyncIsSync, Sound

\* It is enough to look at the statement that a step is of.
LEMMA SoundFrame ==
  ASSUME TypeOK, NEW s, Changes(s), SoundInv, conn'.connected = conn.connected,
         s \in Stmts => Sound(s)'
  PROVE  SoundInv'
<1>1. ASSUME NEW r \in Stmts, r # s PROVE Sound(r)'
  <2>1. stmt'[r] = stmt[r] /\ drv'[r] = drv[r] /\ (r \in handles' <=> r \in handles)
    BY <1>1 DEF Changes
  <2>2. Sound(r)
    BY SoundMeans
  <2>3. OpenInv(r)'
    BY <2>1, <2>2 DEF Sound, OpenInv
  <2>4. TableInv(r)'
    <3>1. CASE tvp' = tvp
      BY <2>1, <2>2, <3>1 DEF Sound, TableInv
    <3>2. CASE tvp.of \in {"none", s} /\ tvp'.of \in {"none", s}
      <4>1. tvp.of # r /\ tvp'.of # r
        BY <1>1, <3>2, StatementAssumption
      <4> QED BY <2>1, <2>2, <4>1 DEF Sound, TableInv
    <3> QED BY <3>1, <3>2 DEF Changes
  <2> QED BY <2>1, <2>2, <2>3, <2>4 DEF Sound
<1>2. \A r \in Stmts : Sound(r)'
  BY <1>1
<1> QED BY <1>2 DEF SoundInv, SyncIsSync, Sound

\* A statement that is closed or opened anew.
LEMMA SoundAnew ==
  ASSUME TypeOK, NEW s \in Stmts, Sound(s), conn'.connected = conn.connected,
         tvp' = ClearTvps(s).tv,
         stmt'[s].open <=> s \in handles', stmt'[s].open => conn.connected,
         stmt'[s].descr = AfterClose(s).descr, stmt'[s].openTvp = ClearTvps(s).st.openTvp,
         drv'[s].query # "none" => stmt'[s].open, ~drv'[s].focus,
         drv'[s].async => stmt'[s].enabled
  PROVE  Sound(s)'
<1>1. stmt'[s].descr = "none"
  BY ClosedForgets, OpenedType DEF Sound
<1>2. OpenInv(s)'
  BY <1>1 DEF OpenInv
<1>3. TableInv(s)'
  BY ClearTable DEF TableInv, Sound
<1> QED BY <1>2, <1>3 DEF Sound

\* A statement whose handle, query, description and table are left alone.
LEMMA SoundKept ==
  ASSUME NEW s \in Stmts, Sound(s), conn'.connected = conn.connected,
         UNCHANGED <<tvp, handles>>, stmt'[s].open = stmt[s].open, stmt'[s].openTvp = stmt[s].openTvp,
         drv'[s].query = drv[s].query, drv'[s].focus = drv[s].focus,
         stmt'[s].descr \in {"none", stmt[s].descr, drv[s].query},
         (drv[s].async => stmt[s].enabled) => (drv'[s].async => stmt'[s].enabled)
  PROVE  Sound(s)'
BY DEF Sound, OpenInv, TableInv

\* What a handle and a statement start with.
LEMMA FreshMeans ==
  /\ Fresh.query = "none" /\ ~Fresh.focus /\ ~Fresh.async /\ Fresh.bound = Unbound
  /\ Fresh.sent = Unbound
  /\ ~Closed_.open /\ ~Closed_.openTvp /\ Closed_.descr = "none" /\ ~Closed_.tvps
BY DEF Fresh, Closed_

\* open(), close(), cancel() and the destructor, seen from their statement.
LEMMA SoundLifecycle ==
  ASSUME TypeOK, NEW s \in Stmts, Sound(s), conn'.connected = conn.connected, Lifecycle(s)
  PROVE  Sound(s)'
<1>1. ASSUME NEW ok \in BOOLEAN, Open(s, ok) PROVE Sound(s)'
  <2>1. /\ stmt'[s] = Opened(s, ok) /\ drv'[s] = Fresh /\ tvp' = ClearTvps(s).tv
        /\ s \in handles' <=> ok
    BY <1>1, OpenChanges
  <2>2. ok => conn.connected
    BY <1>1 DEF Open
  <2>3. /\ Opened(s, ok).open <=> ok
        /\ Opened(s, ok).openTvp = ClearTvps(s).st.openTvp
        /\ Opened(s, ok).descr = AfterClose(s).descr
    BY OpenedType
  <2> QED BY <2>1, <2>2, <2>3, FreshMeans, SoundAnew
<1>2. CASE Close(s)
  <2>1. /\ stmt'[s] = AfterClose(s) /\ drv'[s] = Fresh /\ tvp' = ClearTvps(s).tv /\ s \notin handles'
    BY <1>2, CloseChanges
  <2>2. ~AfterClose(s).open /\ AfterClose(s).openTvp = ClearTvps(s).st.openTvp
    BY OpenedType
  <2> QED BY <2>1, <2>2, FreshMeans, SoundAnew
<1>3. CASE CloseThrows(s)
  <2>1. /\ stmt'[s] = ClearTvps(s).st /\ drv'[s] = ClearTvps(s).d /\ tvp' = ClearTvps(s).tv
    BY <1>3, CloseThrowsChanges
  <2>2. handles' = handles
    BY <1>3 DEF CloseThrows
  <2>3. /\ stmt'[s].open = stmt[s].open /\ stmt'[s].descr = stmt[s].descr
        /\ stmt'[s].enabled = stmt[s].enabled
    BY <2>1, ClearMeans
  <2>4. drv'[s].query = drv[s].query /\ drv'[s].async = drv[s].async
    <3>1. drv[s] \in DrvStates
      BY DEF TypeOK
    <3>2. drv'[s] = drv[s] \/ drv'[s] = DropTable(drv[s])
      BY <2>1, ClearMeans
    <3> QED BY <3>1, <3>2, DropMeans
  <2>5. TableInv(s)'
    BY <2>1, ClearTable DEF TableInv, Sound
  <2> QED BY <2>2, <2>3, <2>4, <2>5 DEF Sound, OpenInv
<1>4. CASE Cancel(s)
  <2>1. /\ UNCHANGED <<stmt, tvp, handles>> /\ drv'[s].query = drv[s].query
        /\ drv'[s].focus = drv[s].focus /\ drv'[s].async = drv[s].async
    BY <1>4, CompleteChanges
  <2> QED BY <2>1, SoundKept
<1>5. CASE Destroy(s)
  <2>1. stmt'[s] = Closed_ /\ drv'[s] = Fresh /\ s \notin handles' /\ tvp'.of # s
    BY <1>5, DestroyChanges
  <2> QED BY <2>1, FreshMeans DEF Sound, OpenInv, TableInv
<1> QED BY <1>1, <1>2, <1>3, <1>4, <1>5 DEF Lifecycle, Ending

\* prepare() and execute(), seen from their statement.
LEMMA SoundExecuting ==
  ASSUME TypeOK, Linked, NEW s \in Stmts, Sound(s), conn'.connected = conn.connected,
         "reprepare" \notin Risks, Executing(s)
  PROVE  Sound(s)'
<1>1. ASSUME NEW q \in {"plain", "table"}, NEW wait \in BOOLEAN, Prepare(s, q, wait)
      PROVE  Sound(s)'
  <2>1. /\ UNCHANGED <<tvp, handles>>
        /\ stmt'[s].open = stmt[s].open /\ stmt'[s].descr = stmt[s].descr
        /\ stmt'[s].openTvp = stmt[s].openTvp
        /\ drv'[s].query = q /\ drv'[s].focus = drv[s].focus
        /\ (drv[s].async => stmt[s].enabled) => (drv'[s].async => stmt'[s].enabled)
    BY <1>1, PrepareChanges
  <2>2. stmt[s].open /\ drv[s].query \in {"none", q}
    BY <1>1 DEF Prepare
  <2> QED BY <2>1, <2>2 DEF Sound, OpenInv, TableInv
<1>2. ASSUME NEW q \in {"plain", "table"}, PrepareOn(s, q) PROVE Sound(s)'
  <2>1. /\ tvp' = ClearTvps(s).tv /\ s \in handles'
        /\ stmt'[s].open /\ stmt'[s].descr = Opened(s, TRUE).descr
        /\ stmt'[s].openTvp = ClearTvps(s).st.openTvp
        /\ ~drv'[s].focus /\ ~drv'[s].async
    BY <1>2, PrepareOnChanges
  <2>2. conn.connected
    BY <1>2 DEF PrepareOn, Linked
  <2>3. Opened(s, TRUE).descr = AfterClose(s).descr
    BY OpenedType
  <2> QED BY <2>1, <2>2, <2>3, SoundAnew
<1>3. ASSUME NEW wait \in BOOLEAN, ExecuteDirect(s, wait) PROVE Sound(s)'
  <2>1. /\ tvp' = ClearTvps(s).tv /\ s \in handles'
        /\ stmt'[s].open /\ stmt'[s].descr = Opened(s, TRUE).descr
        /\ stmt'[s].openTvp = ClearTvps(s).st.openTvp
        /\ ~drv'[s].focus /\ (drv'[s].async => stmt'[s].enabled)
    BY <1>3, DirectChanges
  <2>2. conn.connected
    BY <1>3 DEF ExecuteDirect, Linked
  <2>3. Opened(s, TRUE).descr = AfterClose(s).descr
    BY OpenedType
  <2> QED BY <2>1, <2>2, <2>3, SoundAnew
<1>4. ASSUME NEW n \in 1..MaxBatch, NEW wait \in BOOLEAN, Execute(s, n, wait) PROVE Sound(s)'
  <2>1. /\ UNCHANGED <<tvp, handles>>
        /\ stmt'[s].open = stmt[s].open /\ stmt'[s].descr = stmt[s].descr
        /\ stmt'[s].openTvp = stmt[s].openTvp
        /\ drv'[s].query = drv[s].query /\ drv'[s].focus = drv[s].focus
        /\ (drv[s].async => stmt[s].enabled) => (drv'[s].async => stmt'[s].enabled)
    BY <1>4, ExecuteChanges
  <2> QED BY <2>1, SoundKept
<1>5. CASE Complete(s)
  <2>1. /\ UNCHANGED <<stmt, tvp, handles>> /\ drv'[s].query = drv[s].query
        /\ drv'[s].focus = drv[s].focus /\ drv'[s].async = drv[s].async
    BY <1>5, CompleteChanges
  <2> QED BY <2>1, SoundKept
<1>6. ASSUME NEW q \in Queries PROVE q \in {"plain", "table"}
  BY QueryTypes
<1> QED BY <1>1, <1>2, <1>3, <1>4, <1>5, <1>6 DEF Executing

\* prepare_bind() of a statement whose table has not the focus describes the
\* parameter as the driver would.
LEMMA DescribedRight ==
  ASSUME TypeOK, NEW s \in Stmts, Sound(s), "undescribed" \notin Risks, ~stmt[s].openTvp,
         NEW p \in PrepareBind(stmt[s], drv[s])
  PROVE  /\ ~p.throws /\ p.st.open = stmt[s].open /\ p.st.openTvp = stmt[s].openTvp
         /\ p.st.tvps = stmt[s].tvps /\ p.st.descr = drv[s].query /\ ~drv[s].focus
         /\ p.d.query = drv[s].query /\ ~p.d.focus /\ p.d.sent = drv[s].sent
         /\ p.d.bound.heard = drv[s].bound.heard
         /\ p.d.bound.state = IF drv[s].bound.state = "none" THEN "none" ELSE "released"
         /\ p.d.async => p.st.enabled
<1>1. stmt[s] \in StmtStates /\ drv[s] \in DrvStates
  BY DEF TypeOK
<1>2. /\ p.st.open = stmt[s].open /\ p.st.openTvp = stmt[s].openTvp /\ p.st.tvps = stmt[s].tvps
      /\ p.d.query = drv[s].query /\ p.d.focus = drv[s].focus /\ p.d.sent = drv[s].sent
      /\ p.d.bound.heard = drv[s].bound.heard
      /\ (drv[s].async => stmt[s].enabled) => (p.d.async => p.st.enabled)
      /\ ~p.throws
      /\ p.st.descr = IF stmt[s].descr # "none" THEN stmt[s].descr ELSE Describe(drv[s])
      /\ p.d.bound.state = IF drv[s].bound.state = "none" THEN "none" ELSE "released"
  BY <1>1, PrepareBindMeans
<1>3. ~drv[s].focus
  BY DEF Sound, TableInv
<1>4. p.st.descr = drv[s].query
  BY <1>2, <1>3 DEF Describe, Sound, OpenInv
<1> QED BY <1>2, <1>3, <1>4 DEF Sound

\* bind() and its kin, seen from their statement.
LEMMA SoundParameters ==
  ASSUME TypeOK, NEW s \in Stmts, Sound(s), conn'.connected = conn.connected,
         "undescribed" \notin Risks, "focus" \notin Risks, Ask(s) \/ Parameters(s)
  PROVE  Sound(s)'
<1>1. ASSUME NEW kind, NEW how, NEW null \in Rows, Bind(s, kind, how, null) PROVE Sound(s)'
  <2>1. ~stmt[s].openTvp
    BY <1>1 DEF Bind
  <2>2. UNCHANGED <<tvp, handles>> /\ drv'[s].query = drv[s].query /\ drv'[s].focus = drv[s].focus
    BY <1>1, BindMeans
  <2>3. PICK p \in PrepareBind(stmt[s], drv[s]) : stmt'[s] = p.st /\ drv'[s].async = p.d.async
    BY <1>1, BindMeans
  <2>4. /\ p.st.open = stmt[s].open /\ p.st.openTvp = stmt[s].openTvp /\ p.st.descr = drv[s].query
        /\ p.d.async => p.st.enabled
    BY <2>1, DescribedRight
  <2> QED BY <2>2, <2>3, <2>4, SoundKept
<1>2. ASSUME BindNull(s) PROVE Sound(s)'
  <2>1. ~stmt[s].openTvp
    BY <1>2 DEF BindNull
  <2>2. UNCHANGED <<tvp, handles>> /\ drv'[s].query = drv[s].query /\ drv'[s].focus = drv[s].focus
    BY <1>2, BindNullMeans
  <2>3. PICK p \in PrepareBind(stmt[s], drv[s]) : stmt'[s] = p.st /\ drv'[s].async = p.d.async
    BY <1>2, BindNullMeans
  <2>4. /\ p.st.open = stmt[s].open /\ p.st.openTvp = stmt[s].openTvp /\ p.st.descr = drv[s].query
        /\ p.d.async => p.st.enabled
    BY <2>1, DescribedRight
  <2> QED BY <2>2, <2>3, <2>4, SoundKept
<1>3. CASE Reset(s)
  <2>1. /\ UNCHANGED <<tvp, handles>>
        /\ stmt'[s].open = stmt[s].open /\ stmt'[s].descr = "none"
        /\ stmt'[s].openTvp = stmt[s].openTvp /\ stmt'[s].enabled = stmt[s].enabled
        /\ drv'[s].query = drv[s].query /\ drv'[s].focus = drv[s].focus
        /\ drv'[s].async = drv[s].async
    BY <1>3, ResetChanges
  <2> QED BY <2>1, SoundKept
<1>4. CASE DescribeParameters(s)
  <2>1. /\ UNCHANGED <<tvp, handles>>
        /\ stmt'[s].open = stmt[s].open /\ stmt'[s].descr = drv[s].query
        /\ stmt'[s].openTvp = stmt[s].openTvp /\ stmt'[s].enabled = stmt[s].enabled
        /\ drv'[s] = drv[s]
    BY <1>4, DescribeChanges
  <2> QED BY <2>1, SoundKept
<1>5. CASE Ask(s)
  <2>1. /\ UNCHANGED <<tvp, handles>>
        /\ stmt'[s].open = stmt[s].open /\ stmt'[s].descr = stmt[s].descr
        /\ stmt'[s].openTvp = stmt[s].openTvp
        /\ drv'[s].query = drv[s].query /\ drv'[s].focus = drv[s].focus
        /\ (drv[s].async => stmt[s].enabled) => (drv'[s].async => stmt'[s].enabled)
    BY <1>5, AskChanges
  <2> QED BY <2>1, SoundKept
<1> QED BY <1>1, <1>2, <1>3, <1>4, <1>5 DEF Parameters

\* A step of the table, seen from the statement it is of.
LEMMA SoundTables ==
  ASSUME TypeOK, SoundInv, conn'.connected = conn.connected,
         "undescribed" \notin Risks, "focus" \notin Risks, Tables
  PROVE  SoundInv'
<1>0. "none" \notin Stmts /\ \A r \in Stmts : Sound(r)
  BY SoundMeans, StatementAssumption
<1>s. PICK s \in Stmts \union {"none"} : s = tvp.of
  BY DEF TypeOK, TvpStates
<1>1. CASE TvpClose
  <2>1. Changes(s) /\ ~tvp'.open /\ tvp'.of = s /\ handles' = handles
    BY <1>s, <1>1, TvpCloseChanges
  <2>2. ASSUME s \in Stmts PROVE Sound(s)'
    <3>1. /\ ~stmt'[s].openTvp /\ stmt'[s].open = stmt[s].open /\ stmt'[s].descr = stmt[s].descr
          /\ stmt'[s].enabled = stmt[s].enabled
          /\ drv'[s].query = drv[s].query /\ drv'[s].async = drv[s].async
          /\ tvp.rows > 0 => ~drv'[s].focus
          /\ drv'[s].focus => drv[s].focus
      BY <1>s, <1>1, <2>2, TvpCloseChanges
    <3> QED BY <1>0, <2>1, <2>2, <3>1 DEF Sound, OpenInv, TableInv
  <2> QED BY <2>1, <2>2, SoundFrame
<1>2. CASE TvpDrop /\ tvp.kept
  <2>1. /\ Changes(s) /\ UNCHANGED <<stmt, drv, handles>> /\ tvp'.open = tvp.open
        /\ tvp'.of = s /\ tvp'.rows = tvp.rows
    BY <1>s, <1>2, TvpDropChanges
  <2>2. ASSUME s \in Stmts PROVE Sound(s)'
    BY <1>0, <1>s, <2>1, <2>2 DEF Sound, OpenInv, TableInv
  <2> QED BY <2>1, <2>2, SoundFrame
<1>3. CASE TvpDrop /\ ~tvp.kept
  <2>1. Changes(s) /\ handles' = handles /\ tvp' = NoTvp
    BY <1>s, <1>3, TvpDropChanges
  <2>2. ASSUME s \in Stmts PROVE Sound(s)'
    <3>1. /\ drv'[s] = DropTable(drv[s]) /\ stmt'[s].open = stmt[s].open
          /\ stmt'[s].descr = stmt[s].descr /\ stmt'[s].enabled = stmt[s].enabled
          /\ stmt'[s].openTvp => stmt[s].openTvp /\ ~tvp.open
      BY <1>s, <1>3, <2>2, TvpDropChanges
    <3>2. drv[s] \in DrvStates
      BY <2>2 DEF TypeOK
    <3>3. ~drv'[s].focus /\ drv'[s].query = drv[s].query /\ drv'[s].async = drv[s].async
      BY <3>1, <3>2, DropMeans
    <3>4. ~tvp'.open
      BY <2>1 DEF NoTvp
    <3> QED BY <1>0, <2>1, <2>2, <3>1, <3>3, <3>4 DEF Sound, OpenInv, TableInv
  <2> QED BY <2>1, <2>2, SoundFrame
<1>4. CASE TvpDescribe
  <2>1. /\ Changes(s) /\ UNCHANGED <<stmt, drv, handles>> /\ tvp'.open = tvp.open
        /\ tvp'.of = s /\ tvp'.rows = tvp.rows
    BY <1>s, <1>4, TvpDescribeChanges
  <2>2. ASSUME s \in Stmts PROVE Sound(s)'
    BY <1>0, <1>s, <2>1, <2>2 DEF Sound, OpenInv, TableInv
  <2> QED BY <2>1, <2>2, SoundFrame
<1>5. ASSUME NEW r \in Stmts, NEW rows \in 0..MaxBatch, TvpOpen(r, rows) PROVE SoundInv'
  <2>1. Changes(r) /\ handles' = handles
    BY <1>5, TvpOpenChanges
  <2>2. PICK p \in PrepareBind(stmt[r], drv[r]), throws \in BOOLEAN : Opening(r, rows, p, throws)
    BY <1>5, TvpOpenChanges
  <2>3. ~stmt[r].openTvp
    BY <1>5 DEF TvpOpen
  <2>4. /\ p.st.open = stmt[r].open /\ p.st.openTvp = stmt[r].openTvp /\ p.st.descr = drv[r].query
        /\ p.d.query = drv[r].query /\ ~p.d.focus /\ (p.d.async => p.st.enabled)
    BY <1>0, <2>3, DescribedRight
  <2>5. Sound(r)
    BY <1>0
  <2>6. CASE stmt'[r] = p.st /\ drv'[r] = p.d /\ tvp' = tvp
    <3>1. Sound(r)'
      BY <2>1, <2>3, <2>4, <2>5, <2>6 DEF Sound, OpenInv, TableInv
    <3> QED BY <2>1, <3>1, SoundFrame
  <2>7. CASE ~(stmt'[r] = p.st /\ drv'[r] = p.d /\ tvp' = tvp)
    <3>1. /\ stmt'[r].open = p.st.open /\ stmt'[r].descr = p.st.descr
          /\ stmt'[r].enabled = p.st.enabled /\ stmt'[r].openTvp
          /\ tvp'.open /\ tvp'.of = r /\ tvp'.rows = rows
          /\ drv'[r].query = p.d.query /\ drv'[r].async = p.d.async
          /\ drv'[r].focus => p.d.focus \/ rows > 0
      BY <2>2, <2>7 DEF Opening
    <3>2. Sound(r)'
      BY <2>1, <2>4, <2>5, <3>1 DEF Sound, OpenInv, TableInv
    <3> QED BY <2>1, <3>2, SoundFrame
  <2> QED BY <2>6, <2>7
<1>6. ASSUME NEW n, NEW heard \in BOOLEAN, BindColumn(n, heard)
      PROVE  SoundInv'
  <2>1. /\ s \in Stmts /\ Changes(s) /\ UNCHANGED <<stmt, tvp, handles>>
        /\ drv'[s].query = drv[s].query /\ drv'[s].focus = drv[s].focus
        /\ drv'[s].async = drv[s].async
    BY <1>s, <1>6, ColumnChanges
  <2>2. Sound(s)'
    BY <1>0, <2>1, SoundKept
  <2> QED BY <2>1, <2>2, SoundFrame
<1>7. ASSUME NEW kind, NEW how, NEW null \in Rows, TvpBind(kind, how, null) PROVE SoundInv'
  BY <1>6, <1>7, HeardType DEF TvpBind
<1>8. ASSUME NEW n \in 1..MaxBatch, TvpBindNull(n) PROVE SoundInv'
  BY <1>6, <1>8 DEF TvpBindNull
<1> QED BY <1>1, <1>2, <1>3, <1>4, <1>5, <1>7, <1>8 DEF Tables

\* Every step keeps what statements believe.
LEMMA SoundStep ==
  ASSUME TypeOK, Linked, SoundInv,
         Risks \cap {"reconnect", "reprepare", "undescribed", "focus"} = {}, [Step]_vars
  PROVE  SoundInv'
<1>0. /\ "reconnect" \notin Risks /\ "reprepare" \notin Risks /\ "undescribed" \notin Risks
      /\ "focus" \notin Risks /\ ConnTypeOK /\ \A r \in Stmts : Sound(r)
  BY SoundMeans DEF TypeOK
<1>1. CASE Connection_
  <2>1. Unused /\ drv' = [r \in Stmts |-> Fresh] /\ UNCHANGED <<stmt, tvp>>
    BY <1>0, <1>1 DEF Connection_
  <2>2. handles' \in {handles, {}}
    BY <1>1 DEF Connection_, Connect, Disconnect, AsyncComplete
  <2>3. ASSUME NEW r \in Stmts PROVE Sound(r)'
    <3>1. ~stmt[r].open /\ drv'[r] = Fresh /\ stmt'[r] = stmt[r] /\ tvp' = tvp
      BY <2>1 DEF Unused
    <3>2. Sound(r)
      BY <1>0
    <3> QED BY <2>2, <3>1, <3>2, FreshMeans DEF Sound, OpenInv, TableInv
  <2> QED BY <2>3 DEF SoundInv, SyncIsSync, Sound
<1>2. CASE Below
  <2>1. conn'.connected = conn.connected /\ UNCHANGED <<handles, stmt, drv, tvp>>
    BY <1>0, <1>2, BelowSteady DEF Steady
  <2> QED BY <2>1 DEF SoundInv, SyncIsSync, OpenInv, TableInv
<1>3. CASE Tables
  <2>1. conn'.connected = conn.connected
    BY <1>0, <1>3, TableWorks, WorksSteady DEF Steady
  <2> QED BY <1>0, <1>3, <2>1, SoundTables
<1>4. ASSUME NEW s \in Stmts, Lifecycle(s) \/ Executing(s) \/ Ask(s) \/ Parameters(s)
      PROVE  SoundInv'
  <2>1. conn'.connected = conn.connected
    BY <1>0, <1>4, StatementWorks, WorksSteady DEF Steady
  <2>2. Changes(s)
    BY <1>4, StatementChanges
  <2>3. Sound(s)'
    BY <1>0, <1>4, <2>1, SoundLifecycle, SoundExecuting, SoundParameters
  <2> QED BY <2>1, <2>2, <2>3, SoundFrame
<1>5. CASE UNCHANGED vars
  BY <1>5 DEF vars, connVars, stmtVars, SoundInv, SyncIsSync, OpenInv, TableInv
<1>6. ASSUME NEW s \in Stmts, NEW told \in {"no", "off", "on"}, Tells(s, told) PROVE SoundInv'
  <2>1. conn'.connected = conn.connected
    BY <1>6 DEF Tells, connVars
  <2>2. /\ Changes(s) /\ UNCHANGED <<tvp, handles>>
        /\ stmt'[s].open = stmt[s].open /\ stmt'[s].descr = stmt[s].descr
        /\ stmt'[s].openTvp = stmt[s].openTvp
        /\ drv'[s].query = drv[s].query /\ drv'[s].focus = drv[s].focus
        /\ (drv[s].async => stmt[s].enabled) => (drv'[s].async => stmt'[s].enabled)
    BY <1>6, TellsChanges
  <2>3. Sound(s)'
    BY <1>0, <2>1, <2>2, SoundKept
  <2> QED BY <2>1, <2>2, <2>3, SoundFrame
<1> QED BY <1>1, <1>2, <1>3, <1>4, <1>5, <1>6, AnyStep DEF Telling

\* They believe nothing at first.
LEMMA SoundInit == Init => Linked /\ SoundInv
BY FreshMeans DEF Init, ConnInit, StmtInit, Linked, SoundInv, SyncIsSync, OpenInv, TableInv, NoTvp

\* What statement_impl keeps of the driver is so, for any number of statements: an
\* open one has a handle, no handle leaks, a description is that of the query
\* that is prepared, a call without an event is synchronous, and open_tvp_, the
\* table and the focus agree over every order of closing, reopening and
\* destroying them.  The application does not reconnect under a statement,
\* prepare another query on an open one or bind while a table is open, and the
\* driver can describe a parameter.
THEOREM StatementsAreSound ==
  ASSUME Risks \cap {"reconnect", "reprepare", "undescribed", "focus"} = {}
  PROVE  OdbcSpec => []StatementSound
<1>1. TypeOK /\ Linked /\ SoundInv /\ [Step]_vars => SoundInv'
  BY SoundStep
<1>2. SoundInv => StatementSound
  BY DEF SoundInv, StatementSound, HandlesLive, DescribedAsPrepared, SyncIsSync, TvpPaired,
         OpenInv, TableInv
<1> QED BY <1>1, <1>2, SoundInit, LinkedStep, TypeInit, TypeStep, OdbcSteps, PTL

-----------------------------------------------------------------------------
(* Results: the calls that move. *)

\* A result set has some rows.
LEMMA RowsType == N \in Nat /\ \A k \in Nat : (k \in DOMAIN Sets => Sets[k] \in Nat)
BY OdbcAssumption DEF N

\* The parts of what a call that moves leaves.
LEMMA MovedParts ==
  ASSUME NEW c, NEW r, NEW answer, NEW told
  PROVE  LET m == Moved(c, r, answer, told)
         IN  m.cur = c /\ m.res = r /\ m.ret = answer /\ m.told = told
BY DEF Moved

\* SQLFetchScroll lands on a row, before the first or behind the last.
Orientations == {"first", "last", "next", "prior", "absolute", "relative"}
LEMMA ScrollType ==
  ASSUME CursorTypeOK, NEW o \in Orientations, NEW k \in Nat
  PROVE  Scroll(o, k) \in 0..(N + 1)
<1> DEFINE s == cur.lo
           n == res.size
           z == N
<1>1. s \in Nat /\ n \in Nat /\ n > 0 /\ z \in Nat /\ s <= z + 1
  BY RowsType DEF CursorTypeOK, CurStates, ResStates
<1>2. /\ Scroll("first", k) = 1
      /\ Scroll("last", k) = IF z < n THEN 1 ELSE z - n + 1
      /\ Scroll("next", k) =
           LET p == IF s = 0 THEN 1 ELSE s + n IN IF p < 1 THEN 0 ELSE IF p > z THEN z + 1 ELSE p
      /\ Scroll("prior", k) = IF s = 0 \/ s = 1 THEN 0
           ELSE IF s > z THEN (IF z = 0 THEN 0 ELSE IF z < n THEN 1 ELSE z - n + 1)
           ELSE IF s <= n THEN 1 ELSE s - n
      /\ Scroll("absolute", k) = IF k < 1 THEN 0 ELSE IF k > z THEN z + 1 ELSE k
      /\ Scroll("relative", k) = IF s + k < 1 THEN 0 ELSE IF s + k > z THEN z + 1 ELSE s + k
  BY DEF Scroll
<1> HIDE DEF s, n, z
<1>3. Scroll(o, k) \in 0..(z + 1)
  BY <1>1, <1>2 DEF Orientations
<1> QED BY <1>3 DEF z

\* The rows of a rowset are a number.
LEMMA RowsFromType ==
  ASSUME CursorTypeOK, NEW lo \in 0..(N + 1) PROVE RowsFrom(lo) \in Nat
BY RowsType DEF RowsFrom, CursorTypeOK, ResStates

\* What is left of the cursor, of the result and of the answer by a call that
\* moves to lo, position and rows, or that leaves the rowset.
Keeps(m) ==
  /\ m.cur \in CurStates /\ m.cur.set = cur.set
  /\ m.res \in ResStates /\ m.res.size = res.size /\ m.res.bound = res.bound

\* fetch() that finds a rowset
Finds(m, lo) ==
  /\ Keeps(m) /\ m.cur.lo = lo /\ m.cur.got = "no" /\ ~m.cur.busy
  /\ m.res.position = 0 /\ m.res.rows = RowsFrom(lo)
  /\ m.res.atEnd <=> (res.atEnd \/ lo \notin 1..N)
  /\ m.res.nulls \subseteq Marks(lo) /\ (res.bound => m.res.nulls = Marks(lo))
  /\ m.ret = Answer(lo \in 1..N) /\ m.told = "off"

\* fetch() that throws
Throws(m) ==
  /\ Keeps(m) /\ m.cur = cur /\ m.res.position = 0 /\ m.res.rows = res.rows
  /\ m.res.atEnd = res.atEnd /\ m.ret = "error" /\ m.told \in {"off", "no"}

\* A move within the rowset
Steps(m, position, onRow) ==
  /\ Keeps(m) /\ m.cur = cur /\ m.res.position = position /\ m.res.rows = res.rows
  /\ m.res.atEnd = res.atEnd /\ m.res.nulls = res.nulls
  /\ m.ret = Answer(onRow) /\ m.told = "no"

\* Every fetch that the driver answers finds a rowset.
LEMMA FetchedMeans ==
  ASSUME CursorTypeOK, NEW o \in Orientations, NEW k \in Nat, NEW m \in Fetched(o, k)
  PROVE  Finds(m, Scroll(o, k))
<1> DEFINE lo == Scroll(o, k)
           b == BeforeMove(res)
           c == [cur EXCEPT !.lo = lo, !.got = "no", !.busy = FALSE]
           end == res.atEnd \/ lo \notin 1..N
<1>1. lo \in 0..(N + 1) /\ lo \in Nat /\ RowsFrom(lo) \in Nat
  BY ScrollType, RowsFromType, RowsType
<1>2. PICK marks \in Indicators(lo) :
        m = Moved(c, [b EXCEPT !.position = 0, !.rows = RowsFrom(lo), !.atEnd = @ \/ lo \notin 1..N,
                               !.nulls = @ \union marks], Answer(lo \in 1..N), "off")
  BY DEF Fetched
<1>3. marks \subseteq Marks(lo) /\ (res.bound => marks = Marks(lo)) /\ marks \subseteq Nat
  <2>1. Marks(lo) \subseteq Nat
    BY DEF Marks, CursorTypeOK, ResStates
  <2> QED BY <2>1 DEF Indicators
<1>4. /\ b \in ResStates /\ b.size = res.size /\ b.bound = res.bound /\ b.nulls = {}
      /\ b.atEnd = res.atEnd
  BY DEF BeforeMove, CursorTypeOK, ResStates
<1>5. end \in BOOLEAN
  BY Zenon
<1> DEFINE r == [b EXCEPT !.position = 0, !.rows = RowsFrom(lo), !.atEnd = end, !.nulls = marks]
<1>6. m = Moved(c, r, Answer(lo \in 1..N), "off")
  BY <1>2, <1>4 DEF ResStates
<1> HIDE DEF lo, b, end
<1>7. /\ r \in ResStates /\ r.size = res.size /\ r.bound = res.bound /\ r.position = 0
      /\ r.rows = RowsFrom(lo) /\ r.atEnd = end /\ r.nulls = marks
  BY <1>1, <1>3, <1>4, <1>5 DEF ResStates
<1>8. c \in CurStates /\ c.set = cur.set /\ c.lo = lo /\ c.got = "no" /\ ~c.busy
  BY <1>1 DEF CursorTypeOK, CurStates
<1> HIDE DEF c, r
<1>9. m.cur = c /\ m.res = r /\ m.ret = Answer(lo \in 1..N) /\ m.told = "off"
  BY <1>6, MovedParts
<1>10. Finds(m, lo)
  BY <1>3, <1>7, <1>8, <1>9 DEF Finds, Keeps, end
<1> QED BY <1>10 DEF lo

\* Every fetch that fails throws.
LEMMA FailedMeans ==
  ASSUME CursorTypeOK, NEW m \in Failed PROVE Throws(m)
<1> DEFINE r == [BeforeMove(res) EXCEPT !.position = 0]
<1>1. PICK told \in {"off", "no"} : m = Moved(cur, r, "error", told)
  BY DEF Failed
<1>2. /\ r \in ResStates /\ r.size = res.size /\ r.bound = res.bound /\ r.position = 0
      /\ r.rows = res.rows /\ r.atEnd = res.atEnd
  BY DEF BeforeMove, CursorTypeOK, ResStates
<1> HIDE DEF r
<1>3. m.cur = cur /\ m.res = r /\ m.ret = "error" /\ m.told = told
  BY <1>1, MovedParts
<1> QED BY <1>2, <1>3 DEF Throws, Keeps, CursorTypeOK

\* A move within the rowset changes the position.
LEMMA WithinMeans ==
  ASSUME CursorTypeOK, NEW position \in Nat, NEW onRow, NEW m \in Within(position, onRow)
  PROVE  Steps(m, position, onRow)
<1> DEFINE r == [res EXCEPT !.position = position]
<1>1. m = Moved(cur, r, Answer(onRow), "no")
  BY DEF Within
<1>2. /\ r \in ResStates /\ r.size = res.size /\ r.bound = res.bound /\ r.position = position
      /\ r.rows = res.rows /\ r.atEnd = res.atEnd /\ r.nulls = res.nulls
  BY DEF CursorTypeOK, ResStates
<1> HIDE DEF r
<1>3. m.cur = cur /\ m.res = r /\ m.ret = Answer(onRow) /\ m.told = "no"
  BY <1>1, MovedParts
<1> QED BY <1>2, <1>3 DEF Steps, Keeps, CursorTypeOK

-----------------------------------------------------------------------------
(* Where a move lands. *)

\* The rows that are promised are those of the result set.
LEMMA NearestMeans ==
  /\ Promised!Rows = N
  /\ \A k : Promised!Nearest(k) = IF k < 0 THEN 0 ELSE IF k > N THEN N + 1 ELSE k
BY DEF Promised!Rows, Promised!Nearest, N

\* The place after a call that moves.
NewPlace(m) == Place(m.cur.lo, m.res.position)

\* The invariants of places, in what a call that moves leaves.
StaysPlaced(m) ==
  /\ m.cur.lo <= N + 1 /\ m.res.position < res.size
  /\ m.res.rows = 0 => m.res.position = 0
  /\ hist.sure \/ (m.ret # "error" /\ m.told # "no") =>
       m.res.rows = RowsFrom(m.cur.lo) \/ (res.size = 1 /\ m.cur.lo = 0)

\* A call that throws leaves the place, or goes to the beginning of the rowset.
LandsBack(m) ==
  m.ret = "error" /\ NewPlace(m) \in 0..At /\ (res.size = 1 => NewPlace(m) = At)

\* A call that does not throw lands on k, if that is exact, and says so.
LandsOn(m, exact, k) ==
  /\ m.ret \in {"row", "none"} /\ NewPlace(m) \in 0..(N + 1)
  /\ exact => /\ NewPlace(m) = Promised!Nearest(k)
              /\ m.ret = IF NewPlace(m) \in 1..N THEN "row" ELSE "none"

\* Numbers and places.
LEMMA PlaceTypes ==
  ASSUME CursorTypeOK, PlaceInv
  PROVE  /\ cur.lo \in Nat /\ cur.lo <= N + 1 /\ N \in Nat
         /\ res.size \in Nat /\ res.size > 0 /\ res.rows \in Nat /\ res.position \in Nat
         /\ res.position < res.size
         /\ At \in 0..(N + 1) /\ At = Place(cur.lo, res.position)
         /\ Place(cur.lo, 0) \in 0..At
         /\ (res.size = 1 => res.position = 0 /\ At = cur.lo)
<1> DEFINE s == cur.lo
           p == res.position
           n == res.size
           z == N
<1>1. s \in Nat /\ s <= z + 1 /\ z \in Nat /\ n \in Nat /\ n > 0 /\ p \in Nat /\ p < n /\ res.rows \in Nat
  BY RowsType DEF CursorTypeOK, CurStates, ResStates, PlaceInv
<1>2. /\ At = IF s = 0 THEN 0 ELSE IF s + p > z THEN z + 1 ELSE s + p
      /\ Place(cur.lo, 0) = IF s = 0 THEN 0 ELSE IF s + 0 > z THEN z + 1 ELSE s + 0
      /\ At = Place(cur.lo, res.position)
  BY DEF At, Place
<1> HIDE DEF s, p, n, z
<1>3. At \in 0..(z + 1) /\ Place(cur.lo, 0) \in 0..At /\ (n = 1 => p = 0 /\ At = s)
  BY <1>1, <1>2
<1> QED BY <1>1, <1>2, <1>3 DEF s, p, n, z

\* fetch() that throws
LEMMA ThrowsLands ==
  ASSUME CursorTypeOK, PlaceInv, NEW m, Throws(m) PROVE LandsBack(m) /\ StaysPlaced(m)
<1>1. NewPlace(m) = Place(cur.lo, 0)
  BY DEF NewPlace, Throws
<1>2. LandsBack(m)
  BY <1>1, PlaceTypes DEF LandsBack, Throws
<1>3. StaysPlaced(m)
  BY PlaceTypes DEF StaysPlaced, Throws, PlaceInv
<1> QED BY <1>2, <1>3

\* fetch() that finds a rowset is on its first row.
LEMMA FindsLands ==
  ASSUME CursorTypeOK, PlaceInv, NEW m, NEW lo \in 0..(N + 1), Finds(m, lo)
  PROVE  /\ NewPlace(m) = lo /\ StaysPlaced(m)
         /\ m.ret = IF lo \in 1..N THEN "row" ELSE "none"
<1>1. NewPlace(m) = lo
  BY RowsType DEF NewPlace, Finds, Place
<1>2. StaysPlaced(m)
  BY PlaceTypes DEF StaysPlaced, Finds
<1> QED BY <1>1, <1>2 DEF Finds, Answer

\* Where the moves that fetch land: first(), move(), and, with rowsets of one row,
\* last(), prior() and skip()
LEMMA ScrollLands ==
  ASSUME CursorTypeOK, PlaceInv, NEW k \in Nat
  PROVE  /\ Scroll("first", 0) = Promised!Nearest(1)
         /\ Scroll("absolute", k) = Promised!Nearest(k)
         /\ res.size = 1 => /\ Scroll("last", 0) = Promised!Nearest(IF N = 0 THEN 1 ELSE N)
                            /\ Scroll("prior", 0) = Promised!Nearest(At - 1)
                            /\ Scroll("relative", k) = Promised!Nearest(At + k)
<1> DEFINE s == cur.lo
           n == res.size
           z == N
           a == At
<1>1. s \in Nat /\ s <= z + 1 /\ z \in Nat /\ n \in Nat /\ n > 0 /\ (n = 1 => a = s) /\ a \in Nat
  BY PlaceTypes
<1>2. \A x \in Int : Promised!Nearest(x) = IF x < 0 THEN 0 ELSE IF x > z THEN z + 1 ELSE x
  BY NearestMeans
<1>3. /\ Scroll("first", 0) = 1
      /\ Scroll("last", 0) = IF z < n THEN 1 ELSE z - n + 1
      /\ Scroll("prior", 0) = IF s = 0 \/ s = 1 THEN 0
           ELSE IF s > z THEN (IF z = 0 THEN 0 ELSE IF z < n THEN 1 ELSE z - n + 1)
           ELSE IF s <= n THEN 1 ELSE s - n
      /\ Scroll("absolute", k) = IF k < 1 THEN 0 ELSE IF k > z THEN z + 1 ELSE k
      /\ Scroll("relative", k) = IF s + k < 1 THEN 0 ELSE IF s + k > z THEN z + 1 ELSE s + k
  BY DEF Scroll
<1> HIDE DEF s, n, z, a
<1>4. Scroll("first", 0) = Promised!Nearest(1) /\ Scroll("absolute", k) = Promised!Nearest(k)
  BY <1>1, <1>2, <1>3
<1>5. ASSUME n = 1 PROVE Scroll("last", 0) = Promised!Nearest(IF z = 0 THEN 1 ELSE z)
  BY <1>1, <1>2, <1>3, <1>5
<1>6. ASSUME n = 1 PROVE Scroll("prior", 0) = Promised!Nearest(a - 1)
  BY <1>1, <1>2, <1>3, <1>5, <1>6
<1>7. ASSUME n = 1 PROVE Scroll("relative", k) = Promised!Nearest(a + k)
  BY <1>1, <1>2, <1>3, <1>5, <1>7
<1> QED BY <1>4, <1>5, <1>6, <1>7 DEF n, z, a

\* next() that leaves the rowset lands on the row after it.
LEMMA NextLands ==
  ASSUME CursorTypeOK, PlaceInv, hist.sure, ~Inside(res.position + 1)
  PROVE  Scroll("next", 0) = Promised!Nearest(At + 1)
<1> DEFINE s == cur.lo
           n == res.size
           z == N
           p == res.position
           rows == res.rows
<1>1. /\ s \in Nat /\ s <= z + 1 /\ z \in Nat /\ n \in Nat /\ n > 0 /\ p \in Nat /\ p < n /\ rows \in Nat
  BY PlaceTypes
<1>2. Promised!Nearest(At + 1) = IF At + 1 < 0 THEN 0 ELSE IF At + 1 > z THEN z + 1 ELSE At + 1
  BY NearestMeans
<1>3. /\ At = IF s = 0 THEN 0 ELSE IF s + p > z THEN z + 1 ELSE s + p
      /\ Scroll("next", 0) =
           LET x == IF s = 0 THEN 1 ELSE s + n IN IF x < 1 THEN 0 ELSE IF x > z THEN z + 1 ELSE x
  BY DEF At, Place, Scroll
<1>4. rows = 0 \/ p + 1 >= n
  BY <1>1 DEF Inside
<1>5. rows = (IF s \notin 1..z THEN 0 ELSE IF z - s + 1 < n THEN z - s + 1 ELSE n) \/ (n = 1 /\ s = 0)
  BY DEF PlaceInv, RowsFrom
<1> HIDE DEF s, n, z, p, rows
<1>6. s = 0 \/ s = z + 1 \/ p = n - 1
  BY <1>1, <1>4, <1>5
<1> QED BY <1>1, <1>2, <1>3, <1>6

\* A move within the rowset of a known place
LEMMA StepLands ==
  ASSUME CursorTypeOK, PlaceInv, NEW k \in Nat \ {0}, Inside(res.position + k),
         NEW m \in Within(res.position + k, res.position + k < res.rows)
  PROVE  LandsOn(m, hist.sure, At + k) /\ StaysPlaced(m)
<1> DEFINE s == cur.lo
           n == res.size
           z == N
           p == res.position
           rows == res.rows
           on == p + k < rows
<1>1. /\ s \in Nat /\ s <= z + 1 /\ z \in Nat /\ n \in Nat /\ n > 0 /\ p \in Nat /\ p < n /\ rows \in Nat
  BY PlaceTypes
<1>2. Steps(m, p + k, on)
  <2>1. p + k \in Nat
    BY <1>1
  <2> QED BY <2>1, WithinMeans
<1>3. rows > 0 /\ p + k < n
  BY DEF Inside
<1>4. NewPlace(m) = IF s = 0 THEN 0 ELSE IF s + (p + k) > z THEN z + 1 ELSE s + (p + k)
  BY <1>2 DEF NewPlace, Place, Steps
<1>5. m.ret = (IF on THEN "row" ELSE "none") /\ m.told = "no"
  BY <1>2 DEF Steps, Answer
<1>6. At = IF s = 0 THEN 0 ELSE IF s + p > z THEN z + 1 ELSE s + p
  BY DEF At, Place
<1>7. Promised!Nearest(At + k) = IF At + k < 0 THEN 0 ELSE IF At + k > z THEN z + 1 ELSE At + k
  BY NearestMeans
<1>8. hist.sure =>
        rows = (IF s \notin 1..z THEN 0 ELSE IF z - s + 1 < n THEN z - s + 1 ELSE n) \/ (n = 1 /\ s = 0)
  BY DEF PlaceInv, RowsFrom
<1>9. StaysPlaced(m)
  BY <1>1, <1>2, <1>3, <1>5 DEF StaysPlaced, Steps, PlaceInv
<1>10. m.ret \in {"row", "none"}
  BY <1>5
<1>11. hist.sure => s \in 1..z /\ rows <= n /\ rows <= z - s + 1 /\ (rows = n \/ rows = z - s + 1)
  <2> HIDE DEF s, n, z, p, rows, on
  <2> QED BY <1>1, <1>3, <1>8
<1>12. NewPlace(m) \in 0..(z + 1)
  <2> HIDE DEF s, n, z, p, rows, on
  <2> QED BY <1>1, <1>4
<1>13. ASSUME hist.sure
       PROVE  /\ NewPlace(m) = Promised!Nearest(At + k)
              /\ on <=> NewPlace(m) \in 1..z
  <2> HIDE DEF s, n, z, p, rows
  <2>1. s + (p + k) > z <=> ~on
    BY <1>1, <1>3, <1>11, <1>13
  <2> HIDE DEF on
  <2> QED BY <1>1, <1>3, <1>4, <1>6, <1>7, <1>11, <1>13, <2>1
<1> QED BY <1>5, <1>9, <1>10, <1>12, <1>13 DEF LandsOn

\* What is kept by each of the three.
Ends(m) ==
  \/ Throws(m)
  \/ \E lo \in 0..(N + 1) : Finds(m, lo)
  \/ \E position \in 0..(res.size - 1) : Steps(m, position, TRUE) \/ Steps(m, position, FALSE)

\* Where each of the calls lands that did not throw.
Lands(op, k, m) ==
  /\ op = "first" => LandsOn(m, TRUE, 1) /\ m.told = "off"
  /\ op = "last" => LandsOn(m, res.size = 1, IF N = 0 THEN 1 ELSE N)
  /\ op = "next" => LandsOn(m, hist.sure, At + 1)
  /\ op = "prior" => LandsOn(m, res.size = 1, At - 1)
  /\ op = "move" => LandsOn(m, TRUE, k) /\ m.told = "off"
  /\ op = "skip" => LandsOn(m, res.size = 1, At + k)

\* A call that moves ends well.
Good(op, k, m) == Ends(m) /\ StaysPlaced(m) /\ (LandsBack(m) \/ Lands(op, k, m))

\* fetch()
LEMMA FetchLands ==
  ASSUME CursorTypeOK, PlaceInv, NEW o \in Orientations, NEW k \in Nat, NEW up,
         NEW m \in Fetch(o, k, up)
  PROVE  /\ Ends(m) /\ StaysPlaced(m)
         /\ \/ LandsBack(m)
            \/ /\ m.told = "off" /\ Scroll(o, k) \in 0..(N + 1) /\ NewPlace(m) = Scroll(o, k)
               /\ m.ret = IF Scroll(o, k) \in 1..N THEN "row" ELSE "none"
<1>1. CASE m \in Failed
  BY <1>1, FailedMeans, ThrowsLands DEF Ends
<1>2. CASE m \in Fetched(o, k)
  <2>1. Finds(m, Scroll(o, k)) /\ Scroll(o, k) \in 0..(N + 1)
    BY <1>2, FetchedMeans, ScrollType
  <2>2. m.told = "off"
    BY <2>1 DEF Finds
  <2> QED BY <2>1, <2>2, FindsLands DEF Ends
<1> QED BY <1>1, <1>2 DEF Fetch

\* A fetch that lands on the row k that is meant, if that is exact, lands well.
LEMMA FetchLandsOn ==
  ASSUME CursorTypeOK, PlaceInv, NEW o \in Orientations, NEW k \in Nat, NEW up,
         NEW m \in Fetch(o, k, up), NEW exact, NEW to, exact => Scroll(o, k) = Promised!Nearest(to)
  PROVE  /\ Ends(m) /\ StaysPlaced(m)
         /\ LandsBack(m) \/ (LandsOn(m, exact, to) /\ m.told = "off")
BY FetchLands DEF LandsOn

\* A move within the rowset keeps its kind.
LEMMA WithinEnds ==
  ASSUME CursorTypeOK, PlaceInv, NEW position \in 0..(res.size - 1), NEW onRow \in BOOLEAN,
         NEW m \in Within(position, onRow)
  PROVE  Ends(m) /\ Steps(m, position, onRow)
<1>1. position \in Nat
  BY PlaceTypes
<1> QED BY <1>1, WithinMeans DEF Ends

\* A comparison is true or false.
LEMMA LessType == ASSUME NEW a \in Int, NEW b \in Int PROVE (a < b) \in BOOLEAN
OBVIOUS

\* next() and skip() within the rowset
LEMMA InsideLands ==
  ASSUME CursorTypeOK, PlaceInv, NEW k \in Nat \ {0}, Inside(res.position + k),
         NEW m \in Within(res.position + k, res.position + k < res.rows)
  PROVE  Ends(m) /\ StaysPlaced(m) /\ LandsOn(m, hist.sure, At + k)
<1>1. res.position + k \in 0..(res.size - 1)
  BY PlaceTypes DEF Inside
<1>2. (res.position + k < res.rows) \in BOOLEAN
  BY PlaceTypes, LessType
<1> QED BY <1>1, <1>2, StepLands, WithinEnds

\* prior() within the rowset
LEMMA BackLands ==
  ASSUME CursorTypeOK, PlaceInv, res.rows > 0, res.position >= 1,
         NEW m \in Within(res.position - 1, TRUE)
  PROVE  Ends(m) /\ StaysPlaced(m) /\ LandsOn(m, res.size = 1, At - 1)
<1>1. res.position - 1 \in 0..(res.size - 1) /\ res.size # 1
  BY PlaceTypes
<1>2. Ends(m) /\ Steps(m, res.position - 1, TRUE)
  BY <1>1, WithinEnds
<1>3. NewPlace(m) = Place(cur.lo, res.position - 1) /\ m.ret = "row"
  BY <1>2 DEF Steps, NewPlace, Answer
<1>4. NewPlace(m) \in 0..(N + 1)
  BY <1>3, PlaceTypes DEF Place
<1>5. StaysPlaced(m)
  BY <1>2, PlaceTypes DEF StaysPlaced, Steps, PlaceInv
<1> QED BY <1>1, <1>2, <1>3, <1>4, <1>5 DEF LandsOn

\* Each call that moves ends well, whatever the driver answers.
LEMMA MovesLand ==
  ASSUME CursorTypeOK, PlaceInv, NEW op \in {"first", "last", "next", "prior", "move", "skip"},
         NEW k \in Nat, op = "skip" => k > 0, NEW up, NEW m \in Moves(op, k, up)
  PROVE  Good(op, k, m)
<1>0. 0 \in Nat /\ 1 \in Nat \ {0}
  OBVIOUS
<1>1. CASE op = "first"
  <2>1. m \in Fetch("first", 0, up)
    BY <1>1 DEF Moves
  <2>2. "first" \in Orientations /\ Scroll("first", 0) = Promised!Nearest(1)
    BY ScrollLands DEF Orientations
  <2>3. /\ Ends(m) /\ StaysPlaced(m)
        /\ LandsBack(m) \/ (LandsOn(m, TRUE, 1) /\ m.told = "off")
    BY <1>0, <2>1, <2>2, FetchLandsOn
  <2> QED BY <1>1, <2>3 DEF Good, Lands
<1>2. CASE op = "last"
  <2>1. m \in Fetch("last", 0, up)
    BY <1>2 DEF Moves
  <2>2. "last" \in Orientations
        /\ (res.size = 1 => Scroll("last", 0) = Promised!Nearest(IF N = 0 THEN 1 ELSE N))
    BY ScrollLands DEF Orientations
  <2>3. /\ Ends(m) /\ StaysPlaced(m)
        /\ LandsBack(m) \/ LandsOn(m, res.size = 1, IF N = 0 THEN 1 ELSE N)
    BY <1>0, <2>1, <2>2, FetchLandsOn
  <2> QED BY <1>2, <2>3 DEF Good, Lands
<1>3. CASE op = "next"
  <2>1. CASE Inside(res.position + 1)
    <3>1. m \in Within(res.position + 1, res.position + 1 < res.rows)
      BY <1>3, <2>1 DEF Moves, NextRow
    <3>2. Ends(m) /\ StaysPlaced(m) /\ LandsOn(m, hist.sure, At + 1)
      BY <1>0, <2>1, <3>1, InsideLands
    <3> QED BY <1>3, <3>2 DEF Good, Lands
  <2>2. CASE ~Inside(res.position + 1)
    <3>1. m \in Fetch("next", 0, up)
      BY <1>3, <2>2 DEF Moves, NextRow
    <3>2. "next" \in Orientations /\ (hist.sure => Scroll("next", 0) = Promised!Nearest(At + 1))
      BY <2>2, NextLands DEF Orientations
    <3>3. Ends(m) /\ StaysPlaced(m) /\ (LandsBack(m) \/ LandsOn(m, hist.sure, At + 1))
      BY <1>0, <3>1, <3>2, FetchLandsOn
    <3> QED BY <1>3, <3>3 DEF Good, Lands
  <2> QED BY <2>1, <2>2
<1>4. CASE op = "prior"
  <2>1. CASE res.rows > 0 /\ res.position >= 1
    <3>1. m \in Within(res.position - 1, TRUE)
      BY <1>4, <2>1 DEF Moves, PriorRow
    <3>2. Ends(m) /\ StaysPlaced(m) /\ LandsOn(m, res.size = 1, At - 1)
      BY <2>1, <3>1, BackLands
    <3> QED BY <1>4, <3>2 DEF Good, Lands
  <2>2. CASE ~(res.rows > 0 /\ res.position >= 1)
    <3>1. m \in Fetch("prior", 0, up)
      BY <1>4, <2>2 DEF Moves, PriorRow
    <3>2. "prior" \in Orientations
          /\ (res.size = 1 => Scroll("prior", 0) = Promised!Nearest(At - 1))
      BY ScrollLands DEF Orientations
    <3>3. Ends(m) /\ StaysPlaced(m) /\ (LandsBack(m) \/ LandsOn(m, res.size = 1, At - 1))
      BY <1>0, <3>1, <3>2, FetchLandsOn
    <3> QED BY <1>4, <3>3 DEF Good, Lands
  <2> QED BY <2>1, <2>2
<1>5. CASE op = "move"
  <2>1. m \in Fetch("absolute", k, up)
    BY <1>5 DEF Moves
  <2>2. "absolute" \in Orientations /\ Scroll("absolute", k) = Promised!Nearest(k)
    BY ScrollLands DEF Orientations
  <2>3. /\ Ends(m) /\ StaysPlaced(m)
        /\ LandsBack(m) \/ (LandsOn(m, TRUE, k) /\ m.told = "off")
    BY <2>1, <2>2, FetchLandsOn
  <2> QED BY <1>5, <2>3 DEF Good, Lands
<1>6. CASE op = "skip"
  <2>0. k \in Nat \ {0}
    BY <1>6
  <2>1. CASE Inside(res.position + k)
    <3>1. m \in Within(res.position + k, res.position + k < res.rows)
      BY <1>6, <2>1 DEF Moves, SkipRows
    <3>2. Ends(m) /\ StaysPlaced(m) /\ LandsOn(m, hist.sure, At + k)
      BY <2>0, <2>1, <3>1, InsideLands
    <3>3. LandsOn(m, res.size = 1, At + k)
      BY <3>2 DEF LandsOn, PlaceInv
    <3> QED BY <1>6, <3>2, <3>3 DEF Good, Lands
  <2>2. CASE ~Inside(res.position + k)
    <3>1. m \in Fetch("relative", k, up)
      BY <1>6, <2>2 DEF Moves, SkipRows
    <3>2. "relative" \in Orientations
          /\ (res.size = 1 => Scroll("relative", k) = Promised!Nearest(At + k))
      BY ScrollLands DEF Orientations
    <3>3. Ends(m) /\ StaysPlaced(m) /\ (LandsBack(m) \/ LandsOn(m, res.size = 1, At + k))
      BY <3>1, <3>2, FetchLandsOn
    <3> QED BY <1>6, <3>3 DEF Good, Lands
  <2> QED BY <2>1, <2>2
<1> QED BY <1>1, <1>2, <1>3, <1>4, <1>5, <1>6

-----------------------------------------------------------------------------
(* The steps of a result, and the steps that are promised. *)

\* The place that the application sees.
SeenAt == IF hist.asked = "no" THEN At ELSE hist.was

\* A step that the application does not see.
Unseen == /\ cur'.set = cur.set /\ SeenAt' = SeenAt /\ ret' = ret /\ hist'.op = hist.op
          /\ res'.size = res.size /\ hist'.sure = hist.sure

\* The invariants, and what a step of a result shows of them.
RowInv == CursorTypeOK /\ PlaceInv /\ AsyncInv /\ NullInv
RowStep == RowInv' /\ (Promised!Next \/ Unseen)

\* To(k) and Anywhere, of what result_impl does.
LEMMA PromisedPlace ==
  ASSUME NEW exact \in BOOLEAN, NEW k, SeenAt' \in 0..(N + 1), ret' \in {"row", "none", "error"},
         hist'.sure \in {hist.sure, TRUE},
         exact => /\ SeenAt' = Promised!Nearest(k)
                  /\ ret' = IF SeenAt' \in 1..N THEN "row" ELSE "none"
  PROVE  Promised!Exactly(exact, k) /\ (exact => Promised!To(k))
BY NearestMeans DEF Promised!Exactly, Promised!To, Promised!Anywhere, SeenAt

\* A call that moved and did not throw is the one that is promised.
LEMMA PromisedCall ==
  ASSUME CursorTypeOK, PlaceInv, NEW op \in {"first", "last", "next", "prior", "move", "skip"},
         NEW k \in Nat, NEW m, Lands(op, k, m), hist.asked = "no",
         op \in {"move", "skip"} \/ k = 0,
         SeenAt' = NewPlace(m), ret' = m.ret, hist'.op = <<op, k>>,
         hist'.sure \in {hist.sure, TRUE}, m.told = "off" => hist'.sure,
         cur'.set = cur.set, res'.size = res.size
  PROVE  Promised!Next
<1>0. SeenAt = At /\ hist.sure \in BOOLEAN /\ (res.size = 1) \in BOOLEAN
  <2>1. SeenAt = At
    BY DEF SeenAt
  <2>2. hist.sure \in BOOLEAN
    BY DEF CursorTypeOK, HistStates
  <2>3. (res.size = 1) \in BOOLEAN
    BY Zenon
  <2> QED BY <2>1, <2>2, <2>3
<1>1. ASSUME NEW exact \in BOOLEAN, NEW x, LandsOn(m, exact, x)
      PROVE  Promised!Exactly(exact, x) /\ (exact => Promised!To(x))
  <2>1. /\ SeenAt' \in 0..(N + 1) /\ ret' \in {"row", "none", "error"}
        /\ exact => /\ SeenAt' = Promised!Nearest(x)
                    /\ ret' = IF SeenAt' \in 1..N THEN "row" ELSE "none"
    BY <1>1 DEF LandsOn
  <2> QED BY <2>1, PromisedPlace
<1>2. CASE op = "first"
  <2>1. Promised!To(1) /\ hist'.sure /\ hist'.op = <<"first", 0>>
    BY <1>1, <1>2 DEF Lands
  <2> QED BY <2>1 DEF Promised!Next, Promised!Absolute
<1>3. CASE op = "move"
  <2>1. Promised!To(k) /\ hist'.sure
    BY <1>1, <1>3 DEF Lands
  <2>2. hist'.op[1] = "move" /\ hist'.op[2] = k
    BY <1>3
  <2> QED BY <2>1, <2>2 DEF Promised!Next, Promised!Absolute
<1>4. CASE op = "next"
  <2>1. Promised!Exactly(hist.sure, SeenAt + 1) /\ hist'.op = <<"next", 0>>
    BY <1>0, <1>1, <1>4 DEF Lands
  <2> QED BY <2>1 DEF Promised!Next, Promised!Relative, SeenAt
<1>5. CASE op = "prior"
  <2>1. Promised!Exactly(res.size = 1, SeenAt - 1) /\ hist'.op = <<"prior", 0>>
    BY <1>0, <1>1, <1>5 DEF Lands
  <2> QED BY <2>1 DEF Promised!Next, Promised!Relative, SeenAt
<1>6. CASE op = "last"
  <2>1. Promised!Exactly(res.size = 1, IF N = 0 THEN 1 ELSE N) /\ hist'.op = <<"last", 0>>
    BY <1>0, <1>1, <1>6 DEF Lands
  <2>2. Promised!Last = IF N = 0 THEN 1 ELSE N
    BY NearestMeans DEF Promised!Last
  <2> QED BY <2>1, <2>2 DEF Promised!Next, Promised!Relative
<1>7. CASE op = "skip"
  <2>1. Promised!Exactly(res.size = 1, SeenAt + k)
    BY <1>0, <1>1, <1>7 DEF Lands
  <2>2. hist'.op[1] = "skip" /\ hist'.op[2] = k
    BY <1>7
  <2> QED BY <2>1, <2>2 DEF Promised!Next, Promised!Relative, SeenAt
<1> QED BY <1>2, <1>3, <1>4, <1>5, <1>6, <1>7

\* A call that threw, or that failed unnoticed.
LEMMA PromisedFailure ==
  ASSUME \/ hist'.op = <<"error", 0>> /\ ret' = "error"
         \/ hist'.op = <<"lost", 0>> /\ ret' \in {"row", "none"},
         SeenAt' \in 0..SeenAt, res.size = 1 => SeenAt' = SeenAt, hist'.sure = hist.sure,
         cur'.set = cur.set, res'.size = res.size
  PROVE  Promised!Next
BY DEF Promised!Next, Promised!Fail, SeenAt

\* complete_next()
LEMMA PromisedComplete ==
  ASSUME hist'.op = <<"complete", 0>>, hist'.sure = hist.sure, cur'.set = cur.set,
         res'.size = res.size, SeenAt' \in 0..(N + 1), ret' \in {"row", "none", "error"},
         res.size = 1 => /\ SeenAt' = Promised!Nearest(SeenAt + 1)
                         /\ ret' = "none" \/ (ret' = "row" /\ SeenAt' \in 1..N)
  PROVE  Promised!Next
BY NearestMeans DEF Promised!Next, Promised!Complete, SeenAt

\* Another result
LEMMA PromisedNew ==
  ASSUME NEW n \in Nat \ {0}, NewResult(n)
  PROVE  Promised!Next
<1>1. /\ cur' = FreshCur /\ ret' = "none" /\ hist' = FreshHist("new")
  BY DEF NewResult
<1>2. PICK short \in BOOLEAN : res' = FreshRes(n, short)
  BY DEF NewResult
<1>3. res'.size = n
  BY <1>2 DEF FreshRes, AutoBind
<1>4. /\ cur'.set = 1 /\ SeenAt' = 0 /\ hist'.sure /\ hist'.op = <<"new", 0>> /\ hist'.sure = TRUE
  BY <1>1 DEF FreshCur, FreshHist, SeenAt, At, Place
<1> QED BY <1>1, <1>3, <1>4 DEF Promised!Next, Promised!Renew, Promised!Fresh, SeenAt

\* A call that moved leaves numbers and a place.
LEMMA Arrives ==
  ASSUME CursorTypeOK, PlaceInv, NEW m, Ends(m), StaysPlaced(m), cur' = m.cur,
         res' \in ResStates, res'.size = m.res.size, res'.position = m.res.position,
         res'.rows = m.res.rows, hist.sure => hist'.sure,
         hist'.sure => hist.sure \/ (m.ret # "error" /\ m.told # "no")
  PROVE  /\ cur' \in CurStates /\ cur'.set = cur.set /\ res'.size = res.size
         /\ N' = N /\ cur'.lo <= N' + 1 /\ At' = NewPlace(m) /\ PlaceInv'
<1>1. Keeps(m)
  BY DEF Ends, Throws, Finds, Steps
<1>2. cur' \in CurStates /\ cur'.set = cur.set /\ res'.size = res.size
  BY <1>1 DEF Keeps
<1>3. N' = N
  BY <1>2 DEF N
<1>4. At' = NewPlace(m)
  BY <1>3 DEF At, Place, NewPlace
<1>5. cur'.lo <= N' + 1
  BY <1>3 DEF StaysPlaced
<1>6. RowsFrom(cur.lo)' = RowsFrom(m.cur.lo)
  BY <1>2, <1>3 DEF RowsFrom
<1>7. PlaceInv'
  BY <1>2, <1>6 DEF PlaceInv, StaysPlaced
<1> QED BY <1>2, <1>3, <1>4, <1>5, <1>7

\* The indicators after a call that moved.
LEMMA NullsArrive ==
  ASSUME CursorTypeOK, NullInv, NEW m, Ends(m), cur' = m.cur, res'.size = m.res.size,
         res'.bound = m.res.bound, res'.nulls = m.res.nulls, N' = N,
         hist'.failed <=> m.ret = "error" \/ (hist.failed /\ m.told = "no")
  PROVE  NullInv'
<1>1. CASE Throws(m)
  BY <1>1 DEF Throws, Keeps, NullInv
<1>2. ASSUME NEW lo \in 0..(N + 1), Finds(m, lo) PROVE NullInv'
  <2>1. Marks(cur.lo)' = Marks(lo)
    BY <1>2 DEF Marks, Null, Finds, Keeps
  <2> QED BY <1>2, <2>1 DEF Finds, Keeps, NullInv
<1>3. ASSUME NEW position, NEW onRow \in BOOLEAN, Steps(m, position, onRow) PROVE NullInv'
  <2>1. Marks(cur.lo)' = Marks(cur.lo)
    BY <1>3 DEF Marks, Null, Steps, Keeps
  <2>2. m.ret # "error" /\ m.told = "no"
    BY <1>3 DEF Steps, Answer
  <2>3. /\ cur' = cur /\ res'.size = res.size /\ res'.bound = res.bound /\ res'.nulls = res.nulls
    BY <1>3 DEF Steps, Keeps
  <2> QED BY <2>1, <2>2, <2>3 DEF NullInv, Null
<1> QED BY <1>1, <1>2, <1>3 DEF Ends

\* What a call that moved answers.
LEMMA EndsAnswer ==
  ASSUME NEW m, Ends(m)
  PROVE  /\ m.ret \in {"row", "none", "error"} /\ m.res \in ResStates /\ m.res.size = res.size
         /\ (m.ret = "error" <=> Throws(m)) /\ (m.cur.busy => cur.busy)
<1>1. CASE Throws(m)
  BY <1>1 DEF Throws, Keeps
<1>2. ASSUME NEW lo, Finds(m, lo)
      PROVE  /\ m.ret \in {"row", "none"} /\ m.res \in ResStates /\ m.res.size = res.size
             /\ ~m.cur.busy
  BY <1>2 DEF Finds, Keeps, Answer
<1>3. ASSUME NEW position, NEW onRow, Steps(m, position, onRow)
      PROVE  /\ m.ret \in {"row", "none"} /\ m.res \in ResStates /\ m.res.size = res.size
             /\ m.cur = cur
  BY <1>3 DEF Steps, Keeps, Answer
<1>4. ~Throws(m) => m.ret # "error" /\ m.ret \in {"row", "none"} /\ m.res \in ResStates
                    /\ m.res.size = res.size /\ (m.cur.busy => cur.busy)
  BY <1>2, <1>3 DEF Ends
<1>5. Throws(m) => m.ret = "error"
  BY DEF Throws
<1> QED BY <1>1, <1>4, <1>5

\* first(), last(), next(), prior(), move(), skip()
LEMMA MoveStep ==
  ASSUME RowInv, NEW op \in {"first", "last", "next", "prior", "move", "skip"}, NEW k \in Nat,
         op = "skip" => k > 0, op \in {"move", "skip"} \/ k = 0,
         NEW up, NEW told, MoveTo(op, k, up, told)
  PROVE  RowStep
<1>0. CursorTypeOK /\ PlaceInv /\ AsyncInv /\ NullInv /\ hist.asked = "no"
  BY DEF RowInv, MoveTo, Idle
<1>1. PICK m \in Moves(op, k, up /\ OnSet) :
        /\ cur' = m.cur /\ res' = m.res /\ ret' = m.ret
        /\ hist' = [hist EXCEPT
             !.op = IF m.ret = "error" THEN <<"error", 0>> ELSE <<op, k>>,
             !.sure = @ \/ (m.ret # "error" /\ m.told # "no"),
             !.failed = m.ret = "error" \/ (@ /\ m.told = "no")]
  BY DEF MoveTo
<1>2. Good(op, k, m)
  BY <1>0, MovesLand
<1>3. Ends(m) /\ StaysPlaced(m) /\ (LandsBack(m) \/ Lands(op, k, m))
  BY <1>2 DEF Good
<1> DEFINE o == IF m.ret = "error" THEN <<"error", 0>> ELSE <<op, k>>
           sure == hist.sure \/ (m.ret # "error" /\ m.told # "no")
           failed == m.ret = "error" \/ (hist.failed /\ m.told = "no")
<1>4. sure \in BOOLEAN /\ failed \in BOOLEAN
  BY Zenon
<1>5. o \in Calls \X Nat
  BY DEF Calls
<1>6. hist' = [hist EXCEPT !.op = o, !.sure = sure, !.failed = failed]
  BY <1>0, <1>1 DEF CursorTypeOK, HistStates
<1> HIDE DEF o, sure, failed
<1>7. /\ hist' \in HistStates /\ hist'.op = o /\ hist'.sure = sure /\ hist'.failed = failed
      /\ hist'.asked = "no"
  BY <1>0, <1>4, <1>5, <1>6 DEF CursorTypeOK, HistStates
<1>8. /\ m.ret \in {"row", "none", "error"} /\ res' \in ResStates /\ (m.cur.busy => cur.busy)
  BY <1>1, <1>3, EndsAnswer
<1>9. /\ cur' \in CurStates /\ cur'.set = cur.set /\ res'.size = res.size
      /\ N' = N /\ cur'.lo <= N' + 1 /\ At' = NewPlace(m) /\ PlaceInv'
  <2>1. (hist.sure => hist'.sure) /\ (hist'.sure => hist.sure \/ (m.ret # "error" /\ m.told # "no"))
    BY <1>7 DEF sure
  <2> QED BY <1>0, <1>1, <1>3, <1>8, <2>1, Arrives
<1>10. NullInv'
  <2>1. hist'.failed <=> m.ret = "error" \/ (hist.failed /\ m.told = "no")
    BY <1>7 DEF failed
  <2> QED BY <1>0, <1>1, <1>3, <1>9, <2>1, NullsArrive
<1>11. CursorTypeOK'
  BY <1>1, <1>7, <1>8, <1>9 DEF CursorTypeOK
<1>12. AsyncInv'
  BY <1>0, <1>1, <1>7, <1>8 DEF AsyncInv
<1>13. SeenAt' = NewPlace(m) /\ SeenAt = At
  BY <1>0, <1>7, <1>9 DEF SeenAt
<1>14. CASE m.ret = "error"
  <2>1. LandsBack(m)
    BY <1>3, <1>14 DEF Lands, LandsOn
  <2>2. hist'.op = <<"error", 0>> /\ ret' = "error" /\ (hist'.sure <=> hist.sure)
    BY <1>1, <1>7, <1>14 DEF o, sure
  <2>3. hist'.sure = hist.sure
    <3>1. hist.sure \in BOOLEAN /\ hist'.sure \in BOOLEAN
      BY <1>0, <1>7 DEF CursorTypeOK, HistStates
    <3> QED BY <2>2, <3>1
  <2>4. Promised!Next
    BY <1>9, <1>13, <2>1, <2>2, <2>3, PromisedFailure DEF LandsBack
  <2> QED BY <1>9, <1>10, <1>11, <1>12, <2>4 DEF RowStep, RowInv
<1>15. CASE m.ret # "error"
  <2>1. Lands(op, k, m)
    BY <1>3, <1>15 DEF LandsBack
  <2>2. hist'.op = <<op, k>> /\ ret' = m.ret
    BY <1>1, <1>7, <1>15 DEF o
  <2>3. hist'.sure \in {hist.sure, TRUE} /\ (m.told = "off" => hist'.sure)
    <3>1. hist.sure \in BOOLEAN /\ hist'.sure \in BOOLEAN
      BY <1>0, <1>7 DEF CursorTypeOK, HistStates
    <3>2. hist.sure => hist'.sure
      BY <1>7 DEF sure
    <3>3. m.told = "off" => hist'.sure
      BY <1>7, <1>15 DEF sure
    <3> QED BY <3>1, <3>2, <3>3
  <2>4. Promised!Next
    BY <1>0, <1>9, <1>13, <2>1, <2>2, <2>3, PromisedCall
  <2> QED BY <1>9, <1>10, <1>11, <1>12, <2>4 DEF RowStep, RowInv
<1> QED BY <1>14, <1>15

\* A call that moves is a record of four parts.
FourParts(m) == m = [cur |-> m.cur, res |-> m.res, ret |-> m.ret, told |-> m.told]

\* What Moved makes is one.
LEMMA MovedIsRecord ==
  ASSUME NEW c, NEW r, NEW answer, NEW told PROVE FourParts(Moved(c, r, answer, told))
BY DEF FourParts, Moved

\* The calls that move, but for what async_next() makes of them.
LEMMA MovedForm ==
  ASSUME NEW o, NEW k, NEW position, NEW onRow,
         NEW m \in Fetched(o, k) \union Failed \union Within(position, onRow)
  PROVE  m = [cur |-> m.cur, res |-> m.res, ret |-> m.ret, told |-> m.told]
<1>1. \E c, r, answer, told : m = Moved(c, r, answer, told)
  <2>1. CASE m \in Fetched(o, k)
    BY <2>1, Zenon DEF Fetched
  <2>2. CASE m \in Failed
    BY <2>2, Zenon DEF Failed
  <2>3. CASE m \in Within(position, onRow)
    BY <2>3, Zenon DEF Within
  <2> QED BY <2>1, <2>2, <2>3
<1>2. PICK c, r, answer, told : m = Moved(c, r, answer, told)
  BY <1>1
<1> QED BY <1>2, MovedIsRecord DEF FourParts

\* What is left of a move whose async_ is set to a.
Sets_(m, m0, a) ==
  m.cur = m0.cur /\ m.ret = m0.ret /\ m.told = m0.told /\ m.res = [m0.res EXCEPT !.async = a]

\* async_next() sets async_ only.
LEMMA AsyncForm ==
  ASSUME NEW m0, m0 = [cur |-> m0.cur, res |-> m0.res, ret |-> m0.ret, told |-> m0.told],
         NEW a, NEW m, m = [m0 EXCEPT !.res.async = a]
  PROVE  Sets_(m, m0, a)
BY DEF Sets_

\* async_next() either has moved, by next(), or has asked for a fetch.
LEMMA AskingMeans ==
  ASSUME CursorTypeOK, PlaceInv, NEW up, NEW m \in Asking(up)
  PROVE  \/ \E m0 : /\ Inside(res.position + 1) /\ Sets_(m, m0, m0.ret = "row")
                    /\ m0 \in Within(res.position + 1, res.position + 1 < res.rows)
         \/ \E m0 \in Failed : Sets_(m, m0, FALSE)
         \/ \E m0 \in Fetched("next", 0) : ~Inside(res.position + 1) /\ Sets_(m, m0, FALSE)
         \/ m = Moved([cur EXCEPT !.busy = TRUE], [BeforeMove(res) EXCEPT !.position = 0, !.async = TRUE],
                      "none", "on")
<1>1. CASE Inside(res.position + 1)
  <2>1. PICK m0 \in NextRow(up) : m = [m0 EXCEPT !.res.async = m0.ret = "row"]
    BY <1>1 DEF Asking
  <2>2. m0 \in Within(res.position + 1, res.position + 1 < res.rows)
    BY <1>1 DEF NextRow
  <2>3. Sets_(m, m0, m0.ret = "row")
    BY <2>1, <2>2, MovedForm, AsyncForm
  <2> QED BY <1>1, <2>2, <2>3
<1>2. CASE ~Inside(res.position + 1)
  <2>1. \/ m \in {[x EXCEPT !.res.async = FALSE] : x \in Failed}
        \/ m \in {[x EXCEPT !.res.async = FALSE] : x \in Fetched("next", 0)}
        \/ m = Moved([cur EXCEPT !.busy = TRUE],
                     [BeforeMove(res) EXCEPT !.position = 0, !.async = TRUE], "none", "on")
    BY <1>2 DEF Asking
  <2>2. ASSUME NEW m0 \in Failed, m = [m0 EXCEPT !.res.async = FALSE] PROVE Sets_(m, m0, FALSE)
    BY <2>2, MovedForm, AsyncForm
  <2>3. ASSUME NEW m0 \in Fetched("next", 0), m = [m0 EXCEPT !.res.async = FALSE]
        PROVE  Sets_(m, m0, FALSE)
    BY <2>3, MovedForm, AsyncForm
  <2> QED BY <1>2, <2>1, <2>2, <2>3
<1> QED BY <1>1, <1>2

\* async_next() leaves what the application sees until it is completed: m0 is the
\* move that ended, and a is async_ then.
LEMMA AsyncEnded ==
  ASSUME RowInv, hist.asked = "no", NEW m0, Ends(m0), StaysPlaced(m0), NEW a \in BOOLEAN,
         cur' = m0.cur, res' = [m0.res EXCEPT !.async = a], UNCHANGED ret,
         hist' = [hist EXCEPT !.asked = IF m0.ret = "error" THEN "lost" ELSE "yes", !.was = At,
                              !.failed = m0.ret = "error" \/ (@ /\ m0.told = "no")],
         m0.ret = "error" => ~a /\ LandsBack(m0),
         m0.ret # "error" /\ res.size = 1 =>
           /\ ~a /\ NewPlace(m0) = Promised!Nearest(At + 1)
           /\ NewPlace(m0) \in 1..N \/ m0.res.atEnd,
         a => ~cur.busy
  PROVE  RowStep
<1>0. CursorTypeOK /\ PlaceInv /\ AsyncInv /\ NullInv /\ At \in Nat
  BY PlaceTypes DEF RowInv
<1> DEFINE asked == IF m0.ret = "error" THEN "lost" ELSE "yes"
           failed == m0.ret = "error" \/ (hist.failed /\ m0.told = "no")
<1>1. failed \in BOOLEAN
  BY Zenon
<1>2. hist' = [hist EXCEPT !.asked = asked, !.was = At, !.failed = failed]
  BY <1>0 DEF CursorTypeOK, HistStates
<1> HIDE DEF failed
<1>3. /\ hist' \in HistStates /\ hist'.op = hist.op /\ hist'.sure = hist.sure
      /\ hist'.failed = failed /\ hist'.asked = asked /\ hist'.was = At
  BY <1>0, <1>1, <1>2 DEF CursorTypeOK, HistStates
<1>4. m0.res \in ResStates /\ m0.res.size = res.size /\ (m0.cur.busy => cur.busy)
  BY EndsAnswer
<1>5. /\ res' \in ResStates /\ res'.size = m0.res.size /\ res'.position = m0.res.position
      /\ res'.rows = m0.res.rows /\ res'.bound = m0.res.bound /\ res'.nulls = m0.res.nulls
      /\ (res'.async <=> a) /\ res'.atEnd = m0.res.atEnd
  BY <1>4 DEF ResStates
<1>6. /\ cur' \in CurStates /\ cur'.set = cur.set /\ res'.size = res.size
      /\ N' = N /\ cur'.lo <= N' + 1 /\ At' = NewPlace(m0) /\ PlaceInv'
  BY <1>0, <1>3, <1>5, Arrives
<1>7. NullInv'
  <2>1. hist'.failed <=> m0.ret = "error" \/ (hist.failed /\ m0.told = "no")
    BY <1>3 DEF failed
  <2> QED BY <1>0, <1>5, <1>6, <2>1, NullsArrive
<1>8. CursorTypeOK'
  BY <1>0, <1>3, <1>5, <1>6 DEF CursorTypeOK
<1>9. AsyncInv'
  <2>1. Promised!Nearest(hist.was + 1)' = Promised!Nearest(At + 1)
    BY <1>3, <1>6 DEF Promised!Nearest, Promised!Rows
  <2>2. ~cur'.busy
    BY <1>0, <1>4 DEF AsyncInv
  <2>3. CASE m0.ret = "error"
    <3>1. At' \in 0..At /\ (res.size = 1 => At' = At) /\ ~a
      BY <1>6, <2>3 DEF LandsBack
    <3> QED BY <1>0, <1>3, <1>5, <1>6, <2>2, <2>3, <3>1 DEF AsyncInv
  <2>4. CASE m0.ret # "error"
    BY <1>3, <1>5, <1>6, <2>1, <2>2, <2>4 DEF AsyncInv
  <2> QED BY <2>3, <2>4
<1>10. Unseen
  <2>1. SeenAt = At /\ SeenAt' = At
    BY <1>3 DEF SeenAt
  <2> QED BY <1>3, <1>6, <2>1 DEF Unseen
<1> QED BY <1>6, <1>7, <1>8, <1>9, <1>10 DEF RowStep, RowInv

\* async_next() that asks for a fetch, which executes.
LEMMA AsyncAsked ==
  ASSUME RowInv, hist.asked = "no", cur' = [cur EXCEPT !.busy = TRUE],
         res' = [BeforeMove(res) EXCEPT !.position = 0, !.async = TRUE], UNCHANGED ret,
         hist' = [hist EXCEPT !.asked = "yes", !.was = At, !.failed = FALSE]
  PROVE  RowStep
<1>0. CursorTypeOK /\ PlaceInv /\ AsyncInv /\ NullInv /\ At \in Nat
  BY PlaceTypes DEF RowInv
<1>1. /\ hist' \in HistStates /\ hist'.op = hist.op /\ hist'.sure = hist.sure
      /\ hist'.asked = "yes" /\ hist'.was = At
  BY <1>0 DEF CursorTypeOK, HistStates
<1>2. /\ cur' \in CurStates /\ cur'.set = cur.set /\ cur'.lo = cur.lo /\ cur'.got = cur.got /\ cur'.busy
  BY <1>0 DEF CursorTypeOK, CurStates
<1>3. /\ res' \in ResStates /\ res'.size = res.size /\ res'.position = 0 /\ res'.rows = res.rows
      /\ res'.bound = res.bound /\ res'.async /\ res'.atEnd = res.atEnd
  BY <1>0 DEF CursorTypeOK, ResStates, BeforeMove
<1>4. N' = N
  BY <1>2 DEF N
<1>5. CursorTypeOK'
  BY <1>0, <1>1, <1>2, <1>3, <1>4 DEF CursorTypeOK
<1>6. RowsFrom(cur.lo)' = RowsFrom(cur.lo)
  BY <1>2, <1>3, <1>4 DEF RowsFrom
<1>7. PlaceInv'
  BY <1>0, <1>1, <1>2, <1>3, <1>6, PlaceTypes DEF PlaceInv
<1>8. res.size = 1 => At' = At
  <2>1. At' = Place(cur.lo, 0)
    BY <1>2, <1>3, <1>4 DEF At, Place
  <2> QED BY <1>0, <2>1, PlaceTypes
<1>9. AsyncInv'
  BY <1>1, <1>2, <1>3, <1>8 DEF AsyncInv
<1>10. NullInv'
  BY <1>0, <1>2, <1>3 DEF NullInv
<1>11. Unseen
  <2>1. SeenAt = At /\ SeenAt' = At
    BY <1>1 DEF SeenAt
  <2> QED BY <1>1, <1>2, <1>3, <2>1 DEF Unseen
<1> QED BY <1>5, <1>7, <1>9, <1>10, <1>11 DEF RowStep, RowInv

\* async_next()
LEMMA AsyncStep ==
  ASSUME RowInv, NEW up, NEW told, AsyncNext(up, told) PROVE RowStep
<1>0. CursorTypeOK /\ PlaceInv /\ AsyncInv /\ NullInv /\ hist.asked = "no" /\ UNCHANGED ret
  BY DEF RowInv, AsyncNext, Idle
<1>1. PICK m \in Asking(up /\ OnSet) :
        /\ cur' = m.cur /\ res' = m.res
        /\ hist' = [hist EXCEPT !.asked = IF m.ret = "error" THEN "lost" ELSE "yes", !.was = At,
                                !.failed = m.ret = "error" \/ (@ /\ m.told = "no")]
  BY DEF AsyncNext
<1>2. ASSUME NEW m0, NEW a, Sets_(m, m0, a)
      PROVE  /\ cur' = m0.cur /\ res' = [m0.res EXCEPT !.async = a]
             /\ hist' = [hist EXCEPT !.asked = IF m0.ret = "error" THEN "lost" ELSE "yes", !.was = At,
                                     !.failed = m0.ret = "error" \/ (@ /\ m0.told = "no")]
  BY <1>1, <1>2 DEF Sets_
<1>3. 1 \in Nat \ {0} /\ 0 \in Nat /\ "next" \in Orientations
  BY DEF Orientations
<1>4. ASSUME NEW m0, Inside(res.position + 1), Sets_(m, m0, m0.ret = "row"),
             m0 \in Within(res.position + 1, res.position + 1 < res.rows)
      PROVE  RowStep
  <2>1. Ends(m0) /\ StaysPlaced(m0) /\ LandsOn(m0, hist.sure, At + 1)
    BY <1>0, <1>3, <1>4, InsideLands
  <2>2. m0.ret # "error" /\ res.size # 1 /\ (m0.ret = "row") \in BOOLEAN /\ ~cur.busy
    <3>1. m0.ret # "error"
      BY <2>1 DEF LandsOn
    <3>2. res.size # 1
      BY <1>0, <1>4, PlaceTypes DEF Inside
    <3>3. (m0.ret = "row") \in BOOLEAN
      BY Zenon
    <3> QED BY <1>0, <3>1, <3>2, <3>3 DEF AsyncInv
  <2> DEFINE a == m0.ret = "row"
  <2>3. a \in BOOLEAN
    BY <2>2
  <2>4. /\ cur' = m0.cur /\ res' = [m0.res EXCEPT !.async = a]
        /\ hist' = [hist EXCEPT !.asked = IF m0.ret = "error" THEN "lost" ELSE "yes", !.was = At,
                                !.failed = m0.ret = "error" \/ (@ /\ m0.told = "no")]
    BY <1>2, <1>4
  <2> HIDE DEF a
  <2> QED BY <1>0, <2>1, <2>2, <2>3, <2>4, AsyncEnded
<1>5. ASSUME NEW m0 \in Failed, Sets_(m, m0, FALSE) PROVE RowStep
  <2>1. Throws(m0)
    BY <1>0, FailedMeans
  <2>2. Ends(m0) /\ StaysPlaced(m0) /\ LandsBack(m0) /\ m0.ret = "error"
    BY <1>0, <2>1, ThrowsLands DEF Ends, Throws
  <2> QED BY <1>0, <1>2, <1>5, <2>2, AsyncEnded
<1>6. ASSUME NEW m0 \in Fetched("next", 0), ~Inside(res.position + 1), Sets_(m, m0, FALSE)
      PROVE  RowStep
  <2>1. Finds(m0, Scroll("next", 0)) /\ Scroll("next", 0) \in 0..(N + 1)
    BY <1>0, <1>3, FetchedMeans, ScrollType
  <2>2. NewPlace(m0) = Scroll("next", 0) /\ StaysPlaced(m0) /\ m0.ret # "error"
    BY <1>0, <2>1, FindsLands
  <2>3. Ends(m0)
    BY <2>1 DEF Ends
  <2>4. res.size = 1 => NewPlace(m0) = Promised!Nearest(At + 1)
    BY <1>0, <1>6, <2>2, NextLands DEF PlaceInv
  <2>5. NewPlace(m0) \in 1..N \/ m0.res.atEnd
    BY <2>1, <2>2 DEF Finds
  <2> QED BY <1>0, <1>2, <1>6, <2>2, <2>3, <2>4, <2>5, AsyncEnded
<1>7. ASSUME m = Moved([cur EXCEPT !.busy = TRUE],
                       [BeforeMove(res) EXCEPT !.position = 0, !.async = TRUE], "none", "on")
      PROVE  RowStep
  <2>1. /\ m.cur = [cur EXCEPT !.busy = TRUE] /\ m.ret = "none" /\ m.told = "on"
        /\ m.res = [BeforeMove(res) EXCEPT !.position = 0, !.async = TRUE]
    BY <1>7, MovedParts
  <2>2. hist' = [hist EXCEPT !.asked = "yes", !.was = At, !.failed = FALSE]
    BY <1>0, <1>1, <2>1 DEF CursorTypeOK, HistStates
  <2> QED BY <1>0, <1>1, <2>1, <2>2, AsyncAsked
<1> QED BY <1>0, <1>4, <1>5, <1>6, <1>7, AskingMeans

\* What complete_next() leaves of the history.
CompleteHist(op, failed) ==
  /\ hist' \in HistStates /\ hist'.op = <<op, 0>> /\ hist'.sure = hist.sure
  /\ hist'.asked = "no" /\ hist'.failed = failed

\* complete_next() notes the call.
LEMMA CompleteNotes ==
  ASSUME CursorTypeOK, NEW op \in Calls, NEW failed \in BOOLEAN,
         hist' = [hist EXCEPT !.asked = "no", !.op = <<op, 0>>, !.failed = failed]
  PROVE  CompleteHist(op, failed)
BY DEF CompleteHist, CursorTypeOK, HistStates

\* complete_next() that leaves the rowset: nothing was asked for, or it failed.
LEMMA CompleteStays ==
  ASSUME RowInv, hist.asked # "no", NEW busy \in BOOLEAN, cur' = [cur EXCEPT !.busy = busy], ~busy,
         res' = res, NEW op \in Calls, NEW failed \in BOOLEAN, CompleteHist(op, failed),
         ret' \in {"row", "none", "error"}, hist.failed \/ cur.busy => failed
  PROVE  /\ RowInv' /\ SeenAt' = At /\ SeenAt = hist.was /\ cur'.set = cur.set
         /\ res'.size = res.size /\ N' = N
<1>0. CursorTypeOK /\ PlaceInv /\ AsyncInv /\ NullInv
  BY DEF RowInv
<1>1. /\ cur' \in CurStates /\ cur'.set = cur.set /\ cur'.lo = cur.lo /\ cur'.got = cur.got /\ ~cur'.busy
  BY <1>0 DEF CursorTypeOK, CurStates
<1>2. N' = N
  BY <1>1 DEF N
<1>3. At' = At /\ RowsFrom(cur.lo)' = RowsFrom(cur.lo) /\ Marks(cur.lo)' = Marks(cur.lo)
  BY <1>1, <1>2 DEF At, Place, RowsFrom, Marks, Null
<1>4. CursorTypeOK'
  BY <1>0, <1>1, <1>2 DEF CursorTypeOK, CompleteHist
<1>5. PlaceInv'
  BY <1>0, <1>1, <1>3 DEF PlaceInv, CompleteHist
<1>6. AsyncInv'
  BY <1>1 DEF AsyncInv, CompleteHist
<1>7. NullInv'
  BY <1>0, <1>1, <1>2, <1>3 DEF NullInv, CompleteHist, Null
<1>8. SeenAt' = At /\ SeenAt = hist.was
  BY <1>3 DEF SeenAt, CompleteHist
<1> QED BY <1>1, <1>2, <1>4, <1>5, <1>6, <1>7, <1>8 DEF RowInv

\* complete_next() of what was not asynchronous.
LEMMA CompleteIdle ==
  ASSUME RowInv, hist.asked # "no", ~res.async, cur' = cur, res' = res, ret' = Answer(~res.atEnd),
         CompleteHist(IF hist.asked = "lost" THEN "lost" ELSE "complete", hist.failed)
  PROVE  RowStep
<1>0. CursorTypeOK /\ PlaceInv /\ AsyncInv /\ At \in 0..(N + 1)
  BY PlaceTypes DEF RowInv
<1>1. ~cur.busy /\ hist.failed \in BOOLEAN /\ FALSE \in BOOLEAN /\ hist.asked \in {"yes", "lost"}
  BY <1>0 DEF AsyncInv, CursorTypeOK, HistStates
<1>2. cur' = [cur EXCEPT !.busy = FALSE]
  BY <1>0, <1>1 DEF CursorTypeOK, CurStates
<1>3. ret' \in {"row", "none"} /\ (ret' = "row" => ~res.atEnd)
  BY DEF Answer
<1> DEFINE op == IF hist.asked = "lost" THEN "lost" ELSE "complete"
<1>4. op \in Calls
  BY DEF Calls
<1>5. CompleteHist(op, hist.failed)
  OBVIOUS
<1> HIDE DEF op
<1>6. /\ RowInv' /\ SeenAt' = At /\ SeenAt = hist.was /\ cur'.set = cur.set
      /\ res'.size = res.size /\ N' = N
  BY <1>1, <1>2, <1>3, <1>4, <1>5, CompleteStays
<1>7. hist'.op = <<op, 0>> /\ hist'.sure = hist.sure
  BY <1>5 DEF CompleteHist
<1>8. CASE hist.asked = "lost"
  <2>1. hist'.op = <<"lost", 0>>
    BY <1>7, <1>8 DEF op
  <2>2. At \in 0..hist.was /\ (res.size = 1 => At = hist.was)
    BY <1>0, <1>8 DEF AsyncInv, CursorTypeOK, HistStates
  <2>3. Promised!Next
    BY <1>3, <1>6, <1>7, <2>1, <2>2, PromisedFailure
  <2> QED BY <1>6, <2>3 DEF RowStep
<1>9. CASE hist.asked = "yes"
  <2>1. hist'.op = <<"complete", 0>>
    BY <1>7, <1>9 DEF op
  <2>2. res.size = 1 => At = Promised!Nearest(hist.was + 1) /\ (At \in 1..N \/ res.atEnd)
    BY <1>0, <1>9 DEF AsyncInv
  <2>3. Promised!Next
    BY <1>0, <1>3, <1>6, <1>7, <2>1, <2>2, PromisedComplete
  <2> QED BY <1>6, <2>3 DEF RowStep
<1> QED BY <1>1, <1>8, <1>9

\* complete_next() that throws.
LEMMA CompleteThrows ==
  ASSUME RowInv, hist.asked # "no", res.async, cur' = [cur EXCEPT !.busy = FALSE], res' = res,
         ret' = "error", NEW failed \in BOOLEAN, hist.failed \/ cur.busy => failed,
         CompleteHist(IF res.size = 1 THEN "error" ELSE "complete", failed)
  PROVE  RowStep
<1>0. CursorTypeOK /\ PlaceInv /\ AsyncInv /\ At \in 0..(N + 1)
  BY PlaceTypes DEF RowInv
<1>1. hist.asked = "yes"
  BY <1>0 DEF AsyncInv, CursorTypeOK, HistStates
<1> DEFINE op == IF res.size = 1 THEN "error" ELSE "complete"
<1>2. op \in Calls /\ FALSE \in BOOLEAN
  BY DEF Calls
<1>3. CompleteHist(op, failed)
  OBVIOUS
<1> HIDE DEF op
<1>4. /\ RowInv' /\ SeenAt' = At /\ SeenAt = hist.was /\ cur'.set = cur.set
      /\ res'.size = res.size /\ N' = N
  BY <1>2, <1>3, CompleteStays
<1>5. hist'.op = <<op, 0>> /\ hist'.sure = hist.sure
  BY <1>3 DEF CompleteHist
<1>6. CASE res.size = 1
  <2>1. hist'.op = <<"error", 0>>
    BY <1>5, <1>6 DEF op
  <2>2. At = hist.was /\ At \in 0..At
    BY <1>0, <1>1, <1>6, RowsType DEF AsyncInv
  <2>3. Promised!Next
    BY <1>4, <1>5, <2>1, <2>2, PromisedFailure
  <2> QED BY <1>4, <2>3 DEF RowStep
<1>7. CASE res.size # 1
  <2>1. hist'.op = <<"complete", 0>>
    BY <1>5, <1>7 DEF op
  <2>2. Promised!Next
    BY <1>0, <1>4, <1>5, <1>7, <2>1, PromisedComplete
  <2> QED BY <1>4, <2>2 DEF RowStep
<1> QED BY <1>6, <1>7

\* complete_next() of a fetch that executed.
LEMMA CompleteFetch ==
  ASSUME RowInv, hist.asked # "no", res.async, NEW m0 \in Fetched("next", 0), NEW a \in BOOLEAN,
         cur' = m0.cur, res' = [m0.res EXCEPT !.async = a],
         ret' = Answer(m0.ret = "row" /\ ~res.atEnd), CompleteHist("complete", FALSE)
  PROVE  RowStep
<1>0. CursorTypeOK /\ PlaceInv /\ AsyncInv /\ NullInv /\ 0 \in Nat /\ "next" \in Orientations
  BY DEF RowInv, Orientations
<1>1. hist.asked = "yes"
  BY <1>0 DEF AsyncInv, CursorTypeOK, HistStates
<1>2. Finds(m0, Scroll("next", 0)) /\ Scroll("next", 0) \in 0..(N + 1)
  BY <1>0, FetchedMeans, ScrollType
<1>3. /\ NewPlace(m0) = Scroll("next", 0) /\ StaysPlaced(m0)
      /\ m0.ret = IF Scroll("next", 0) \in 1..N THEN "row" ELSE "none"
  BY <1>0, <1>2, FindsLands
<1>4. Ends(m0) /\ ~m0.cur.busy /\ m0.told = "off" /\ m0.ret # "error"
  BY <1>2, <1>3 DEF Ends, Finds
<1>5. m0.res \in ResStates /\ m0.res.size = res.size
  BY <1>4, EndsAnswer
<1>6. /\ res' \in ResStates /\ res'.size = m0.res.size /\ res'.position = m0.res.position
      /\ res'.rows = m0.res.rows /\ res'.bound = m0.res.bound /\ res'.nulls = m0.res.nulls
  BY <1>5 DEF ResStates
<1>7. /\ hist' \in HistStates /\ hist'.op = <<"complete", 0>> /\ hist'.sure = hist.sure
      /\ hist'.asked = "no" /\ ~hist'.failed
  BY DEF CompleteHist
<1>8. /\ cur' \in CurStates /\ cur'.set = cur.set /\ res'.size = res.size
      /\ N' = N /\ cur'.lo <= N' + 1 /\ At' = NewPlace(m0) /\ PlaceInv'
  BY <1>0, <1>3, <1>4, <1>6, <1>7, Arrives
<1>9. NullInv'
  <2>1. hist'.failed <=> m0.ret = "error" \/ (hist.failed /\ m0.told = "no")
    BY <1>4, <1>7
  <2> QED BY <1>0, <1>4, <1>6, <1>8, <2>1, NullsArrive
<1>10. ret' \in {"row", "none"} /\ (ret' = "row" => m0.ret = "row")
  BY DEF Answer
<1>11. CursorTypeOK'
  BY <1>6, <1>7, <1>8, <1>10 DEF CursorTypeOK
<1>12. AsyncInv'
  BY <1>4, <1>7 DEF AsyncInv
<1>13. res.size = 1 => NewPlace(m0) = Promised!Nearest(hist.was + 1)
  <2>1. ASSUME res.size = 1 PROVE ~Inside(res.position + 1) /\ hist.sure /\ At = hist.was
    BY <1>0, <1>1, <2>1, PlaceTypes DEF Inside, PlaceInv, AsyncInv
  <2> QED BY <1>0, <1>3, <2>1, NextLands
<1>14. SeenAt' = NewPlace(m0) /\ SeenAt = hist.was
  BY <1>1, <1>7, <1>8 DEF SeenAt
<1>15. Promised!Next
  BY <1>2, <1>3, <1>7, <1>8, <1>10, <1>13, <1>14, PromisedComplete
<1> QED BY <1>8, <1>9, <1>11, <1>12, <1>15 DEF RowStep, RowInv

\* A fetch that is completed sets async_, and what is answered and told.
Finishes(m, m0, a, answer) ==
  m.cur = m0.cur /\ m.res = [m0.res EXCEPT !.async = a] /\ m.ret = answer

\* Three parts of a move are set.
LEMMA FinishForm ==
  ASSUME NEW m0, m0 = [cur |-> m0.cur, res |-> m0.res, ret |-> m0.ret, told |-> m0.told],
         NEW a, NEW answer, NEW m,
         m = [m0 EXCEPT !.res.async = a, !.told = "no", !.ret = answer]
  PROVE  Finishes(m, m0, a, answer)
BY DEF Finishes

\* complete_next() answers, throws or takes the rowset.
LEMMA CompletedMeans ==
  ASSUME NEW up, NEW m \in Completed(up)
  PROVE  \/ ~res.async /\ m.cur = cur /\ m.res = res /\ m.ret = Answer(~res.atEnd)
         \/ res.async /\ m.cur = [cur EXCEPT !.busy = FALSE] /\ m.res = res /\ m.ret = "error"
         \/ /\ res.async /\ cur.busy
            /\ \E m0 \in Fetched("next", 0) :
                 Finishes(m, m0, m0.ret = "none", Answer(m0.ret = "row" /\ ~res.atEnd))
<1>1. CASE ~res.async
  <2>1. m = Moved(cur, res, Answer(~res.atEnd), "no")
    BY <1>1 DEF Completed
  <2> QED BY <1>1, <2>1, MovedParts
<1>2. CASE res.async /\ m = Moved([cur EXCEPT !.busy = FALSE], res, "error", "no")
  BY <1>2, MovedParts
<1>3. CASE res.async /\ m # Moved([cur EXCEPT !.busy = FALSE], res, "error", "no")
  <2>1. /\ cur.busy
        /\ m \in {[x EXCEPT !.res.async = x.ret = "none", !.told = "no",
                            !.ret = Answer(@ = "row" /\ ~res.atEnd)] : x \in Fetched("next", 0)}
    BY <1>3 DEF Completed
  <2>2. PICK m0 \in Fetched("next", 0) :
          m = [m0 EXCEPT !.res.async = m0.ret = "none", !.told = "no",
                         !.ret = Answer(@ = "row" /\ ~res.atEnd)]
    BY <2>1, Zenon
  <2>3. m0 = [cur |-> m0.cur, res |-> m0.res, ret |-> m0.ret, told |-> m0.told]
    BY MovedForm
  <2> DEFINE a == m0.ret = "none"
             answer == Answer(m0.ret = "row" /\ ~res.atEnd)
  <2>4. m = [m0 EXCEPT !.res.async = a, !.told = "no", !.ret = answer]
    BY <2>2, <2>3
  <2> HIDE DEF a, answer
  <2>5. Finishes(m, m0, a, answer)
    BY <2>3, <2>4, FinishForm
  <2> QED BY <1>3, <2>1, <2>5 DEF a, answer
<1> QED BY <1>1, <1>2, <1>3

\* complete_next()
LEMMA CompleteStep ==
  ASSUME RowInv, NEW up, NEW told, CompleteNext(up, told) PROVE RowStep
<1>0. CursorTypeOK /\ AsyncInv /\ hist.asked # "no"
  BY DEF RowInv, CompleteNext, Idle
<1>1. PICK m \in Completed(up) :
        /\ cur' = m.cur /\ res' = m.res /\ ret' = m.ret
        /\ hist' = [hist EXCEPT
             !.asked = "no",
             !.op = << IF hist.asked = "lost" THEN "lost"
                       ELSE IF m.ret = "error" /\ res.size = 1 THEN "error" ELSE "complete", 0>>,
             !.failed = IF cur.busy THEN m.ret = "error" ELSE @]
  BY DEF CompleteNext
<1> DEFINE op == IF hist.asked = "lost" THEN "lost"
                 ELSE IF m.ret = "error" /\ res.size = 1 THEN "error" ELSE "complete"
           failed == IF cur.busy THEN m.ret = "error" ELSE hist.failed
<1>2. op \in Calls
  BY DEF Calls
<1>3. failed \in BOOLEAN
  <2>1. hist.failed \in BOOLEAN
    BY <1>0 DEF CursorTypeOK, HistStates
  <2>2. (m.ret = "error") \in BOOLEAN
    BY Zenon
  <2> QED BY <2>1, <2>2
<1>4. hist' = [hist EXCEPT !.asked = "no", !.op = <<op, 0>>, !.failed = failed]
  BY <1>0, <1>1 DEF CursorTypeOK, HistStates
<1> HIDE DEF op, failed
<1>5. CompleteHist(op, failed)
  BY <1>0, <1>2, <1>3, <1>4, CompleteNotes
<1>6. CASE ~res.async /\ m.cur = cur /\ m.res = res /\ m.ret = Answer(~res.atEnd)
  <2>1. m.ret # "error" /\ ~cur.busy
    BY <1>0, <1>6 DEF Answer, AsyncInv
  <2>2. op = (IF hist.asked = "lost" THEN "lost" ELSE "complete") /\ failed = hist.failed
    BY <2>1 DEF op, failed
  <2> QED BY <1>0, <1>1, <1>5, <1>6, <2>2, CompleteIdle
<1>7. CASE res.async /\ m.cur = [cur EXCEPT !.busy = FALSE] /\ m.res = res /\ m.ret = "error"
  <2>1. hist.asked # "lost"
    BY <1>0, <1>7 DEF AsyncInv
  <2>2. op = (IF res.size = 1 THEN "error" ELSE "complete") /\ (hist.failed \/ cur.busy => failed)
    BY <1>7, <2>1 DEF op, failed
  <2> QED BY <1>0, <1>1, <1>3, <1>5, <1>7, <2>2, CompleteThrows
<1>8. ASSUME res.async, cur.busy, NEW m0 \in Fetched("next", 0),
             Finishes(m, m0, m0.ret = "none", Answer(m0.ret = "row" /\ ~res.atEnd))
      PROVE  RowStep
  <2> DEFINE a == m0.ret = "none"
  <2>1. a \in BOOLEAN
    BY Zenon
  <2>2. /\ m.cur = m0.cur /\ m.res = [m0.res EXCEPT !.async = a]
        /\ m.ret = Answer(m0.ret = "row" /\ ~res.atEnd)
    BY <1>8 DEF Finishes
  <2>3. m.ret # "error" /\ hist.asked # "lost"
    BY <1>0, <1>8, <2>2 DEF Answer, AsyncInv
  <2>4. op = "complete"
    BY <2>3 DEF op
  <2>5. ~failed
    BY <1>8, <2>3 DEF failed
  <2>6. failed = FALSE
    BY <1>3, <2>5
  <2> HIDE DEF a
  <2> QED BY <1>0, <1>1, <1>5, <1>8, <2>1, <2>2, <2>4, <2>6, CompleteFetch
<1> QED BY <1>6, <1>7, <1>8, CompletedMeans

\* next_result()
LEMMA NextResultStep ==
  ASSUME RowInv, NEW up, NEW told, NextResult(up, told) PROVE RowStep
<1>0. CursorTypeOK /\ PlaceInv /\ AsyncInv /\ NullInv /\ hist.asked = "no" /\ ~cur.busy
  BY DEF RowInv, NextResult, Idle, AsyncInv
<1>1. /\ cur' \in CurStates /\ cur'.set = cur.set + 1 /\ cur'.lo = 0 /\ cur'.got = "no" /\ ~cur'.busy
  <2>1. cur' = [cur EXCEPT !.set = @ + 1, !.lo = 0, !.got = "no"]
    BY DEF NextResult
  <2>2. cur \in CurStates /\ cur.set \in Nat \ {0}
    BY <1>0 DEF CursorTypeOK, CurStates
  <2>3. PICK next \in Nat \ {0} : next = cur.set + 1
    BY <2>2
  <2>4. cur' = [cur EXCEPT !.set = next, !.lo = 0, !.got = "no"]
    BY <2>1, <2>2, <2>3 DEF CurStates
  <2> QED BY <1>0, <2>2, <2>3, <2>4 DEF CurStates
<1>2. /\ res' \in ResStates /\ res'.size = res.size /\ res'.rows = res.rows
      /\ res'.position = res.position
  <2>1. CASE res' = res
    BY <1>0, <2>1 DEF CursorTypeOK
  <2>2. CASE res' = [res EXCEPT !.bound = FALSE, !.nulls = {}]
    BY <1>0, <2>2 DEF CursorTypeOK, ResStates
  <2>3. ASSUME NEW short \in BOOLEAN, NEW garbage \in SUBSET (0..(res.size - 1)),
               res' = AutoBind(res, short, garbage)
        PROVE  /\ res' \in ResStates /\ res'.size = res.size /\ res'.rows = res.rows
               /\ res'.position = res.position
    <3>1. garbage \subseteq Nat
      OBVIOUS
    <3> QED BY <1>0, <2>3, <3>1 DEF CursorTypeOK, ResStates, AutoBind
  <2> QED BY <2>1, <2>2, <2>3 DEF NextResult
<1>3. (res.size = 1) \in BOOLEAN
  BY Zenon
<1> DEFINE sure == res.size = 1
<1>4. hist' = [hist EXCEPT !.op = <<"next_result", 0>>, !.sure = sure]
  BY DEF NextResult
<1> HIDE DEF sure
<1>5. sure \in BOOLEAN
  BY <1>3 DEF sure
<1>6. /\ hist' \in HistStates /\ hist'.op = <<"next_result", 0>> /\ hist'.sure = sure
      /\ hist'.asked = "no"
  BY <1>0, <1>4, <1>5 DEF CursorTypeOK, HistStates, Calls
<1>7. N' \in Nat
  BY OdbcAssumption DEF N
<1>8. ret' = (IF cur'.set \in DOMAIN Sets THEN "set" ELSE "over")
      \/ (ret' = "error" /\ cur'.set \in DOMAIN Sets)
  BY <1>1 DEF NextResult
<1>9. CursorTypeOK'
  <2>1. cur'.lo <= N' + 1
    <3>1. \A x \in Nat : 0 <= x + 1
      OBVIOUS
    <3>2. 0 <= N' + 1
      BY <1>7, <3>1
    <3> QED BY <1>1, <3>2
  <2>2. ret' \in {"row", "none", "set", "over", "error"}
    BY <1>8
  <2> QED BY <1>1, <1>2, <1>6, <2>1, <2>2 DEF CursorTypeOK
<1>10. PlaceInv'
  BY <1>0, <1>1, <1>2, <1>6 DEF PlaceInv, sure
<1>11. AsyncInv'
  BY <1>1, <1>6 DEF AsyncInv
<1>12. NullInv'
  <2>1. cur'.lo \notin 1..N'
    BY <1>1, <1>7
  <2> QED BY <1>1, <2>1 DEF NullInv
<1>13. SeenAt' = 0
  BY <1>1, <1>6 DEF SeenAt, At, Place
<1>14. Promised!Next
  <2>1. cur.set \in DOMAIN Sets
    BY DEF NextResult, OnSet
  <2> QED BY <1>1, <1>2, <1>6, <1>8, <1>13, <2>1 DEF Promised!Next, Promised!NextSet, SeenAt, sure
<1> QED BY <1>9, <1>10, <1>11, <1>12, <1>14 DEF RowStep, RowInv

\* next_result() that throws
LEMMA NoResultStep ==
  ASSUME RowInv, NEW told, NoResult(told) PROVE RowStep
<1>0. /\ CursorTypeOK /\ PlaceInv /\ AsyncInv /\ NullInv /\ hist.asked = "no"
      /\ At \in 0..(N + 1) /\ N \in Nat
  BY PlaceTypes DEF RowInv, NoResult, Idle
<1>1. cur' = cur /\ res' = res /\ ret' = "error" /\ hist' = [hist EXCEPT !.op = <<"error", 0>>]
  BY DEF NoResult
<1>2. /\ hist' \in HistStates /\ hist'.op = <<"error", 0>> /\ hist'.sure = hist.sure
      /\ hist'.asked = hist.asked /\ hist'.was = hist.was /\ hist'.failed = hist.failed
  BY <1>0, <1>1 DEF CursorTypeOK, HistStates, Calls
<1>3. N' = N /\ At' = At /\ RowsFrom(cur.lo)' = RowsFrom(cur.lo) /\ Marks(cur.lo)' = Marks(cur.lo)
  BY <1>1 DEF N, At, Place, RowsFrom, Marks, Null
<1>4. CursorTypeOK'
  BY <1>0, <1>1, <1>2, <1>3 DEF CursorTypeOK
<1>5. PlaceInv'
  BY <1>0, <1>1, <1>2, <1>3 DEF PlaceInv
<1>6. AsyncInv'
  BY <1>0, <1>1, <1>2 DEF AsyncInv
<1>7. NullInv'
  BY <1>0, <1>1, <1>2, <1>3 DEF NullInv, Null
<1>8. SeenAt' = SeenAt /\ SeenAt = At
  BY <1>0, <1>2, <1>3 DEF SeenAt
<1>9. SeenAt' \in 0..SeenAt
  BY <1>0, <1>8
<1>10. Promised!Next
  BY <1>1, <1>2, <1>8, <1>9, PromisedFailure
<1> QED BY <1>4, <1>5, <1>6, <1>7, <1>10 DEF RowStep, RowInv

\* A call that changes the indicators and nothing that the moves go by.
LEMMA ReadsUnseen ==
  ASSUME RowInv, hist.asked = "no", cur' \in CurStates, cur'.set = cur.set, cur'.lo = cur.lo,
         cur'.busy = cur.busy, res' \in ResStates, res'.size = res.size, res'.rows = res.rows,
         res'.position = res.position, UNCHANGED <<ret, hist>>, NullInv'
  PROVE  RowStep
<1>0. CursorTypeOK /\ PlaceInv /\ AsyncInv
  BY DEF RowInv
<1>1. N' = N /\ hist' = hist /\ ret' = ret
  BY DEF N
<1>2. At' = At /\ RowsFrom(cur.lo)' = RowsFrom(cur.lo)
  BY <1>1 DEF At, Place, RowsFrom
<1>3. CursorTypeOK'
  BY <1>0, <1>1 DEF CursorTypeOK
<1>4. PlaceInv'
  BY <1>0, <1>1, <1>2 DEF PlaceInv
<1>5. AsyncInv'
  BY <1>0, <1>1 DEF AsyncInv
<1>6. SeenAt' = SeenAt
  BY <1>1, <1>2 DEF SeenAt
<1> QED BY <1>1, <1>3, <1>4, <1>5, <1>6 DEF RowStep, RowInv, Unseen

\* unbind()
LEMMA UnbindStep ==
  ASSUME RowInv, NEW up, NEW told, Unbind(up, told) PROVE RowStep
<1>0. /\ CursorTypeOK /\ NullInv /\ hist.asked = "no" /\ cur' = cur /\ UNCHANGED <<ret, hist>>
      /\ res.bound /\ res' = [res EXCEPT !.bound = FALSE]
  BY DEF RowInv, Unbind, Idle
<1>1. /\ cur' \in CurStates /\ res' \in ResStates /\ res'.size = res.size /\ res'.rows = res.rows
      /\ res'.position = res.position /\ ~res'.bound
  BY <1>0 DEF CursorTypeOK, ResStates
<1>2. NullInv'
  BY <1>0, <1>1 DEF NullInv
<1> QED BY <1>0, <1>1, <1>2, ReadsUnseen

\* get(), get_ref()
LEMMA GetStep ==
  ASSUME RowInv, NEW up, NEW told, Get(up, told) PROVE RowStep
<1>0. /\ CursorTypeOK /\ PlaceInv /\ NullInv /\ hist.asked = "no" /\ UNCHANGED <<ret, hist>>
      /\ Asks /\ cur' = [cur EXCEPT !.got = IF @ = "no" THEN "once" ELSE "again"]
  BY DEF RowInv, Get, Idle
<1>1. PICK nulls \in Length : res' = [res EXCEPT !.nulls = nulls]
  BY DEF Get
<1>2. nulls \in SUBSET Nat
  BY <1>0 DEF Length, CursorTypeOK, ResStates
<1>3. /\ res' \in ResStates /\ res'.size = res.size /\ res'.rows = res.rows
      /\ res'.position = res.position /\ res'.bound = res.bound /\ res'.nulls = nulls
  BY <1>0, <1>1, <1>2 DEF CursorTypeOK, ResStates
<1>4. /\ cur' \in CurStates /\ cur'.set = cur.set /\ cur'.lo = cur.lo /\ cur'.busy = cur.busy
      /\ (cur'.got = "once" => cur.got = "no")
  BY <1>0 DEF CursorTypeOK, CurStates
<1>5. ~res.bound /\ res.position \notin res.nulls
  BY <1>0 DEF Asks
<1>6. cur.got = "no" /\ res.size = 1 => (0 \in nulls <=> Null(cur.lo))
  <2>1. res.size = 1 => res.position = 0
    BY <1>0, PlaceTypes
  <2> QED BY <1>5, <2>1 DEF Length
<1>7. NullInv'
  BY <1>3, <1>4, <1>5, <1>6 DEF NullInv, Null
<1> QED BY <1>0, <1>3, <1>4, <1>7, ReadsUnseen

\* A new result
LEMMA NewStep ==
  ASSUME NEW n \in Nat \ {0}, NewResult(n) PROVE RowStep
<1>1. cur' = FreshCur /\ ret' = "none" /\ hist' = FreshHist("new")
  BY DEF NewResult
<1>2. PICK short \in BOOLEAN : res' = FreshRes(n, short)
  BY DEF NewResult
<1>3. /\ res' \in ResStates /\ res'.size = n /\ res'.rows = 0 /\ res'.position = 0
  BY <1>2 DEF FreshRes, AutoBind, ResStates
<1>4. /\ cur' \in CurStates /\ cur'.lo = 0 /\ cur'.got = "no" /\ ~cur'.busy
  BY <1>1 DEF FreshCur, CurStates
<1>5. hist' \in HistStates /\ hist'.asked = "no"
  BY <1>1 DEF FreshHist, HistStates, Calls
<1>6. N' \in Nat
  BY OdbcAssumption DEF N
<1>7. CursorTypeOK'
  <2>1. cur'.lo <= N' + 1
    <3>1. \A x \in Nat : 0 <= x + 1
      OBVIOUS
    <3>2. 0 <= N' + 1
      BY <1>6, <3>1
    <3> QED BY <1>4, <3>2
  <2> QED BY <1>1, <1>3, <1>4, <1>5, <2>1 DEF CursorTypeOK
<1>8. PlaceInv'
  <2>1. hist'.sure
    BY <1>1 DEF FreshHist
  <2>2. RowsFrom(cur.lo)' = 0
    BY <1>4, <1>6 DEF RowsFrom
  <2> QED BY <1>3, <2>1, <2>2 DEF PlaceInv
<1>9. AsyncInv'
  BY <1>4, <1>5 DEF AsyncInv
<1>10. NullInv'
  <2>1. cur'.lo \notin 1..N'
    BY <1>4, <1>6
  <2> QED BY <1>4, <2>1 DEF NullInv
<1>11. Promised!Next
  BY PromisedNew
<1> QED BY <1>7, <1>8, <1>9, <1>10, <1>11 DEF RowStep, RowInv

\* A step of a result
LEMMA CursorStep ==
  ASSUME RowInv, NEW up, NEW told, CursorNext(up, told) PROVE RowStep
<1>1. CASE Movings(up, told)
  <2>1. ASSUME NEW op \in {"first", "last", "next", "prior"}, MoveTo(op, 0, up, told) PROVE RowStep
    BY <2>1, MoveStep
  <2>2. ASSUME NEW k \in 0..(N + 1), MoveTo("move", k, up, told) PROVE RowStep
    BY <2>2, MoveStep
  <2>3. ASSUME NEW k \in 0..(N + 1), k > 0, MoveTo("skip", k, up, told) PROVE RowStep
    BY <2>3, MoveStep
  <2> QED BY <1>1, <2>1, <2>2, <2>3 DEF Movings
<1> QED BY <1>1, AsyncStep, CompleteStep, NextResultStep, NoResultStep, UnbindStep, GetStep DEF CursorNext

\* Nothing changes for the result.
LEMMA RowStutter == ASSUME RowInv, UNCHANGED rowVars PROVE RowInv' /\ Unseen
<1>1. cur' = cur /\ res' = res /\ ret' = ret /\ hist' = hist
  BY DEF rowVars
<1>2. N' = N
  BY <1>1 DEF N
<1>3. At' = At /\ RowsFrom(cur.lo)' = RowsFrom(cur.lo) /\ Marks(cur.lo)' = Marks(cur.lo)
  BY <1>1, <1>2 DEF At, Place, RowsFrom, Marks, Null
<1>4. Promised!Nearest(hist.was + 1)' = Promised!Nearest(hist.was + 1)
  BY <1>1 DEF Promised!Nearest, Promised!Rows
<1>5. CursorTypeOK'
  BY <1>1, <1>2 DEF RowInv, CursorTypeOK
<1>6. PlaceInv'
  BY <1>1, <1>3 DEF RowInv, PlaceInv
<1>7. AsyncInv'
  BY <1>1, <1>2, <1>3, <1>4 DEF RowInv, AsyncInv
<1>8. NullInv'
  BY <1>1, <1>2, <1>3 DEF RowInv, NullInv, Null
<1>9. SeenAt' = SeenAt
  BY <1>1, <1>3 DEF SeenAt
<1> QED BY <1>1, <1>5, <1>6, <1>7, <1>8, <1>9 DEF RowInv, Unseen

\* Every step, of whatever part
LEMMA RowSteps ==
  ASSUME RowInv, [OdbcNext]_<<vars, resultVars>> PROVE RowStep
<1>0. 1 \in Nat \ {0}
  OBVIOUS
<1>1. CASE UNCHANGED resultVars
  BY <1>1, RowStutter DEF resultVars, RowStep
<1>2. ASSUME NEW s \in Stmts, Results(s) PROVE RowStep
  <2>1. PICK n \in Rowsets : NewResult(n)
    BY <1>2 DEF Results
  <2> QED BY <2>1, NewStep, OdbcAssumption
<1>3. ASSUME NEW s \in Stmts, Find(s) PROVE RowStep
  BY <1>0, <1>3, NewStep DEF Find
<1>4. CASE Walks
  <2>1. PICK told : FindNext(Serves(of.stmt), told) \/ Access(Serves(of.stmt), told)
                    \/ CursorNext(Serves(of.stmt), told)
    BY <1>4 DEF Walks
  <2>2. CASE FindNext(Serves(of.stmt), told)
    <3>1. MoveTo("next", 0, Serves(of.stmt), told)
      BY <2>2 DEF FindNext
    <3> QED BY <3>1, MoveStep
  <2> QED BY <2>1, <2>2, GetStep, CursorStep DEF Access
<1>5. CASE Drop
  BY <1>0, <1>5, NewStep DEF Drop
<1> QED BY <1>1, <1>2, <1>3, <1>4, <1>5 DEF OdbcNext

\* There is no result at first.
LEMMA RowInit == OdbcInit => RowInv /\ Promised!Init
<1> SUFFICES ASSUME OdbcInit PROVE RowInv /\ Promised!Init
  OBVIOUS
<1>1. cur = FreshCur /\ res = FreshRes(1, TRUE) /\ ret = "none" /\ hist = FreshHist("none")
  BY DEF OdbcInit, CursorInit
<1>2. /\ res \in ResStates /\ res.size = 1 /\ res.rows = 0 /\ res.position = 0
  <2>1. PICK n \in Nat \ {0} : n = 1
    OBVIOUS
  <2>2. PICK short \in BOOLEAN : res = FreshRes(n, short)
    BY <1>1, <2>1
  <2>3. res \in ResStates /\ res.size = n /\ res.rows = 0 /\ res.position = 0
    BY <2>2 DEF FreshRes, AutoBind, ResStates
  <2> QED BY <2>1, <2>3
<1>3. /\ cur \in CurStates /\ cur.lo = 0 /\ cur.got = "no" /\ ~cur.busy /\ cur.set = 1
  BY <1>1 DEF FreshCur, CurStates
<1>4. hist \in HistStates /\ hist.asked = "no" /\ hist.sure = TRUE /\ hist.op = <<"none", 0>>
  BY <1>1 DEF FreshHist, HistStates, Calls
<1>5. N \in Nat
  BY RowsType
<1>6. CursorTypeOK
  <2>1. \A x \in Nat : 0 <= x + 1
    OBVIOUS
  <2>2. cur.lo <= N + 1
    BY <1>3, <1>5, <2>1
  <2> QED BY <1>1, <1>2, <1>3, <1>4, <2>2 DEF CursorTypeOK
<1>7. PlaceInv
  BY <1>2, <1>3, <1>4 DEF PlaceInv
<1>8. AsyncInv
  BY <1>3, <1>4 DEF AsyncInv
<1>9. NullInv
  <2>1. cur.lo \notin 1..N
    BY <1>3, <1>5
  <2> QED BY <1>3, <2>1 DEF NullInv
<1>10. At = 0
  BY <1>3 DEF At, Place
<1>11. Promised!Init
  <2>1. res.size \in Nat \ {0}
    BY <1>2
  <2>2. ret = "none"
    BY <1>1, Zenon
  <2> QED BY <1>3, <1>4, <1>10, <2>1, <2>2 DEF Promised!Init, Promised!Fresh
<1> QED BY <1>6, <1>7, <1>8, <1>9, <1>11 DEF RowInv

\* What is promised does not see an unseen step.
LEMMA UnseenStutters == Unseen => UNCHANGED Promised!vars
BY DEF Unseen, SeenAt, Promised!vars

\* Where the indicators are those of the row, is_null() says what the row says.
LEMMA NullsFollow == RowInv => NullsOfRow
<1> SUFFICES ASSUME RowInv, OnRow, ~hist.failed, Answered
             PROVE  res.position \in res.nulls <=> Null(At)
  BY DEF NullsOfRow
<1>1. /\ cur.lo \in Nat /\ cur.lo <= N + 1 /\ N \in Nat /\ res.size \in Nat /\ res.size > 0
      /\ res.position \in Nat /\ res.position < res.size /\ At = Place(cur.lo, res.position)
      /\ (res.size = 1 => res.position = 0 /\ At = cur.lo)
  BY PlaceTypes DEF RowInv
<1>2. At \in 1..N /\ ~cur.busy
  BY DEF OnRow, RowInv, AsyncInv, Idle
<1>3. cur.lo \in 1..N /\ At = cur.lo + res.position
  BY <1>1, <1>2 DEF Place
<1>4. CASE res.bound
  <2>1. res.nulls = Marks(cur.lo)
    BY <1>2, <1>3, <1>4 DEF RowInv, NullInv
  <2>2. res.position \in 0..(res.size - 1)
    BY <1>1
  <2> QED BY <1>2, <1>3, <2>1, <2>2 DEF Marks
<1>5. CASE ~res.bound
  <2>1. res.size = 1 /\ cur.got = "once"
    BY <1>5 DEF Answered
  <2> QED BY <1>1, <1>2, <1>3, <1>5, <2>1 DEF RowInv, NullInv
<1> QED BY <1>4, <1>5

\* What the application sees of a result is a cursor over rows, whatever the result
\* sets and rowset sizes, whichever fetches fail and whatever happens to connection
\* and statement meanwhile: next(), first() and move() land on the row that they
\* name and answer whether there is one, and so do last(), prior(), skip() and
\* complete_next() with rowsets of one row.
THEOREM WalksRowByRow == OdbcSpec => ImplementsRows
<1>1. RowInv /\ [OdbcNext]_<<vars, resultVars>> => RowInv' /\ [Promised!Next]_Promised!vars
  BY RowSteps, UnseenStutters DEF RowStep
<1> QED BY <1>1, RowInit, PTL DEF OdbcSpec, ImplementsRows

\* On a row, the indicator that is_null() and get() go by says whether the row of
\* the database is null, unless the last fetch failed: that of a bound column
\* whatever the rowset size and the moves, that of an unbound one after it was got once.
THEOREM NullsAreOfRow == OdbcSpec => []NullsOfRow
<1>1. RowInv /\ [OdbcNext]_<<vars, resultVars>> => RowInv'
  BY RowSteps DEF RowStep
<1> QED BY <1>1, RowInit, NullsFollow, PTL DEF OdbcSpec
=============================================================================
