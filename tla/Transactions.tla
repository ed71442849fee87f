---------------------------- MODULE Transactions ----------------------------
(***************************************************************************)
(* Local transactions: the table of the FFI layer, Transaction::begin,     *)
(* commit and rollback, and the driver connection under them.              *)
(*                                                                         *)
(* odbc_transaction_begin_v3, commit and rollback hold the global mutex    *)
(* only around their accesses to the table.  The SQL runs between, under   *)
(* the mutex of the connection, so a call is several steps here: look at   *)
(* the table, fetch the connection from the handle manager, run the SQL,   *)
(* and for begin write the table.  odbc_disconnect is one step: it keeps   *)
(* the global mutex from beginning to end.                                 *)
(*                                                                         *)
(* Work is a set of write tags.  A write is pending while its connection   *)
(* is in manual commit and durable once the server has committed it.       *)
(***************************************************************************)
EXTENDS Integers, FiniteSets, Functions

CONSTANTS
    Threads,        \* callers of the FFI
    Conns,          \* connection ids
    Writes,         \* bound: the statements that may be executed
    MaxTxns,        \* bound: the transaction ids that may be given out
    Shared,         \* connections on which two calls may be in flight at once
    Faulty,         \* connections whose driver may refuse to end a unit of work
    None            \* no connection, no transaction, no owner

ASSUME MaxTxnsAssumption == MaxTxns \in Nat
ASSUME ConnsAssumption == Shared \subseteq Conns /\ Faulty \subseteq Conns
ASSUME NoneAssumption == None \notin Conns /\ None \notin Int

VARIABLES
    connState,      \* connection id -> "New", "Open" or "Closed"
    autocommit,     \* connection id -> the driver's autocommit attribute
    pending,        \* connection id -> writes of its open unit of work
    durable,        \* writes the server has committed
    stuck,          \* connections whose last return to autocommit was refused
    transactions,   \* the table: transaction id -> connection id
    nextTxnId,      \* next_txn_id
    call,           \* thread -> the call it is in
    writer,         \* write -> the transaction it was issued for
    owner,          \* transaction id -> the connection it was begun on
    result          \* transaction id -> how its end was reported

vars == <<connState, autocommit, pending, durable, stuck, transactions, nextTxnId,
          call, writer, owner, result>>

TxnIds == 1 .. MaxTxns

Calls == [at : {"Idle", "BeginLookup", "BeginSql", "BeginInsert", "EndLookup", "EndSql"},
          conn : Conns \cup {None}, txn : TxnIds \cup {None},
          kind : {"none", "commit", "rollback"}]

IdleCall == [at |-> "Idle", conn |-> None, txn |-> None, kind |-> "none"]

Results == {"None", "CommitOk", "CommitErr", "RollbackOk", "RollbackErr", "Disconnected"}

TypeOK ==
    /\ connState \in [Conns -> {"New", "Open", "Closed"}]
    /\ autocommit \in [Conns -> BOOLEAN]
    /\ pending \in [Conns -> SUBSET Writes]
    /\ durable \subseteq Writes
    /\ stuck \subseteq Conns
    /\ DOMAIN transactions \subseteq TxnIds
    /\ transactions \in [DOMAIN transactions -> Conns]
    /\ nextTxnId \in 1 .. MaxTxns + 1
    /\ call \in [Threads -> Calls]
    /\ writer \in [Writes -> TxnIds \cup {0, None}]
    /\ owner \in [TxnIds -> Conns \cup {None}]
    /\ result \in [TxnIds -> Results]

Init ==
    /\ connState = [c \in Conns |-> "New"]
    /\ autocommit = [c \in Conns |-> TRUE]
    /\ pending = [c \in Conns |-> {}]
    /\ durable = {}
    /\ stuck = {}
    /\ transactions = [x \in {} |-> None]
    /\ nextTxnId = 1
    /\ call = [t \in Threads |-> IdleCall]
    /\ writer = [w \in Writes |-> None]
    /\ owner = [x \in TxnIds |-> None]
    /\ result = [x \in TxnIds |-> "None"]
-----------------------------------------------------------------------------
(* The driver, as the code uses it.  An outcome says whether the call      *)
(* succeeded, which writes it made durable and which stay pending.         *)

\* SQLEndTran.  A failed commit has rolled the work back or left it open.
DriverCommit(c, work) ==
    {[ok |-> TRUE, wrote |-> work, left |-> {}]} \cup
    (IF c \in Faulty
     THEN {[ok |-> FALSE, wrote |-> {}, left |-> {}],
           [ok |-> FALSE, wrote |-> {}, left |-> work]}
     ELSE {})

DriverRollback(c, work) ==
    {[ok |-> TRUE, wrote |-> {}, left |-> {}]} \cup
    (IF c \in Faulty
     THEN {[ok |-> FALSE, wrote |-> {}, left |-> work]}
     ELSE {})

\* Turning autocommit on commits the unit of work that is still open; a driver
\* that refuses leaves the connection in manual commit.
DriverAutocommitOn(c, work) ==
    {[ok |-> TRUE, wrote |-> work, left |-> {}]} \cup
    (IF c \in Faulty
     THEN {[ok |-> FALSE, wrote |-> {}, left |-> work]}
     ELSE {})

EndTran(c, kind, work) ==
    IF kind = "commit" THEN DriverCommit(c, work) ELSE DriverRollback(c, work)
\* Mutant: autocommit is restored only after success.
EndUnitOfWorkEarlyReturn(c, e) ==
    /\ durable' = durable \cup e.wrote
    /\ pending' = [pending EXCEPT ![c] = e.left]
    /\ autocommit' = [autocommit EXCEPT ![c] = e.ok]
    /\ UNCHANGED stuck

\* The end of the unit of work of connection c, after SQLEndTran has answered e:
\* whatever it answered, autocommit is turned on again.  That the driver refuses
\* is logged and not reported.
EndUnitOfWork(c, e) ==
    \E a \in DriverAutocommitOn(c, e.left) :
        /\ durable' = durable \cup e.wrote \cup a.wrote
        /\ pending' = [pending EXCEPT ![c] = a.left]
        /\ autocommit' = [autocommit EXCEPT ![c] = a.ok]
        /\ stuck' = IF a.ok THEN stuck \ {c} ELSE stuck \cup {c}
-----------------------------------------------------------------------------
(* Callers.                                                                *)

\* A caller that respects the connection starts no call on it while another
\* one is in flight.  The worker isolate behaves so; separate threads need not.
CallAllowed(c) == c \in Shared \/ \A t \in Threads : call[t].conn # c

TxnsOn(c) == {x \in DOMAIN transactions : transactions[x] = c}

Connect(c) ==
    /\ connState[c] = "New"
    /\ connState' = [connState EXCEPT ![c] = "Open"]
    /\ UNCHANGED <<autocommit, pending, durable, stuck, transactions, nextTxnId, call,
                   writer, owner, result>>

\* A statement through odbc_exec_query, for transaction x of the connection or
\* (x = 0) for none.  Statements are alike, and used in a fixed order.
Write(c, x, w) ==
    /\ CallAllowed(c)
    /\ connState[c] = "Open"
    /\ x \in TxnsOn(c) \/ (x = 0 /\ TxnsOn(c) = {})
    /\ writer[w] = None /\ w = CHOOSE v \in Writes : writer[v] = None
    /\ writer' = [writer EXCEPT ![w] = x]
    /\ IF autocommit[c]
       THEN durable' = durable \cup {w} /\ UNCHANGED pending
       ELSE pending' = [pending EXCEPT ![c] = @ \cup {w}] /\ UNCHANGED durable
    /\ UNCHANGED <<connState, autocommit, stuck, transactions, nextTxnId, call, owner,
                   result>>
-----------------------------------------------------------------------------
(* odbc_transaction_begin_v3.                                              *)

Beginning == {t \in Threads : call[t].at \in {"BeginLookup", "BeginSql", "BeginInsert"}}

\* Bound: no begin is started that would run out of transaction ids.
IdsLeft == nextTxnId + Cardinality(Beginning) <= MaxTxns

\* Mutant: nobody asks whether the connection has a transaction.
BeginUnchecked(t, c) ==
    /\ call[t] = IdleCall /\ CallAllowed(c) /\ IdsLeft
    /\ connState[c] = "Open"
    /\ call' = [call EXCEPT ![t] = [at |-> "BeginLookup", conn |-> c, txn |-> None,
                                    kind |-> "none"]]
    /\ UNCHANGED <<connState, autocommit, pending, durable, stuck, transactions,
                   nextTxnId, writer, owner, result>>

\* Under the global mutex: the connection exists and has no transaction.
BeginCheck(t, c) ==
    /\ call[t] = IdleCall /\ CallAllowed(c) /\ IdsLeft
    /\ connState[c] = "Open"
    /\ TxnsOn(c) = {}
    /\ call' = [call EXCEPT ![t] = [at |-> "BeginLookup", conn |-> c, txn |-> None,
                                    kind |-> "none"]]
    /\ UNCHANGED <<connState, autocommit, pending, durable, stuck, transactions,
                   nextTxnId, writer, owner, result>>

\* Transaction::begin fetches the connection; if it is gone begin fails.
BeginLookup(t) ==
    /\ call[t].at = "BeginLookup"
    /\ call' = [call EXCEPT ![t] = IF connState[call[t].conn] = "Open"
                                   THEN [call[t] EXCEPT !.at = "BeginSql"]
                                   ELSE IdleCall]
    /\ UNCHANGED <<connState, autocommit, pending, durable, stuck, transactions,
                   nextTxnId, writer, owner, result>>

\* Under the connection's mutex: isolation, access mode and lock timeout, each
\* of which may fail, then manual commit.
BeginSql(t) ==
    /\ call[t].at = "BeginSql"
    /\ \/ /\ autocommit' = [autocommit EXCEPT ![call[t].conn] = FALSE]
          /\ call' = [call EXCEPT ![t].at = "BeginInsert"]
       \/ /\ call' = [call EXCEPT ![t] = IdleCall]
          /\ UNCHANGED autocommit
    /\ UNCHANGED <<connState, pending, durable, stuck, transactions, nextTxnId, writer,
                   owner, result>>

\* Under the global mutex again: a fresh id and the table entry.
BeginInsert(t) ==
    /\ call[t].at = "BeginInsert"
    /\ nextTxnId \in TxnIds     \* Bound: IdsLeft has kept an id for this begin.
    /\ transactions' = [x \in DOMAIN transactions \cup {nextTxnId} |->
                            IF x = nextTxnId THEN call[t].conn ELSE transactions[x]]
    /\ owner' = [owner EXCEPT ![nextTxnId] = call[t].conn]
    /\ nextTxnId' = nextTxnId + 1
    /\ call' = [call EXCEPT ![t] = IdleCall]
    /\ UNCHANGED <<connState, autocommit, pending, durable, stuck, writer, result>>

\* No id is free among the candidates: the transaction is dropped, which rolls
\* it back if the connection is still there, and begin fails.
BeginDrop(t) ==
    LET c == call[t].conn IN
    /\ call[t].at = "BeginInsert"
    /\ IF connState[c] = "Open"
       THEN \E e \in DriverRollback(c, pending[c]) : EndUnitOfWork(c, e)
       ELSE UNCHANGED <<autocommit, pending, durable, stuck>>
    /\ call' = [call EXCEPT ![t] = IdleCall]
    /\ UNCHANGED <<connState, transactions, nextTxnId, writer, owner, result>>
-----------------------------------------------------------------------------
(* odbc_transaction_commit and odbc_transaction_rollback.                  *)

\* Mutant: the entry is read, not taken.
EndReads(t, x, kind) ==
    /\ call[t] = IdleCall
    /\ CallAllowed(transactions[x])
    /\ call' = [call EXCEPT ![t] = [at |-> "EndLookup", conn |-> transactions[x],
                                    txn |-> x, kind |-> kind]]
    /\ UNCHANGED <<connState, autocommit, pending, durable, stuck, transactions,
                   nextTxnId, writer, owner, result>>

\* Under the global mutex: the entry leaves the table with the first caller.
EndTake(t, x, kind) ==
    /\ call[t] = IdleCall
    /\ CallAllowed(transactions[x])
    /\ transactions' = Restrict(transactions, DOMAIN transactions \ {x})
    /\ call' = [call EXCEPT ![t] = [at |-> "EndLookup", conn |-> transactions[x],
                                    txn |-> x, kind |-> kind]]
    /\ UNCHANGED <<connState, autocommit, pending, durable, stuck, nextTxnId, writer, owner,
                   result>>

Report(kind, ok) ==
    CASE kind = "commit" /\ ok    -> "CommitOk"
      [] kind = "commit" /\ ~ok   -> "CommitErr"
      [] kind = "rollback" /\ ok  -> "RollbackOk"
      [] kind = "rollback" /\ ~ok -> "RollbackErr"

\* Transaction::commit and rollback fetch the connection; if it is gone they
\* fail, and the drop of the transaction finds nothing to roll back either.
EndLookup(t) ==
    LET c == call[t] IN
    /\ c.at = "EndLookup"
    /\ IF connState[c.conn] = "Open"
       THEN /\ call' = [call EXCEPT ![t].at = "EndSql"]
            /\ UNCHANGED result
       ELSE /\ call' = [call EXCEPT ![t] = IdleCall]
            /\ result' = [result EXCEPT ![c.txn] = Report(c.kind, FALSE)]
    /\ UNCHANGED <<connState, autocommit, pending, durable, stuck, transactions,
                   nextTxnId, writer, owner>>

\* Mutant: a commit that failed is reported as done.
EndSqlAlwaysOk(t) ==
    LET c == call[t] IN
    /\ c.at = "EndSql"
    /\ \E e \in EndTran(c.conn, c.kind, pending[c.conn]) :
          /\ EndUnitOfWork(c.conn, e)
          /\ result' = [result EXCEPT ![c.txn] = Report(c.kind, TRUE)]
    /\ call' = [call EXCEPT ![t] = IdleCall]
    /\ UNCHANGED <<connState, transactions, nextTxnId, writer, owner>>

\* Under the connection's mutex: end the work, then always autocommit on; the
\* answer is the one of the first.
EndSql(t) ==
    LET c == call[t] IN
    /\ c.at = "EndSql"
    /\ \E e \in EndTran(c.conn, c.kind, pending[c.conn]) :
          /\ EndUnitOfWork(c.conn, e)
          /\ result' = [result EXCEPT ![c.txn] = Report(c.kind, e.ok)]
    /\ call' = [call EXCEPT ![t] = IdleCall]
    /\ UNCHANGED <<connState, transactions, nextTxnId, writer, owner>>
-----------------------------------------------------------------------------
\* odbc_disconnect: the transactions of the connection are rolled back one by
\* one (a second rollback finds nothing), then the connection goes.  A call that
\* has fetched it keeps it alive; otherwise the work still open on it is lost,
\* since no step reaches a closed connection any more.
Disconnect(c) ==
    /\ CallAllowed(c)
    /\ connState[c] = "Open"
    /\ connState' = [connState EXCEPT ![c] = "Closed"]
    /\ IF TxnsOn(c) = {}
       THEN UNCHANGED <<autocommit, pending, durable, stuck>>
       ELSE \E e \in DriverRollback(c, pending[c]) : EndUnitOfWork(c, e)
    /\ transactions' = Restrict(transactions, DOMAIN transactions \ TxnsOn(c))
    /\ result' = [x \in TxnIds |-> IF x \in TxnsOn(c) THEN "Disconnected" ELSE result[x]]
    /\ UNCHANGED <<nextTxnId, call, writer, owner>>

CallStep(t) ==
    \/ BeginLookup(t) \/ BeginSql(t) \/ BeginInsert(t) \/ BeginDrop(t)
    \/ EndLookup(t) \/ EndSql(t)

Next ==
    \/ \E c \in Conns : Connect(c) \/ Disconnect(c)
    \/ \E c \in Conns, x \in TxnIds \cup {0}, w \in Writes : Write(c, x, w)
    \/ \E t \in Threads, c \in Conns : BeginCheck(t, c)
    \/ \E t \in Threads, x \in DOMAIN transactions, kind \in {"commit", "rollback"} :
          EndTake(t, x, kind)
    \/ \E t \in Threads : CallStep(t)

Spec == Init /\ [][Next]_vars
-----------------------------------------------------------------------------
(* Properties.                                                             *)

WritesOf(x) == {w \in Writes : writer[w] = x}

\* The transactions of connections on which no two calls overlap.  (owner is
\* the connection a transaction was begun on.)
Exclusive == {x \in TxnIds : owner[x] \notin Shared}

Said(x) ==
    CASE result[x] = "None"         -> "Nothing"
      [] result[x] = "CommitOk"     -> "Committed"
      [] result[x] = "RollbackOk"   -> "RolledBack"
      [] result[x] = "Disconnected" -> "Closed"
      [] OTHER                      -> "Failed"

Atomic == INSTANCE AtomicTransactions WITH
    Txns <- TxnIds,
    opened <- {x \in Exclusive : owner[x] # None},
    said <- [x \in TxnIds |-> IF x \in Exclusive THEN Said(x) ELSE "Nothing"],
    work <- [x \in TxnIds |-> IF x \in Exclusive THEN WritesOf(x) ELSE {}],
    durable <- {w \in durable : writer[w] \in Exclusive}

\* Commit, rollback, disconnect and begin, with the steps between which the
\* global mutex is free and whatever the driver fails at, implement atomic
\* transactions on every connection on which no two calls overlap: the end of a
\* transaction comes once, what is reported as committed is durable from then
\* on, what is reported as rolled back never is, and work becomes durable as a
\* whole.  A transaction whose end was reported as failed may become durable
\* later, with a later unit of work of its connection, when the driver also
\* refused to go back to autocommit; it then does as a whole too.
ImplementsAtomic == Atomic!Spec

\* A commit that was reported as failed has not persisted anything ("Surface
\* the commit failure so the caller knows the unit of work didn't actually
\* persist").
FailedCommitPersistsNothing ==
    \A x \in Exclusive : result[x] = "CommitErr" => WritesOf(x) \cap durable = {}

\* The table tells what the connections are doing.  Where no two calls overlap
\* a transaction of the table belongs to a connection that is still there, no
\* connection has two ("Connection already has an active transaction"), and
\* one that has none is back in autocommit with no open work, also after a
\* commit or a rollback that failed ("never returned to the caller / pool stuck
\* in autocommit=off"), unless the driver refused just that.  On a shared
\* connection, where commit, rollback and disconnect race for an entry, one
\* whose end was reported is gone.
TableFollowsConnections ==
    /\ \A x \in DOMAIN transactions : result[x] = "None"
    /\ \A x \in DOMAIN transactions \cap Exclusive :
          /\ connState[transactions[x]] = "Open"
          /\ \A y \in TxnsOn(transactions[x]) : x = y
    /\ \A c \in Conns \ Shared :
          /\ connState[c] = "Open"
          /\ TxnsOn(c) = {}
          /\ \A t \in Threads : call[t].conn # c
          => (autocommit[c] /\ pending[c] = {}) \/ (c \in stuck /\ ~autocommit[c])
=============================================================================
