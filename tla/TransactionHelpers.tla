------------------------- MODULE TransactionHelpers -------------------------
(***************************************************************************)
(* The two Dart helpers that run a caller's action inside a transaction,   *)
(* on top of the native transactions of module Transactions:               *)
(* OdbcService.runInTransaction and TransactionHandle.runWithBegin.        *)
(*                                                                         *)
(* Each native call of a helper is the call of Transactions, step by step; *)
(* the helper moves on when its native call has returned.  Other threads   *)
(* call the native API directly.                                           *)
(***************************************************************************)
EXTENDS Transactions

CONSTANTS
    Helper,         \* which of the two helpers is used
    HelperThreads   \* the threads that use it

ASSUME HelperThreadsAssumption == HelperThreads \subseteq Threads
ASSUME HelperAssumption == Helper \in {"runInTransaction", "runWithBegin"}

VARIABLE helper     \* helper thread -> where its helper is and what it has returned

hvars == <<vars, helper>>

Phases == {"Out", "Begin", "Action", "Commit", "Rollback", "Returned"}

Helpers == [phase : Phases, conn : Conns \cup {None}, txn : TxnIds \cup {None},
            outcome : {"None", "Success", "Failure"}]

HelperTypeOK == TypeOK /\ helper \in [HelperThreads -> Helpers]

HInit ==
    /\ Init
    /\ helper = [t \in HelperThreads |-> [phase |-> "Out", conn |-> None, txn |-> None,
                                    outcome |-> "None"]]

Return(t, outcome) ==
    helper' = [helper EXCEPT ![t].phase = "Returned", ![t].outcome = outcome]

\* beginTransaction: a connection that is gone or has a transaction makes the
\* helper return a failure at once.
HBegin(t, c) ==
    /\ helper[t].phase = "Out"
    /\ \/ /\ BeginCheck(t, c)
          /\ helper' = [helper EXCEPT ![t].phase = "Begin", ![t].conn = c]
       \/ /\ connState[c] = "Closed" \/ (connState[c] = "Open" /\ TxnsOn(c) # {})
          /\ Return(t, "Failure")
          /\ UNCHANGED vars

HBeginStep(t) ==
    /\ helper[t].phase = "Begin"
    /\ BeginLookup(t) \/ BeginSql(t) \/ BeginDrop(t)
    /\ IF call'[t] = IdleCall THEN Return(t, "Failure") ELSE UNCHANGED helper

HBegun(t) ==
    /\ helper[t].phase = "Begin"
    /\ BeginInsert(t)
    /\ helper' = [helper EXCEPT ![t].phase = "Action", ![t].txn = nextTxnId]

\* The action executes statements on the connection.
HWrite(t, w) ==
    /\ helper[t].phase = "Action"
    /\ Write(helper[t].conn, helper[t].txn, w)
    /\ UNCHANGED helper

\* Mutant: the answer of the native commit is ignored by both helpers.
AfterCommitUnchecked(committed) == "Success"

\* What a helper returns when the native commit has answered: runWithBegin does
\* not look at the answer.
AfterCommit(committed) ==
    IF Helper = "runWithBegin" \/ committed THEN "Success" ELSE "Failure"

\* Mutant: the action failed and nobody ends the transaction.
HActionLeaks(t, ok) ==
    /\ helper[t].phase = "Action"
    /\ IF ok
       THEN /\ helper[t].txn \in DOMAIN transactions
            /\ EndTake(t, helper[t].txn, "commit")
            /\ helper' = [helper EXCEPT ![t].phase = "Commit"]
       ELSE Return(t, "Failure") /\ UNCHANGED vars

\* The action returns a value, or fails by a Failure or a throw: commit or roll
\* back.  A transaction that odbc_disconnect has ended is an invalid id, so the
\* native call fails without a step of the table.
HActionEnds(t, ok) ==
    /\ helper[t].phase = "Action"
    /\ IF helper[t].txn \in DOMAIN transactions
       THEN /\ EndTake(t, helper[t].txn, IF ok THEN "commit" ELSE "rollback")
            /\ helper' = [helper EXCEPT ![t].phase = IF ok THEN "Commit" ELSE "Rollback"]
       ELSE /\ Return(t, IF ok THEN AfterCommit(FALSE) ELSE "Failure")
            /\ UNCHANGED vars

\* The failure of a rollback is swallowed: the action's own error is returned.
HEndStep(t) ==
    /\ helper[t].phase \in {"Commit", "Rollback"}
    /\ EndLookup(t) \/ EndSql(t)
    /\ IF call'[t] # IdleCall
       THEN UNCHANGED helper
       ELSE Return(t, IF helper[t].phase = "Commit"
                      THEN AfterCommit(result'[helper[t].txn] = "CommitOk")
                      ELSE "Failure")

HStep(t) == HBeginStep(t) \/ HBegun(t) \/ HEndStep(t)

\* The threads that call the native API directly leave the transaction of a
\* helper alone, but for odbc_disconnect and but for shared connections, where
\* they may race with the helper to end it.
HelperTxns == {helper[t].txn : t \in {u \in HelperThreads : helper[u].conn \notin Shared}}

DirectCall ==
    \/ \E c \in Conns : Connect(c) \/ Disconnect(c)
    \/ \E c \in Conns, x \in (TxnIds \cup {0}) \ HelperTxns, w \in Writes : Write(c, x, w)
    \/ \E t \in Threads \ HelperThreads :
          \/ \E c \in Conns : BeginCheck(t, c)
          \/ \E x \in DOMAIN transactions \ HelperTxns, kind \in {"commit", "rollback"} :
                EndTake(t, x, kind)
          \/ CallStep(t)

HNext ==
    \/ DirectCall /\ UNCHANGED helper
    \/ \E t \in HelperThreads, c \in Conns : HBegin(t, c)
    \/ \E t \in HelperThreads, w \in Writes : HWrite(t, w)
    \/ \E t \in HelperThreads, ok \in BOOLEAN : HActionEnds(t, ok)
    \/ \E t \in HelperThreads : HStep(t)

HSpec == HInit /\ [][HNext]_hvars
-----------------------------------------------------------------------------
(* Properties.                                                             *)

Alone(t) == helper[t].conn \notin Shared

\* A helper that returned the value of the action has committed its work ("On
\* normal completion the transaction is committed"); over a driver that does
\* what it is told, one that returned a failure has left nothing in the
\* database; whatever it returned, its transaction is out of the table ("Use it
\* instead of manual try/finally to make leaks impossible").
HelpersTellTheTruth ==
    \A t \in HelperThreads :
        /\ helper[t].outcome = "Success" /\ Alone(t) =>
               WritesOf(helper[t].txn) \subseteq durable
        /\ helper[t].phase = "Returned" => helper[t].txn \notin DOMAIN transactions
        /\ helper[t].outcome = "Failure" /\ Alone(t) /\ helper[t].conn \notin Faulty =>
               WritesOf(helper[t].txn) \cap durable = {}
=============================================================================
