---------------------------- MODULE HelpersProofs ----------------------------
(***************************************************************************)
(* Proofs about TransactionHelpers: OdbcService.runInTransaction reports   *)
(* what happened to its transaction, whatever the other threads do.        *)
(***************************************************************************)
EXTENDS TransactionHelpers, TransactionsProofs

Ending == {"Commit", "Rollback"}

\* A helper and its thread's native call go together.
PhaseInv(t) ==
    LET h == helper[t] IN
    /\ h.phase \in {"Out", "Action", "Returned"} => call[t] = IdleCall
    /\ h.phase = "Begin" => call[t].at \in BeginPoints /\ call[t].conn = h.conn
    /\ h.phase \in Ending =>
          /\ call[t].at \in EndPoints
          /\ call[t].txn = h.txn /\ call[t].conn = h.conn
          /\ call[t].kind = IF h.phase = "Commit" THEN "commit" ELSE "rollback"
    /\ h.outcome = "None" <=> h.phase # "Returned"

\* The transaction of a helper is its own; where no two calls overlap nobody
\* else ends it.
OwnInv(t) ==
    LET h == helper[t] IN
    /\ h.phase \in {"Out", "Begin"} => h.txn = None
    /\ h.phase \in {"Action"} \cup Ending \/ h.outcome = "Success" => h.txn # None
    /\ h.phase = "Out" => h.conn = None
    /\ h.txn # None => /\ h.conn \in Conns /\ owner[h.txn] = h.conn
                       /\ \A u \in HelperThreads : helper[u].txn = h.txn => u = t
    /\ h.phase = "Returned" => h.txn \notin DOMAIN transactions
    /\ Alone(t) => \A v \in Threads :
                      call[v].at \in EndPoints /\ call[v].txn = h.txn => v = t

\* Until a helper has reported success its work is not durable, unless the
\* driver fails at a rollback.
WorkInv(t) ==
    LET h == helper[t] IN
    Alone(t) =>
       /\ h.outcome = "Success" => WritesOf(h.txn) \subseteq durable
       /\ h.outcome # "Success" /\ h.conn \notin Faulty => WritesOf(h.txn) \cap durable = {}

HInv ==
    /\ IInv
    /\ helper \in [HelperThreads -> Helpers]
    /\ \A t \in HelperThreads : PhaseInv(t) /\ OwnInv(t) /\ WorkInv(t)
-----------------------------------------------------------------------------
\* What a step of a helper starts from.
LEMMA HelperFacts ==
  ASSUME HInv, NEW t \in HelperThreads, [Next]_vars
  PROVE  /\ t \in Threads /\ helper[t] \in Helpers /\ helper \in [HelperThreads -> Helpers]
         /\ PhaseInv(t) /\ OwnInv(t) /\ IInv /\ IInv' /\ call \in [Threads -> Calls]
BY HelperThreadsAssumption, NextIInv DEF HInv, IInv, TypeOK

LEMMA RealTransactions ==
  ASSUME IInv'
  PROVE  /\ \A v \in Threads : call'[v].at \in EndPoints => call'[v].txn # None
         /\ None \notin DOMAIN transactions'
BY NoneAssumption DEF IInv, CallInv, TypeOK, TxnIds

LEMMA NobodyEnds ==
  ASSUME IInv, NEW n \in TxnIds, owner[n] = None
  PROVE  \A v \in Threads : call[v].at \in EndPoints => call[v].txn # n
BY NoneAssumption DEF IInv, CallInv, EndPoints

-----------------------------------------------------------------------------
(* What a native step can do to a transaction that was begun.              *)

\* It keeps its connection, and does not come back into the table.
LEMMA BegunStays ==
  ASSUME IInv, [Next]_vars, NEW x \in TxnIds, owner[x] \in Conns
  PROVE  /\ owner'[x] = owner[x]
         /\ x \notin DOMAIN transactions => x \notin DOMAIN transactions'
<1>1. CASE \E t \in Threads : BeginInsert(t)
  <2>1. x # nextTxnId
    BY Zenon, <1>1, BeginInsertKeeps, NoneAssumption
  <2> QED
    BY Zenon, <1>1, <2>1 DEF BeginInsert, IInv, TypeOK
<1>2. CASE ~ \E t \in Threads : BeginInsert(t)
  <2>1. owner' = owner
    BY <1>2, Zenon DEF Next, vars, Connect, Disconnect, Write, BeginCheck, EndTake, CallStep,
                BeginLookup, BeginSql, BeginDrop, EndLookup, EndSql
  <2>2. DOMAIN transactions' \subseteq DOMAIN transactions
    BY <1>2, Zenon DEF Next, vars, Connect, Disconnect, Write, BeginCheck, EndTake, CallStep,
                BeginLookup, BeginSql, BeginDrop, EndLookup, EndSql, Restrict
  <2> QED
    BY <2>1, <2>2, SMTT(30)
<1> QED
  BY Zenon, <1>1, <1>2

\* What is durable stays durable.
LEMMA DurableGrows ==
  ASSUME IInv, [Next]_vars
  PROVE  durable \subseteq durable'
<1>1. ASSUME NEW c \in Conns, Disconnect(c) PROVE durable \subseteq durable'
  BY Zenon, <1>1 DEF Disconnect, EndUnitOfWork
<1>2. ASSUME NEW t \in Threads, EndSql(t) PROVE durable \subseteq durable'
  BY Zenon, <1>2 DEF EndSql, EndUnitOfWork
<1>3. ASSUME NEW t \in Threads, BeginDrop(t) PROVE durable \subseteq durable'
  BY Zenon, <1>3 DEF BeginDrop, EndUnitOfWork
<1> QED
  BY <1>1, <1>2, <1>3, Zenon DEF Next, vars, Connect, Write, BeginCheck, EndTake, CallStep,
                    BeginLookup, BeginSql, BeginInsert, EndLookup

\* Once it has left the table no statement is executed for it.
LEMMA WritesFixed ==
  ASSUME IInv, [Next]_vars, NEW x \in TxnIds \ DOMAIN transactions
  PROVE  WritesOf(x)' = WritesOf(x)
<1>1. ASSUME NEW c \in Conns, NEW y \in TxnIds \cup {0}, NEW w \in Writes, Write(c, y, w)
      PROVE  WritesOf(x)' = WritesOf(x)
  <2>1. y # x /\ x # None
    BY <1>1, NoneAssumption DEF Write, TxnsOn, TxnIds
  <2>2. writer[w] = None /\ writer' = [writer EXCEPT ![w] = y]
    BY Zenon, <1>1 DEF Write
  <2> QED
    BY Zenon, <2>1, <2>2 DEF WritesOf, IInv, TypeOK
<1>2. CASE writer' = writer
  BY Zenon, <1>2 DEF WritesOf
<1> QED
  BY <1>1, <1>2, Zenon DEF Next, vars, Connect, Disconnect, BeginCheck, EndTake, CallStep,
                    BeginLookup, BeginSql, BeginInsert, BeginDrop, EndLookup, EndSql

\* Its work becomes durable only when its own commit or rollback executes, or
\* its connection's driver fails at a rollback.
LEMMA NotDurable ==
  ASSUME IInv, [Next]_vars, NEW x \in TxnIds, NEW c \in Conns \ (Shared \cup Faulty),
         owner[x] = c, WritesOf(x) \cap durable = {},
         \A t \in Threads : call[t].txn = x /\ EndSql(t) => durable' = durable
  PROVE  WritesOf(x)' \cap durable' = {}
<1>0. x # None /\ durable \subseteq Writes
  BY NoneAssumption DEF TxnIds, IInv, TypeOK
<1>1. \A d \in Conns : \A w \in pending[d] : w \in Writes /\ (writer[w] = x => d = c)
  BY DEF IInv, TypeOK, WriterInv, TxnIds
<1>2. ASSUME NEW d \in Conns, NEW y \in TxnIds \cup {0}, NEW w \in Writes, Write(d, y, w)
      PROVE  WritesOf(x)' \cap durable' = {}
  <2>1. /\ writer[w] = None /\ writer' = [writer EXCEPT ![w] = y]
        /\ w \notin durable /\ durable' \in {durable, durable \cup {w}}
        /\ ~autocommit[d] => durable' = durable
    BY Zenon, <1>2 DEF Write, IInv, WriterInv
  <2>2. y = x => durable' = durable
    <3> SUFFICES ASSUME y = x PROVE durable' = durable
      OBVIOUS
    <3>1. y \in TxnsOn(d)
      BY <1>2 DEF Write, TxnIds
    <3>2. d = c
      BY Zenon, <3>1 DEF TxnsOn, IInv, TxnInv
    <3>3. ~autocommit[d]
      BY Zenon, <3>1, <3>2 DEF IInv, ConnInv
    <3> QED
      BY Zenon, <2>1, <3>3
  <2> QED
    BY Zenon, <1>0, <2>1, <2>2 DEF WritesOf, IInv, TypeOK
<1>3. ASSUME writer' = writer, durable' = durable PROVE WritesOf(x)' \cap durable' = {}
  BY Zenon, <1>3 DEF WritesOf
<1>4. ASSUME NEW t \in Threads, EndSql(t) PROVE WritesOf(x)' \cap durable' = {}
  <2> DEFINE d == call[t].conn
  <2>1. PICK e \in EndTran(d, call[t].kind, pending[d]) : EndUnitOfWork(d, e)
    BY <1>4, SMTT(30) DEF EndSql
  <2>2. /\ call[t].at = "EndSql" /\ writer' = writer /\ d \in Conns
        /\ call[t].kind \in {"commit", "rollback"}
    BY <1>4, CallTypes, SMTT(30) DEF EndSql, CallInv, EndPoints
  <2>3. Settled(d, call[t].kind, e)
    BY Zenon, <2>1, <2>2, UnitStep
  <2>4. durable' \subseteq durable \cup pending[d]
    BY Zenon, <2>3 DEF Settled
  <2>5. CASE call[t].txn = x
    BY <1>3, <1>4, <2>2, <2>5, SMTT(30)
  <2>6. CASE call[t].txn # x
    <3>1. d = c => \A w \in pending[d] : writer[w] = call[t].txn
      <4> SUFFICES ASSUME d = c PROVE \A w \in pending[d] : writer[w] = call[t].txn
        BY Zenon
      <4>1. call[t].at \in EndPoints /\ d \in Conns \ Shared /\ d \notin stuck
        BY <2>2 DEF EndPoints, IInv
      <4>2. Live(d) = {call[t].txn}
        BY <4>1, LiveEnding
      <4>3. connState[d] # "Closed"
        BY <4>1 DEF IInv, ConnInv
      <4> QED
        BY <4>1, <4>2, <4>3 DEF IInv, UnitInv
    <3>2. \A w \in pending[d] : writer[w] # x
      BY <1>1, <2>2, <2>6, <3>1, SMTT(30)
    <3> QED
      BY <2>2, <2>4, <3>2, SMTT(30) DEF WritesOf
  <2> QED
    BY <2>5, <2>6, SMTT(30)
<1>5. ASSUME NEW d \in Conns, NEW e \in EndTran(d, "rollback", pending[d]), EndUnitOfWork(d, e),
             writer' = writer
      PROVE  WritesOf(x)' \cap durable' = {}
  <2>1. (~e.ok => d \in Faulty) /\ Settled(d, "rollback", e)
    BY Zenon, <1>5, UnitStep
  <2>2. durable' \subseteq durable \cup pending[d] /\ (d = c => durable' = durable)
    BY Zenon, <2>1 DEF Settled
  <2>3. CASE d = c
    BY Zenon, <1>3, <1>5, <2>2, <2>3
  <2>4. CASE d # c
    BY <1>1, <1>5, <2>2, <2>4, SMTT(30) DEF WritesOf
  <2> QED
    BY Zenon, <2>3, <2>4
<1>6. ASSUME NEW d \in Conns, Disconnect(d) PROVE WritesOf(x)' \cap durable' = {}
  <2>1. writer' = writer
    BY Zenon, <1>6 DEF Disconnect
  <2>2. CASE TxnsOn(d) = {}
    BY Zenon, <1>3, <1>6, <2>1, <2>2 DEF Disconnect
  <2>3. CASE TxnsOn(d) # {}
    <3>1. PICK e \in EndTran(d, "rollback", pending[d]) : EndUnitOfWork(d, e)
      BY Zenon, <1>6, <2>3 DEF Disconnect, EndTran
    <3> QED
      BY Zenon, <1>5, <2>1, <3>1
  <2> QED
    BY Zenon, <2>2, <2>3
<1>7. ASSUME NEW t \in Threads, BeginDrop(t) PROVE WritesOf(x)' \cap durable' = {}
  <2> DEFINE d == call[t].conn
  <2>1. writer' = writer /\ d \in Conns
    BY <1>7, CallTypes DEF BeginDrop
  <2>2. CASE connState[d] # "Open"
    BY Zenon, <1>3, <1>7, <2>1, <2>2 DEF BeginDrop
  <2>3. CASE connState[d] = "Open"
    <3>1. PICK e \in EndTran(d, "rollback", pending[d]) : EndUnitOfWork(d, e)
      BY <1>7, <2>3 DEF BeginDrop, EndTran
    <3> QED
      BY Zenon, <1>5, <2>1, <3>1
  <2> QED
    BY Zenon, <2>2, <2>3
<1> QED
  BY <1>2, <1>3, <1>4, <1>6, <1>7, Zenon DEF Next, vars, Connect, BeginCheck, EndTake, CallStep,
                    BeginLookup, BeginSql, BeginInsert, EndLookup

\* The steps of a call leave the other calls alone, and the transaction that it
\* ends is the one it took.
LEMMA StepCalls ==
  ASSUME IInv, NEW t \in Threads, CallStep(t) \/ \E c \in Conns : BeginCheck(t, c)
  PROVE  /\ \A v \in Threads \ {t} : call'[v] = call[v]
         /\ call'[t].at \in EndPoints =>
               call[t].at \in EndPoints /\ call'[t].txn = call[t].txn
<1>1. IdleCall.at = "Idle" /\ IdleCall.at \notin EndPoints
  BY Zenon DEF IdleCall, EndPoints
<1>2. call[t] \in Calls /\ call \in [Threads -> Calls]
  BY Zenon DEF IInv, TypeOK
<1>3. \A v \in Threads \ {t} : call'[v] = call[v]
  BY <1>2, Zenon DEF CallStep, BeginCheck, BeginLookup, BeginSql, BeginInsert, BeginDrop,
                     EndLookup, EndSql
<1>4. ASSUME NEW c \in Conns, BeginCheck(t, c) PROVE call'[t].at \notin EndPoints
  BY Zenon, <1>2, <1>4 DEF BeginCheck, EndPoints
<1>5. ASSUME BeginLookup(t) PROVE call'[t].at \notin EndPoints
  BY Zenon, <1>1, <1>2, <1>5 DEF BeginLookup, EndPoints, Calls
<1>6. ASSUME BeginSql(t) PROVE call'[t].at \notin EndPoints
  BY Zenon, <1>1, <1>2, <1>6 DEF BeginSql, EndPoints, Calls
<1>7. ASSUME BeginInsert(t) PROVE call'[t].at \notin EndPoints
  BY Zenon, <1>1, <1>2, <1>7 DEF BeginInsert
<1>8. ASSUME EndSql(t) PROVE call'[t].at \notin EndPoints
  BY Zenon, <1>1, <1>2, <1>8 DEF EndSql
<1>9. ASSUME EndLookup(t), call'[t].at \in EndPoints
      PROVE  call[t].at \in EndPoints /\ call'[t].txn = call[t].txn
  <2>1. call'[t] = [call[t] EXCEPT !.at = "EndSql"] /\ call[t].at = "EndLookup"
    BY <1>1, <1>2, <1>9, Zenon DEF EndLookup
  <2>2. [call[t] EXCEPT !.at = "EndSql"].txn = call[t].txn
    BY Zenon, <1>2 DEF Calls
  <2> QED
    BY Zenon, <2>1, <2>2 DEF EndPoints
<1>10. ASSUME BeginDrop(t) PROVE call'[t].at \notin EndPoints
  BY Zenon, <1>1, <1>2, <1>10 DEF BeginDrop
<1> QED
  BY <1>3, <1>4, <1>5, <1>6, <1>7, <1>8, <1>9, <1>10, SMTT(30) DEF CallStep

LEMMA TakeCalls ==
  ASSUME IInv, NEW t \in Threads, NEW x, NEW kind, EndTake(t, x, kind)
  PROVE  /\ \A v \in Threads \ {t} : call'[v] = call[v]
         /\ call'[t].at = "EndLookup" /\ call'[t].conn = transactions[x]
         /\ call'[t].txn = x /\ call'[t].kind = kind
<1>1. /\ \A v \in Threads \ {t} : call'[v] = call[v]
      /\ call'[t] = [at |-> "EndLookup", conn |-> transactions[x], txn |-> x, kind |-> kind]
  BY Zenon DEF EndTake, IInv, TypeOK
<1> QED
  BY <1>1

\* How the commit or rollback of a helper ends: after a success the work is
\* durable, and over a driver that obeys it is not otherwise.
LEMMA EndOfWork ==
  ASSUME IInv, NEW t \in Threads, EndSql(t), call[t].conn \notin Shared
  PROVE  /\ result'[call[t].txn] = "CommitOk" => WritesOf(call[t].txn) \subseteq durable'
         /\ call[t].conn \notin Faulty
              /\ (call[t].kind = "rollback" \/ result'[call[t].txn] # "CommitOk")
              => durable' = durable
<1> DEFINE c == call[t].conn
           x == call[t].txn
           kind == call[t].kind
<1>1. PICK e \in EndTran(c, kind, pending[c]) :
         EndUnitOfWork(c, e) /\ result' = [result EXCEPT ![x] = Report(kind, e.ok)]
  BY Zenon DEF EndSql
<1>2. /\ x \in TxnIds /\ kind \in {"commit", "rollback"} /\ c \in Conns
      /\ call[t].at = "EndSql"
  BY Zenon, CallTypes DEF EndSql, CallInv, EndPoints
<1>3. c \notin Shared => WritesOf(x) \subseteq pending[c]
  BY <1>2, EndWork DEF EndPoints
<1>4. e.ok \in BOOLEAN /\ (~e.ok => c \in Faulty) /\ Settled(c, kind, e)
  BY Zenon, <1>1, <1>2, UnitStep
<1>5. result'[x] = Report(kind, e.ok)
  BY Zenon, <1>1, <1>2 DEF IInv, TypeOK
<1> HIDE DEF c, kind, x
<1>6. CASE e.ok /\ kind = "commit"
  <2>1. WritesOf(x) \subseteq durable'
    BY <1>3, <1>4, <1>6 DEF Settled, c
  <2>2. Report(kind, e.ok) = "CommitOk"
    BY Zenon, <1>6 DEF Report
  <2> QED
    BY <1>5, <1>6, <2>1, <2>2 DEF c, x, kind
<1>7. CASE e.ok /\ kind = "rollback"
  <2>1. durable' = durable
    BY Zenon, <1>4, <1>7 DEF Settled
  <2>2. Report(kind, e.ok) = "RollbackOk"
    BY Zenon, <1>7 DEF Report
  <2> QED
    BY <1>5, <1>7, <2>1, <2>2 DEF c, x, kind
<1>8. CASE ~e.ok
  <2>1. Report(kind, e.ok) # "CommitOk"
    BY Zenon, <1>2, <1>8 DEF Report
  <2> QED
    BY Zenon, <1>4, <1>5, <1>8, <2>1 DEF c, x, kind
<1> QED
  BY Zenon, <1>2, <1>6, <1>7, <1>8

\* What every helper keeps when its connection and transaction are the same
\* after the step and it does not end its transaction itself.
LEMMA WorkKept ==
  ASSUME HInv, IInv', [Next]_vars, NEW t \in HelperThreads,
         helper'[t].conn = helper[t].conn, helper'[t].txn = helper[t].txn,
         helper'[t].outcome = "Success" => helper[t].outcome = "Success",
         helper[t].outcome = "Success" => helper'[t].outcome = "Success",
         helper[t].outcome # "Success" /\ EndSql(t) /\ Alone(t)
           /\ helper[t].conn \notin Faulty => durable' = durable
  PROVE  WorkInv(t)'
<1> DEFINE x == helper[t].txn
<1>1. x = None \/ x \in TxnIds
  BY Zenon DEF HInv, Helpers
<1>2. SUFFICES ASSUME Alone(t) PROVE WorkInv(t)'
  BY Zenon DEF WorkInv, Alone
<1>3. CASE x = None
  <2>1. helper[t].outcome # "Success"
    BY Zenon, <1>3 DEF HInv, OwnInv
  <2>2. \A w \in Writes : writer'[w] = None => w \notin durable'
    BY Zenon DEF IInv, WriterInv
  <2> QED
    BY Zenon, <1>3, <2>1, <2>2 DEF WorkInv, WritesOf
<1>4. CASE x \in TxnIds
  <2>1. owner[x] = helper[t].conn /\ helper[t].conn \in Conns \ Shared
    BY <1>2, <1>4, NoneAssumption DEF HInv, OwnInv, Alone, TxnIds
  <2>2. CASE helper[t].outcome = "Success"
    <3>1. x \notin DOMAIN transactions /\ WritesOf(x) \subseteq durable
      BY Zenon, <1>2, <2>2 DEF HInv, OwnInv, PhaseInv, WorkInv
    <3> PICK y \in TxnIds \ DOMAIN transactions : y = x
      BY Zenon, <1>4, <3>1
    <3>2. WritesOf(y)' = WritesOf(y)
      BY Zenon, WritesFixed DEF HInv
    <3>3. durable \subseteq durable'
      BY Zenon, DurableGrows DEF HInv
    <3> QED
      BY <2>2, <3>1, <3>2, <3>3, SMTT(30) DEF WorkInv
  <2>3. CASE helper[t].outcome # "Success" /\ helper[t].conn \in Faulty
    BY Zenon, <2>3 DEF WorkInv
  <2>4. CASE helper[t].outcome # "Success" /\ helper[t].conn \notin Faulty
    <3> PICK y \in TxnIds : y = x
      BY Zenon, <1>4
    <3> PICK c \in Conns \ (Shared \cup Faulty) : c = helper[t].conn
      BY Zenon, <2>1, <2>4
    <3>1. WritesOf(y) \cap durable = {}
      BY Zenon, <1>2, <2>4 DEF HInv, WorkInv
    <3>2. ASSUME NEW v \in Threads, call[v].txn = y, EndSql(v) PROVE durable' = durable
      <4>1. v = t
        BY Zenon, <1>2, <3>2 DEF HInv, OwnInv, EndSql, EndPoints
      <4> QED
        BY Zenon, <1>2, <2>4, <3>2, <4>1
    <3>3. WritesOf(y)' \cap durable' = {}
      BY Zenon, <2>1, <3>1, <3>2, NotDurable DEF HInv
    <3> QED
      BY Zenon, <2>4, <3>3 DEF WorkInv
  <2> QED
    BY Zenon, <2>2, <2>3, <2>4
<1> QED
  BY Zenon, <1>1, <1>3, <1>4

\* A step that is not the helper's own leaves what is known of it.
LEMMA OthersKept ==
  ASSUME HInv, IInv', [Next]_vars, NEW t \in HelperThreads,
         helper'[t] = helper[t], call'[t] = call[t],
         \A u \in HelperThreads \ {t} :
             helper[t].txn # None => helper'[u].txn # helper[t].txn,
         \A v \in Threads \ {t} : Alone(t) /\ call'[v].at \in EndPoints =>
             \/ call[v].at \in EndPoints /\ call'[v].txn = call[v].txn
             \/ call'[v].txn # helper[t].txn
  PROVE  PhaseInv(t)' /\ OwnInv(t)' /\ WorkInv(t)'
<1>1. PhaseInv(t)'
  BY Zenon DEF HInv, PhaseInv
<1>2. WorkInv(t)'
  <2>1. ~EndSql(t)
    <3> SUFFICES ASSUME EndSql(t) PROVE FALSE
      OBVIOUS
    <3>1. call[t].at = "EndSql" /\ call'[t] = IdleCall
      BY HelperThreadsAssumption, SMTT(30) DEF EndSql, HInv, IInv, TypeOK
    <3> QED
      BY <3>1 DEF IdleCall
  <2> QED
    BY Zenon, <2>1, WorkKept
<1>3. OwnInv(t)'
  <2> DEFINE x == helper[t].txn
  <2>1. helper[t] \in Helpers /\ (x # None => x \in TxnIds) /\ OwnInv(t)
    BY Zenon DEF HInv, Helpers
  <2>2. ASSUME x # None
        PROVE  /\ owner'[x] = owner[x]
               /\ x \notin DOMAIN transactions => x \notin DOMAIN transactions'
    BY Zenon, <2>1, <2>2, BegunStays DEF HInv, OwnInv
  <2>3. x = None => x \notin DOMAIN transactions'
    BY NoneAssumption DEF IInv, TypeOK, TxnIds
  <2>4. ASSUME Alone(t), NEW v \in Threads, call'[v].at \in EndPoints, call'[v].txn = x
        PROVE  v = t
    BY Zenon, <2>1, <2>4 DEF OwnInv
  <2>5. Alone(t)' <=> Alone(t)
    BY Zenon DEF Alone
  <2> QED
    BY Zenon, <2>1, <2>2, <2>3, <2>4, <2>5 DEF OwnInv
<1> QED
  BY Zenon, <1>1, <1>2, <1>3

\* What a helper's own step may do around it: nobody else moves, a transaction it
\* ends is its own, and one it gets is new.
Moves(u) ==
    /\ helper' \in [HelperThreads -> Helpers]
    /\ \A t \in HelperThreads \ {u} : helper'[t] = helper[t]
    /\ \A v \in Threads \ {u} : call'[v] = call[v]
    /\ call'[u].at \in EndPoints =>
          \/ call[u].at \in EndPoints /\ call'[u].txn = call[u].txn
          \/ call'[u].txn = helper[u].txn
    /\ helper'[u].txn # helper[u].txn =>
          helper'[u].txn \in TxnIds /\ owner[helper'[u].txn] = None

\* What a helper's own step must show: the other helpers follow.
LEMMA HelperStep ==
  ASSUME HInv, [Next]_vars, NEW u \in HelperThreads, Moves(u),
         PhaseInv(u)', OwnInv(u)', WorkInv(u)'
  PROVE  HInv'
<1>1. IInv'
  BY Zenon, NextIInv DEF HInv
<1>2. ASSUME NEW t \in HelperThreads \ {u}
      PROVE  PhaseInv(t)' /\ OwnInv(t)' /\ WorkInv(t)'
  <2>1. t \in Threads /\ call'[t] = call[t] /\ helper'[t] = helper[t] /\ OwnInv(t)
    BY Zenon, HelperThreadsAssumption DEF HInv, Moves
  <2>2. ASSUME NEW w \in HelperThreads \ {t}, helper[t].txn # None
        PROVE  helper'[w].txn # helper[t].txn
    <3>1. helper[w].txn # helper[t].txn /\ owner[helper[t].txn] # None
      BY Zenon, <2>1, <2>2, NoneAssumption DEF OwnInv
    <3> QED
      BY Zenon, <2>1, <3>1 DEF Moves
  <2>3. ASSUME NEW v \in Threads \ {t}, call'[v].at \in EndPoints
        PROVE  \/ call[v].at \in EndPoints /\ call'[v].txn = call[v].txn
               \/ call'[v].txn # helper[t].txn
    <3>1. call'[v].txn # None
      BY Zenon, <1>1, <2>3, RealTransactions
    <3>2. helper[u].txn # None => helper[u].txn # helper[t].txn
      BY Zenon, <2>1 DEF OwnInv
    <3> QED
      BY Zenon, <2>3, <3>1, <3>2 DEF Moves
  <2> QED
    BY Zenon, <1>1, <2>1, <2>2, <2>3, OthersKept
<1>3. helper' \in [HelperThreads -> Helpers]
  BY Zenon DEF Moves
<1> QED
  BY Zenon, <1>1, <1>2, <1>3 DEF HInv

\* A helper without a transaction owns nothing and has no work.
LEMMA OwnNone ==
  ASSUME IInv', NEW t \in HelperThreads, helper'[t].txn = None,
         helper'[t].outcome # "Success", helper'[t].phase \in {"Begin", "Returned"}
  PROVE  OwnInv(t)' /\ WorkInv(t)'
<1>1. /\ \A v \in Threads : call'[v].at \in EndPoints => call'[v].txn # None
      /\ None \notin DOMAIN transactions'
  BY Zenon, RealTransactions
<1>2. OwnInv(t)'
  BY Zenon, <1>1 DEF OwnInv, Ending
<1>3. WorkInv(t)'
  BY Zenon DEF IInv, WriterInv, WorkInv, WritesOf
<1> QED
  BY Zenon, <1>2, <1>3

\* A helper keeps its transaction: it stays its own.
LEMMA OwnKept ==
  ASSUME HInv, [Next]_vars, NEW t \in HelperThreads, Moves(t),
         helper[t].txn # None, helper'[t].txn = helper[t].txn, helper'[t].conn = helper[t].conn,
         helper'[t].phase \in {"Action", "Returned"} \cup Ending,
         helper'[t].phase = "Returned" => helper[t].txn \notin DOMAIN transactions
  PROVE  OwnInv(t)'
<1>1. PICK x \in TxnIds : x = helper[t].txn
  BY Zenon DEF HInv, Helpers
<1>2. /\ owner[x] \in Conns /\ owner[x] = helper[t].conn
      /\ \A u \in HelperThreads : helper[u].txn = x => u = t
      /\ Alone(t) => \A v \in Threads : call[v].at \in EndPoints /\ call[v].txn = x => v = t
  BY Zenon, <1>1 DEF HInv, OwnInv
<1>3. owner'[x] = owner[x] /\ (x \notin DOMAIN transactions => x \notin DOMAIN transactions')
  BY Zenon, <1>2, BegunStays DEF HInv
<1>4. \A u \in HelperThreads : helper'[u].txn = x => u = t
  BY Zenon, <1>2 DEF Moves
<1>5. Alone(t)' => \A v \in Threads : call'[v].at \in EndPoints /\ call'[v].txn = x => v = t
  BY Zenon, <1>2 DEF Moves, Alone
<1> QED
  BY Zenon, <1>1, <1>2, <1>3, <1>4, <1>5 DEF OwnInv, Ending

LEMMA Returns ==
  ASSUME helper \in [HelperThreads -> Helpers], NEW t \in HelperThreads,
         NEW o \in {"Success", "Failure"}, Return(t, o)
  PROVE  /\ helper' \in [HelperThreads -> Helpers]
         /\ \A u \in HelperThreads \ {t} : helper'[u] = helper[u]
         /\ helper'[t].phase = "Returned" /\ helper'[t].outcome = o
         /\ helper'[t].conn = helper[t].conn /\ helper'[t].txn = helper[t].txn
<1> DEFINE a == [helper[t] EXCEPT !.phase = "Returned"]
           b == [a EXCEPT !.outcome = o]
<1>1. a \in Helpers /\ a.phase = "Returned" /\ a.conn = helper[t].conn /\ a.txn = helper[t].txn
  BY Zenon DEF Helpers, Phases
<1>2. helper' = [helper EXCEPT ![t] = b]
  BY Zenon DEF Return
<1> HIDE DEF a
<1>3. /\ b \in Helpers /\ b.phase = a.phase /\ b.outcome = o
      /\ b.conn = a.conn /\ b.txn = a.txn
  BY Zenon, <1>1 DEF Helpers
<1> HIDE DEF b
<1> QED
  BY Zenon, <1>1, <1>2, <1>3

\* A helper returns, with its thread in no call and its transaction ended.
LEMMA Finished ==
  ASSUME HInv, [Next]_vars, NEW t \in HelperThreads,
         NEW o \in {"Success", "Failure"}, Return(t, o),
         \A v \in Threads \ {t} : call'[v] = call[v], call'[t] = IdleCall,
         helper[t].txn = None => o = "Failure",
         helper[t].txn # None => helper[t].txn \notin DOMAIN transactions /\ WorkInv(t)'
  PROVE  HInv'
<1>1. /\ helper' \in [HelperThreads -> Helpers]
      /\ \A u \in HelperThreads \ {t} : helper'[u] = helper[u]
      /\ helper'[t].phase = "Returned" /\ helper'[t].outcome = o
      /\ helper'[t].conn = helper[t].conn /\ helper'[t].txn = helper[t].txn
  BY Zenon, Returns DEF HInv
<1>2. Moves(t)
  BY <1>1 DEF Moves, IdleCall, EndPoints
<1>3. PhaseInv(t)'
  BY Zenon, <1>1 DEF PhaseInv, Ending
<1>4. CASE helper[t].txn = None
  <2>1. IInv'
    BY Zenon, NextIInv DEF HInv
  <2> QED
    BY Zenon, <1>1, <1>2, <1>3, <1>4, <2>1, OwnNone, HelperStep
<1>5. CASE helper[t].txn # None
  <2>1. OwnInv(t)'
    BY Zenon, <1>1, <1>2, <1>5, OwnKept
  <2> QED
    BY Zenon, <1>2, <1>3, <1>5, <2>1, HelperStep
<1> QED
  BY Zenon, <1>4, <1>5
-----------------------------------------------------------------------------
(* The steps of a helper.                                                  *)

LEMMA HBeginKeeps ==
  ASSUME HInv, NEW t \in HelperThreads, NEW c \in Conns, HBegin(t, c), [Next]_vars
  PROVE  HInv'
<1>1. /\ t \in Threads /\ helper[t] \in Helpers /\ helper \in [HelperThreads -> Helpers]
      /\ PhaseInv(t) /\ OwnInv(t) /\ IInv /\ IInv' /\ call \in [Threads -> Calls]
  BY Zenon, HelperFacts
<1>2. /\ helper[t].phase = "Out" /\ helper[t].txn = None
      /\ helper[t].outcome = "None" /\ call[t] = IdleCall
  BY Zenon, <1>1 DEF HBegin, PhaseInv, OwnInv
<1>3. CASE BeginCheck(t, c) /\ helper' = [helper EXCEPT ![t].phase = "Begin", ![t].conn = c]
  <2> DEFINE a == [helper[t] EXCEPT !.phase = "Begin"]
             b == [a EXCEPT !.conn = c]
  <2>1. a \in Helpers /\ a.phase = "Begin" /\ a.outcome = "None" /\ a.txn = None
    BY Zenon, <1>1, <1>2 DEF Helpers, Phases
  <2>2. helper' = [helper EXCEPT ![t] = b]
    BY <1>3, ZenonT(30)
  <2> HIDE DEF a
  <2>3. /\ b \in Helpers /\ b.phase = "Begin" /\ b.outcome = "None"
        /\ b.conn = c /\ b.txn = None
    BY Zenon, <2>1 DEF Helpers
  <2> HIDE DEF b
  <2>4. /\ helper'[t] = b /\ \A u \in HelperThreads \ {t} : helper'[u] = helper[u]
        /\ helper' \in [HelperThreads -> Helpers]
    BY Zenon, <1>1, <2>2, <2>3
  <2>5. /\ \A v \in Threads \ {t} : call'[v] = call[v]
        /\ call'[t].at = "BeginLookup" /\ call'[t].conn = c
    BY Zenon, <1>1, <1>3 DEF BeginCheck
  <2>6. PhaseInv(t)'
    BY Zenon, <2>3, <2>4, <2>5 DEF PhaseInv, Ending, BeginPoints
  <2>7. OwnInv(t)' /\ WorkInv(t)'
    BY Zenon, <1>1, <2>3, <2>4, OwnNone
  <2>8. Moves(t)
    BY Zenon, <1>2, <2>3, <2>4, <2>5 DEF Moves, EndPoints
  <2> QED
    BY Zenon, <2>6, <2>7, <2>8, HelperStep
<1>4. CASE Return(t, "Failure") /\ UNCHANGED vars
  BY Zenon, <1>2, <1>4, Finished DEF vars
<1> QED
  BY Zenon, <1>3, <1>4 DEF HBegin

LEMMA HBeginStepKeeps ==
  ASSUME HInv, NEW t \in HelperThreads, HBeginStep(t), [Next]_vars
  PROVE  HInv'
<1>1. /\ t \in Threads /\ helper[t] \in Helpers /\ helper \in [HelperThreads -> Helpers]
      /\ PhaseInv(t) /\ OwnInv(t) /\ IInv /\ IInv' /\ call \in [Threads -> Calls]
  BY Zenon, HelperFacts
<1>2. helper[t].phase = "Begin"
  BY Zenon DEF HBeginStep
<1>3. /\ helper[t].txn = None /\ helper[t].outcome = "None"
      /\ call[t].conn = helper[t].conn
  BY Zenon, <1>1, <1>2 DEF PhaseInv, OwnInv
<1>4. /\ \A v \in Threads \ {t} : call'[v] = call[v]
      /\ call'[t].at \in EndPoints =>
            call[t].at \in EndPoints /\ call'[t].txn = call[t].txn
  BY Zenon, <1>1, StepCalls DEF HBeginStep, CallStep
<1>5. call'[t] # IdleCall => call'[t].at \in BeginPoints /\ call'[t].conn = call[t].conn
  <2>1. BeginLookup(t) => call'[t] \in {IdleCall, [call[t] EXCEPT !.at = "BeginSql"]}
    BY Zenon, <1>1 DEF BeginLookup
  <2>2. BeginSql(t) => call'[t] \in {IdleCall, [call[t] EXCEPT !.at = "BeginInsert"]}
    BY Zenon, <1>1 DEF BeginSql
  <2>3. call[t] \in Calls
    BY Zenon, <1>1
  <2>4. BeginDrop(t) => call'[t] = IdleCall
    BY Zenon, <1>1 DEF BeginDrop
  <2> QED
    BY Zenon, <2>1, <2>2, <2>3, <2>4 DEF HBeginStep, Calls, BeginPoints
<1>6. CASE call'[t] = IdleCall
  <2>1. Return(t, "Failure")
    BY Zenon, <1>6 DEF HBeginStep
  <2> QED
    BY Zenon, <1>3, <1>4, <1>6, <2>1, Finished
<1>7. CASE call'[t] # IdleCall
  <2>1. helper' = helper
    BY Zenon, <1>7 DEF HBeginStep
  <2>2. PhaseInv(t)'
    BY Zenon, <1>2, <1>3, <1>5, <1>7, <2>1 DEF PhaseInv, Ending
  <2>3. OwnInv(t)' /\ WorkInv(t)'
    BY Zenon, <1>1, <1>2, <1>3, <2>1, OwnNone
  <2>4. Moves(t)
    BY Zenon, <1>1, <1>4, <2>1 DEF Moves
  <2> QED
    BY Zenon, <2>2, <2>3, <2>4, HelperStep
<1> QED
  BY Zenon, <1>6, <1>7

LEMMA HBegunKeeps ==
  ASSUME HInv, NEW t \in HelperThreads, HBegun(t), [Next]_vars
  PROVE  HInv'
<1>1. /\ t \in Threads /\ helper[t] \in Helpers /\ helper \in [HelperThreads -> Helpers]
      /\ PhaseInv(t) /\ OwnInv(t) /\ IInv /\ IInv' /\ call \in [Threads -> Calls]
  BY Zenon, HelperFacts
<1>2. helper[t].phase = "Begin" /\ call[t].at = "BeginInsert" /\ BeginInsert(t)
  BY Zenon DEF HBegun, BeginInsert
<1>3. /\ helper[t].txn = None /\ helper[t].outcome = "None"
      /\ call[t].conn = helper[t].conn
  BY Zenon, <1>1, <1>2 DEF PhaseInv, OwnInv
<1>4. PICK n \in TxnIds : n = nextTxnId /\ owner[n] = None /\ WritesOf(n) = {}
  BY Zenon, <1>1, <1>2, BeginInsertKeeps
<1>5. PICK c \in Conns : c = call[t].conn
  BY Zenon, <1>1, <1>2, CallTypes
<1>6. /\ \A v \in Threads \ {t} : call'[v] = call[v]
      /\ call'[t] = IdleCall /\ call'[t].at \notin EndPoints
      /\ owner'[n] = c /\ writer' = writer
  BY Zenon, <1>1, <1>2, <1>4, <1>5 DEF BeginInsert, IdleCall, EndPoints, IInv, TypeOK
<1> DEFINE a == [helper[t] EXCEPT !.phase = "Action"]
           b == [a EXCEPT !.txn = n]
<1>7. a \in Helpers /\ a.phase = "Action" /\ a.outcome = "None" /\ a.conn = c
  BY Zenon, <1>1, <1>3, <1>5 DEF Helpers, Phases
<1>8. helper' = [helper EXCEPT ![t] = b]
  BY <1>4, ZenonT(30) DEF HBegun
<1> HIDE DEF a
<1>9. /\ b \in Helpers /\ b.phase = "Action" /\ b.outcome = "None"
      /\ b.conn = c /\ b.txn = n
  BY Zenon, <1>7 DEF Helpers
<1> HIDE DEF b
<1>10. /\ helper'[t] = b /\ \A u \in HelperThreads \ {t} : helper'[u] = helper[u]
       /\ helper' \in [HelperThreads -> Helpers]
  BY Zenon, <1>1, <1>8, <1>9
<1>11. n # None
  BY NoneAssumption DEF TxnIds
<1>12. PhaseInv(t)'
  BY Zenon, <1>6, <1>9, <1>10 DEF PhaseInv, Ending
<1>13. OwnInv(t)'
  <2>1. \A u \in HelperThreads \ {t} : helper'[u].txn # n
    <3> SUFFICES ASSUME NEW u \in HelperThreads \ {t}, helper[u].txn = n PROVE FALSE
      BY Zenon, <1>10
    <3>1. OwnInv(u)
      BY Zenon DEF HInv
    <3>2. owner[n] \in Conns
      BY Zenon, <1>11, <3>1 DEF OwnInv
    <3> QED
      BY Zenon, <1>4, <3>2, NoneAssumption
  <2>2. \A v \in Threads : call'[v].at \in EndPoints => call'[v].txn # n
    BY Zenon, <1>1, <1>4, <1>6, NobodyEnds
  <2> QED
    BY Zenon, <1>6, <1>9, <1>10, <1>11, <2>1, <2>2 DEF OwnInv, Ending
<1>14. WorkInv(t)'
  <2>1. WritesOf(n)' = {}
    BY Zenon, <1>4, <1>6 DEF WritesOf
  <2> QED
    BY Zenon, <1>9, <1>10, <2>1 DEF WorkInv
<1>15. Moves(t)
  BY Zenon, <1>4, <1>6, <1>9, <1>10 DEF Moves
<1> QED
  BY Zenon, <1>12, <1>13, <1>14, <1>15, HelperStep

LEMMA HWriteKeeps ==
  ASSUME HInv, NEW t \in HelperThreads, NEW w \in Writes, HWrite(t, w), [Next]_vars
  PROVE  HInv'
<1>1. IInv' /\ helper' = helper /\ call' = call
  BY Zenon, NextIInv DEF HInv, HWrite, Write
<1>2. ASSUME NEW u \in HelperThreads PROVE PhaseInv(u)' /\ OwnInv(u)' /\ WorkInv(u)'
  <2>1. \A v \in HelperThreads \ {u} : helper[u].txn # None => helper'[v].txn # helper[u].txn
    BY Zenon, <1>1 DEF HInv, OwnInv
  <2> QED
    BY Zenon, <1>1, <2>1, OthersKept
<1> QED
  BY Zenon, <1>1, <1>2 DEF HInv

LEMMA HActionEndsKeeps ==
  ASSUME HInv, Helper = "runInTransaction",
         NEW t \in HelperThreads, NEW ok \in BOOLEAN, HActionEnds(t, ok), [Next]_vars
  PROVE  HInv'
<1>1. /\ t \in Threads /\ helper[t] \in Helpers /\ helper \in [HelperThreads -> Helpers]
      /\ PhaseInv(t) /\ OwnInv(t) /\ IInv /\ IInv' /\ call \in [Threads -> Calls]
  BY Zenon, HelperFacts
<1>2. helper[t].phase = "Action"
  BY Zenon DEF HActionEnds
<1>3. PICK x \in TxnIds : x = helper[t].txn /\ x # None
  BY Zenon, <1>1, <1>2 DEF OwnInv, Helpers
<1>4. /\ helper[t].outcome = "None" /\ call[t] = IdleCall
      /\ owner[x] = helper[t].conn /\ helper[t].conn \in Conns
  BY Zenon, <1>1, <1>2, <1>3 DEF PhaseInv, OwnInv
<1>5. ~EndSql(t)
  BY <1>4 DEF IdleCall, EndSql
<1>6. CASE x \in DOMAIN transactions
  <2> DEFINE kind == IF ok THEN "commit" ELSE "rollback"
             phase == IF ok THEN "Commit" ELSE "Rollback"
             b == [helper[t] EXCEPT !.phase = phase]
  <2>1. EndTake(t, x, kind)
    BY Zenon, <1>3, <1>6 DEF HActionEnds
  <2>2. helper' = [helper EXCEPT ![t] = b]
    BY Zenon, <1>3, <1>6 DEF HActionEnds
  <2>3. phase \in Ending /\ kind = IF phase = "Commit" THEN "commit" ELSE "rollback"
    BY Zenon DEF Ending
  <2> HIDE DEF kind, phase
  <2>4. /\ \A v \in Threads \ {t} : call'[v] = call[v]
        /\ call'[t].at = "EndLookup" /\ call'[t].conn = transactions[x]
        /\ call'[t].txn = x /\ call'[t].kind = kind
    <3>1. t \in Threads /\ IInv
      BY Zenon, <1>1
    <3> QED
      BY Zenon, <2>1, <3>1, TakeCalls
  <2>5. transactions[x] = helper[t].conn
    BY Zenon, <1>1, <1>4, <1>6 DEF IInv, TxnInv
  <2>6. /\ b \in Helpers /\ b.phase = phase /\ b.outcome = "None"
        /\ b.conn = helper[t].conn /\ b.txn = x
    BY Zenon, <1>1, <1>3, <1>4, <2>3 DEF Helpers, Phases, Ending
  <2> HIDE DEF b
  <2>7. /\ helper'[t] = b /\ \A u \in HelperThreads \ {t} : helper'[u] = helper[u]
        /\ helper' \in [HelperThreads -> Helpers]
    BY Zenon, <1>1, <2>2, <2>6
  <2>8. PhaseInv(t)'
    BY Zenon, <2>3, <2>4, <2>5, <2>6, <2>7 DEF PhaseInv, Ending, EndPoints
  <2>9. Moves(t)
    BY Zenon, <1>3, <2>4, <2>6, <2>7 DEF Moves
  <2>10. OwnInv(t)'
    BY Zenon, <1>3, <2>3, <2>6, <2>7, <2>9, OwnKept DEF Ending
  <2>11. WorkInv(t)'
    BY Zenon, <1>1, <1>3, <1>4, <1>5, <2>6, <2>7, WorkKept
  <2> QED
    BY Zenon, <2>8, <2>9, <2>10, <2>11, HelperStep
<1>7. CASE x \notin DOMAIN transactions
  <2>1. Return(t, "Failure") /\ call' = call
    BY Zenon, <1>3, <1>7 DEF HActionEnds, AfterCommit, vars
  <2>2. /\ helper'[t].outcome = "Failure"
        /\ helper'[t].conn = helper[t].conn /\ helper'[t].txn = helper[t].txn
    BY Zenon, <1>1, <2>1, Returns
  <2>3. WorkInv(t)'
    BY Zenon, <1>1, <1>3, <1>4, <1>5, <2>2, WorkKept
  <2> QED
    BY Zenon, <1>3, <1>4, <1>7, <2>1, <2>3, Finished
<1> QED
  BY Zenon, <1>6, <1>7

LEMMA HEndStepKeeps ==
  ASSUME HInv, Helper = "runInTransaction", NEW t \in HelperThreads, HEndStep(t), [Next]_vars
  PROVE  HInv'
<1>1. /\ t \in Threads /\ helper[t] \in Helpers /\ helper \in [HelperThreads -> Helpers]
      /\ PhaseInv(t) /\ OwnInv(t) /\ IInv /\ IInv' /\ call \in [Threads -> Calls]
  BY Zenon, HelperFacts
<1>2. helper[t].phase \in Ending
  BY Zenon DEF HEndStep, Ending
<1>3. PICK x \in TxnIds : x = helper[t].txn /\ x # None
  BY Zenon, <1>1, <1>2 DEF OwnInv, Helpers
<1>4. /\ owner[x] = helper[t].conn /\ helper[t].conn \in Conns
      /\ call[t].at \in EndPoints /\ call[t].txn = x /\ call[t].conn = helper[t].conn
      /\ call[t].kind = IF helper[t].phase = "Commit" THEN "commit" ELSE "rollback"
  BY Zenon, <1>1, <1>2, <1>3 DEF PhaseInv, OwnInv
<1>5. helper[t].outcome = "None"
  BY Zenon, <1>1, <1>2 DEF PhaseInv, Ending
<1>6. x \notin DOMAIN transactions
  BY Zenon, <1>1, <1>4 DEF IInv, CallInv
<1>7. /\ \A v \in Threads \ {t} : call'[v] = call[v]
      /\ call'[t].at \in EndPoints =>
            call[t].at \in EndPoints /\ call'[t].txn = call[t].txn
  BY Zenon, <1>1, StepCalls DEF HEndStep, CallStep
<1>8. CASE call'[t] # IdleCall
  <2>1. helper' = helper /\ call'[t] = [call[t] EXCEPT !.at = "EndSql"]
    BY <1>1, <1>8, Zenon DEF HEndStep, EndLookup, EndSql
  <2>2. /\ call'[t].at = "EndSql" /\ call'[t].txn = call[t].txn
        /\ call'[t].conn = call[t].conn /\ call'[t].kind = call[t].kind
    BY Zenon, <1>1, <2>1 DEF Calls
  <2>3. ~EndSql(t)
    BY Zenon, <1>1, <1>8 DEF EndSql
  <2>4. PhaseInv(t)'
    BY Zenon, <1>2, <1>3, <1>4, <1>5, <2>1, <2>2 DEF PhaseInv, Ending, EndPoints
  <2>5. Moves(t)
    BY Zenon, <1>1, <1>7, <2>1 DEF Moves
  <2>6. OwnInv(t)'
    BY Zenon, <1>2, <1>3, <2>1, <2>5, OwnKept DEF Ending
  <2>7. WorkInv(t)'
    BY Zenon, <1>1, <2>1, <2>3, WorkKept
  <2> QED
    BY Zenon, <2>4, <2>5, <2>6, <2>7, HelperStep
<1>9. CASE call'[t] = IdleCall
  <2> DEFINE o == IF helper[t].phase = "Commit" /\ result'[x] = "CommitOk"
                  THEN "Success" ELSE "Failure"
  <2>1. Return(t, o)
    BY Zenon, <1>3, <1>9 DEF HEndStep, AfterCommit
  <2>2. o \in {"Success", "Failure"}
    OBVIOUS
  <2> HIDE DEF o
  <2>3. /\ helper'[t].outcome = o
        /\ helper'[t].conn = helper[t].conn /\ helper'[t].txn = x
    BY Zenon, <1>1, <1>3, <2>1, <2>2, Returns
  <2>4. WorkInv(t)'
    <3>1. CASE ~Alone(t)
      BY Zenon, <2>3, <3>1 DEF WorkInv, Alone
    <3>2. CASE Alone(t) /\ o = "Success"
      <4>1. result'[x] = "CommitOk"
        BY Zenon, <3>2 DEF o
      <4>2. EndSql(t)
        <5>1. EndLookup(t) =>
                 \/ call'[t] = [call[t] EXCEPT !.at = "EndSql"]
                 \/ result' = [result EXCEPT ![x] = Report(call[t].kind, FALSE)]
          BY <1>1, <1>4, Zenon DEF EndLookup
        <5>2. [call[t] EXCEPT !.at = "EndSql"] # IdleCall
          BY Zenon, <1>1 DEF Calls, IdleCall
        <5>3. result \in [TxnIds -> Results]
          BY Zenon, <1>1 DEF IInv, TypeOK
        <5>4. EndLookup(t) => result'[x] = Report(call[t].kind, FALSE)
          BY <1>9, <5>1, <5>2, <5>3, Zenon
        <5>5. Report(call[t].kind, FALSE) # "CommitOk"
          BY Zenon, <1>4 DEF Report
        <5> QED
          BY <4>1, <5>4, <5>5, Zenon DEF HEndStep
      <4>3. WritesOf(x) \subseteq durable'
        BY Zenon, <1>1, <1>4, <3>2, <4>1, <4>2, EndOfWork DEF Alone
      <4>4. WritesOf(x)' = WritesOf(x)
        BY Zenon, <1>1, <1>6, WritesFixed
      <4> QED
        BY Zenon, <2>3, <3>2, <4>3, <4>4 DEF WorkInv
    <3>3. CASE Alone(t) /\ o = "Failure"
      <4>1. EndSql(t) /\ helper[t].conn \notin Faulty => durable' = durable
        <5>1. helper[t].phase = "Commit" => result'[x] # "CommitOk"
          BY Zenon, <3>3 DEF o
        <5>2. call[t].kind = "rollback" \/ result'[x] # "CommitOk"
          BY Zenon, <1>4, <1>2, <5>1 DEF Ending
        <5> QED
          BY Zenon, <1>1, <1>4, <3>3, <5>2, EndOfWork DEF Alone
      <4> QED
        BY Zenon, <1>1, <1>3, <1>4, <1>5, <2>3, <3>3, <4>1, WorkKept
    <3> QED
      BY Zenon, <2>2, <3>1, <3>2, <3>3
  <2> QED
    BY Zenon, <1>3, <1>6, <1>7, <1>9, <2>1, <2>2, <2>4, Finished
<1> QED
  BY Zenon, <1>8, <1>9

\* Calls that are not a helper's leave the helpers and their transactions alone.
LEMMA DirectKeeps ==
  ASSUME HInv, DirectCall, UNCHANGED helper, [Next]_vars
  PROVE  HInv'
<1>1. IInv /\ IInv'
  BY Zenon, NextIInv DEF HInv
<1>2. SUFFICES ASSUME NEW t \in HelperThreads PROVE PhaseInv(t)' /\ OwnInv(t)' /\ WorkInv(t)'
  BY Zenon, <1>1 DEF HInv
<1>3. \A u \in HelperThreads \ {t} : helper[t].txn # None => helper'[u].txn # helper[t].txn
  BY Zenon DEF HInv, OwnInv
<1>4. SUFFICES
         /\ call'[t] = call[t]
         /\ \A v \in Threads \ {t} : Alone(t) /\ call'[v].at \in EndPoints =>
                \/ call[v].at \in EndPoints /\ call'[v].txn = call[v].txn
                \/ call'[v].txn # helper[t].txn
  BY Zenon, <1>1, <1>3, OthersKept
<1>5. t \in Threads
  BY Zenon, HelperThreadsAssumption
<1>6. CASE call' = call
  BY Zenon, <1>6
<1>7. CASE \E u \in Threads \ HelperThreads : CallStep(u) \/ \E c \in Conns : BeginCheck(u, c)
  BY Zenon, <1>1, <1>5, <1>7, StepCalls
<1>8. CASE \E u \in Threads \ HelperThreads, x \in DOMAIN transactions \ HelperTxns,
              kind \in {"commit", "rollback"} : EndTake(u, x, kind)
  <2>1. PICK u \in Threads \ HelperThreads, x \in DOMAIN transactions \ HelperTxns,
              kind \in {"commit", "rollback"} : EndTake(u, x, kind)
    BY Zenon, <1>8
  <2>2. (\A v \in Threads \ {u} : call'[v] = call[v]) /\ call'[u].txn = x
    BY <1>1, <2>1, TakeCalls, SMTT(30)
  <2>3. Alone(t) => x # helper[t].txn
    BY Zenon, <2>1 DEF HelperTxns, Alone
  <2> QED
    BY Zenon, <1>5, <2>1, <2>2, <2>3
<1> QED
  BY <1>6, <1>7, <1>8, Zenon DEF DirectCall, Connect, Disconnect, Write

LEMMA InitHInv == HInit => HInv
<1> SUFFICES ASSUME HInit PROVE HInv
  OBVIOUS
<1> DEFINE out == [phase |-> "Out", conn |-> None, txn |-> None, outcome |-> "None"]
<1>1. /\ IInv /\ \A t \in Threads : call[t] = IdleCall
      /\ durable = {}
  BY Zenon, InitIInv DEF HInit, Init
<1>2. /\ out \in Helpers /\ out.phase = "Out" /\ out.conn = None /\ out.txn = None
      /\ out.outcome = "None"
  BY Zenon DEF Helpers, Phases
<1>3. helper = [t \in HelperThreads |-> out]
  BY Zenon DEF HInit
<1> HIDE DEF out
<1>4. \A t \in HelperThreads : helper[t] = out /\ t \in Threads
  BY Zenon, <1>3, HelperThreadsAssumption
<1>5. ASSUME NEW t \in HelperThreads PROVE PhaseInv(t) /\ OwnInv(t) /\ WorkInv(t)
  BY <1>1, <1>2, <1>4 DEF PhaseInv, OwnInv, WorkInv, Ending, IdleCall, EndPoints
<1> QED
  BY Zenon, <1>1, <1>2, <1>3, <1>5 DEF HInv

\* A step of a helper or of a direct call is a step of the native transactions.
LEMMA HNextNative == HInv /\ [HNext]_hvars => [Next]_vars
<1> SUFFICES ASSUME HInv, [HNext]_hvars PROVE [Next]_vars
  OBVIOUS
<1>1. ASSUME NEW t \in HelperThreads, NEW w \in Writes, HWrite(t, w) PROVE Next
  <2>1. helper[t].conn \in Conns /\ helper[t].txn \in TxnIds
    BY Zenon, <1>1 DEF HWrite, HInv, OwnInv, Helpers
  <2> QED
    BY Zenon, <1>1, <2>1 DEF HWrite, Next
<1>2. ASSUME NEW t \in HelperThreads, NEW ok \in BOOLEAN, HActionEnds(t, ok) PROVE [Next]_vars
  <2>1. t \in Threads
    BY Zenon, HelperThreadsAssumption
  <2> QED
    BY <1>2, <2>1, Zenon DEF HActionEnds, Next
<1>3. ASSUME NEW t \in HelperThreads, NEW c \in Conns, HBegin(t, c) PROVE [Next]_vars
  BY Zenon, <1>3, HelperThreadsAssumption DEF HBegin, Next
<1>4. ASSUME NEW t \in HelperThreads, HStep(t) PROVE Next
  BY Zenon, <1>4, HelperThreadsAssumption DEF HStep, HBeginStep, HBegun, HEndStep, CallStep, Next
<1>5. ASSUME DirectCall PROVE Next
  BY Zenon, <1>5 DEF DirectCall, Next
<1>6. CASE UNCHANGED hvars
  BY Zenon, <1>6 DEF hvars
<1> QED
  BY <1>1, <1>2, <1>3, <1>4, <1>5, <1>6, SMTT(30) DEF HNext

LEMMA NextHInv ==
  ASSUME Helper = "runInTransaction"
  PROVE  HInv /\ [HNext]_hvars => HInv'
<1> SUFFICES ASSUME HInv, [HNext]_hvars PROVE HInv'
  OBVIOUS
<1>1. [Next]_vars
  BY HNextNative, SMTT(30)
<1>2. CASE UNCHANGED hvars
  <2>1. helper' = helper /\ call' = call /\ IInv'
    BY Zenon, <1>1, <1>2, NextIInv DEF hvars, vars, HInv
  <2>2. /\ owner' = owner /\ transactions' = transactions
        /\ writer' = writer /\ durable' = durable
    BY Zenon, <1>2 DEF hvars, vars
  <2>3. ASSUME NEW t \in HelperThreads PROVE PhaseInv(t)'
    <3>1. PhaseInv(t)
      BY Zenon DEF HInv
    <3> QED
      BY Zenon, <2>1, <3>1 DEF PhaseInv
  <2>4. ASSUME NEW t \in HelperThreads PROVE OwnInv(t)'
    <3>1. OwnInv(t)
      BY Zenon DEF HInv
    <3> QED
      BY Zenon, <2>1, <2>2, <3>1 DEF OwnInv, Alone
  <2>5. ASSUME NEW t \in HelperThreads PROVE WorkInv(t)'
    <3>1. WorkInv(t)
      BY Zenon DEF HInv
    <3> QED
      BY Zenon, <2>1, <2>2, <3>1 DEF WorkInv, Alone, WritesOf
  <2> QED
    BY Zenon, <2>1, <2>3, <2>4, <2>5 DEF HInv
<1> QED
  BY Zenon, <1>1, <1>2, DirectKeeps, HBeginKeeps, HWriteKeeps, HActionEndsKeeps,
     HBeginStepKeeps, HBegunKeeps, HEndStepKeeps, SMTT(30) DEF HNext, HStep

\* OdbcService.runInTransaction returns the value of the action only when its
\* work is durable; over a driver that does what it is told a failure leaves
\* nothing in the database; and either way its transaction is out of the table.
\* (TransactionHandle.runWithBegin does not: it ignores what commit answers.)
THEOREM HelpersTrue ==
  Helper = "runInTransaction" => (HSpec => []HelpersTellTheTruth)
<1> SUFFICES ASSUME Helper = "runInTransaction" PROVE HSpec => []HelpersTellTheTruth
  OBVIOUS
<1>1. HInv => HelpersTellTheTruth
  BY Zenon DEF HInv, PhaseInv, OwnInv, WorkInv, HelpersTellTheTruth
<1>2. HInv /\ [HNext]_hvars => HInv'
  BY Zenon, NextHInv
<1> QED
  BY <1>1, <1>2, InitHInv, PTL DEF HSpec

\* What is proved of the native calls holds below the helpers: they reach the
\* driver only through them.
THEOREM HelpersAreNative ==
  Helper = "runInTransaction" => (HSpec => Spec)
<1> SUFFICES ASSUME Helper = "runInTransaction" PROVE HSpec => Spec
  OBVIOUS
<1>1. HInit => Init
  BY Zenon DEF HInit
<1>2. HInv /\ [HNext]_hvars => HInv'
  BY Zenon, NextHInv
<1> QED
  BY <1>1, <1>2, InitHInv, HNextNative, PTL DEF HSpec, Spec
=============================================================================
