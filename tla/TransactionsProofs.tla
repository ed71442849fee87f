------------------------- MODULE TransactionsProofs -------------------------
(***************************************************************************)
(* Proofs about Transactions, for any number of threads, connections,      *)
(* statements and transactions: the table follows the connections, and     *)
(* the calls implement AtomicTransactions.                                 *)
(***************************************************************************)
EXTENDS Transactions, TLAPS

BeginPoints == {"BeginLookup", "BeginSql", "BeginInsert"}
EndPoints == {"EndLookup", "EndSql"}

\* A call that ends a transaction has taken it out of the table, where nobody
\* else finds it, and has not reported its end yet.
CallInv(t) ==
    /\ call[t].at = "Idle" => call[t] = IdleCall
    /\ call[t].at # "Idle" => call[t].conn \in Conns
    /\ call[t].at \in EndPoints =>
          /\ call[t].kind \in {"commit", "rollback"}
          /\ call[t].txn \in TxnIds \ DOMAIN transactions
          /\ owner[call[t].txn] = call[t].conn
          /\ result[call[t].txn] = "None"
          /\ \A u \in Threads :
                call[u].at \in EndPoints /\ call[u].txn = call[t].txn => u = t

\* Transactions are numbered, and one in the table has not ended.
TxnInv(x) ==
    /\ x >= nextTxnId => owner[x] = None /\ result[x] = "None"
    /\ x < nextTxnId => owner[x] \in Conns
    /\ x \in DOMAIN transactions =>
          x < nextTxnId /\ owner[x] = transactions[x] /\ result[x] = "None"

\* A statement belongs to a transaction that was begun, and what is open on a
\* connection was executed there.
WriterInv(w) ==
    /\ writer[w] = None => w \notin durable
    /\ writer[w] \in TxnIds => writer[w] < nextTxnId
    /\ \A c \in Conns : w \in pending[c] =>
          writer[w] = 0 \/ (writer[w] \in TxnIds /\ owner[writer[w]] = c)

\* The transaction that connection c is in: it is in the table, or a call is
\* ending it.
Live(c) == TxnsOn(c) \cup {call[t].txn : t \in {u \in Threads : call[u].conn = c
                                                          /\ call[u].at \in EndPoints}}

\* Connection c, on which calls do not overlap, is in the transaction that the
\* table or the call in progress names, or back in autocommit unless the driver
\* refused that.
ConnInv(c) ==
    /\ \A t, u \in Threads : call[t].conn = c /\ call[u].conn = c => t = u
    /\ \A t \in Threads : call[t].conn = c =>
          /\ connState[c] = "Open" /\ TxnsOn(c) = {}
          /\ call[t].at \in {"BeginLookup", "BeginSql"} => autocommit[c] \/ c \in stuck
          /\ call[t].at \in {"BeginInsert", "EndLookup", "EndSql"} => ~autocommit[c]
    /\ \A x \in TxnsOn(c) :
          /\ connState[c] = "Open" /\ ~autocommit[c]
          /\ \A y \in TxnsOn(c) : x = y
    /\ connState[c] # "Closed" /\ TxnsOn(c) = {} /\ (\A t \in Threads : call[t].conn # c) =>
          autocommit[c] \/ c \in stuck
    /\ autocommit[c] => pending[c] = {}

\* Transaction y ended with an error, and all of its work is still open on c.
LeftOpen(y, c) ==
    /\ result[y] \in {"CommitErr", "RollbackErr"}
    /\ WritesOf(y) \subseteq pending[c]

\* What is open on connection c is the work of the transaction it is in.  Where
\* the driver refused to go back to autocommit it is also what transactions
\* that ended with an error left open, whole, and statements outside any.
UnitInv(c) ==
    connState[c] # "Closed" =>
        /\ \A x \in Live(c) : WritesOf(x) \subseteq pending[c]
        /\ \A w \in pending[c] :
              \/ writer[w] \in Live(c)
              \/ c \in stuck /\ (writer[w] = 0 \/ LeftOpen(writer[w], c))

IInv ==
    /\ TypeOK
    /\ \A t \in Threads : CallInv(t)
    /\ \A x \in TxnIds : TxnInv(x)
    /\ \A w \in Writes : WriterInv(w)
    /\ stuck \subseteq Faulty
    /\ \A c \in Conns \ Shared : ConnInv(c) /\ UnitInv(c)
-----------------------------------------------------------------------------
\* Types of the parts of a call.
LEMMA CallTypes ==
  ASSUME IInv, NEW t \in Threads
  PROVE  /\ call[t] \in Calls /\ CallInv(t)
         /\ call[t].at # "Idle" => call[t].conn \in Conns
         /\ call[t] = IdleCall => call[t].at = "Idle" /\ call[t].conn = None
BY DEF IInv, TypeOK, CallInv, IdleCall

\* The call that ends a transaction of c, and a connection on which there is
\* none, name the transaction that c is in.
LEMMA LiveEnding ==
  ASSUME IInv, NEW t \in Threads, call[t].at \in EndPoints, call[t].conn \in Conns \ Shared
  PROVE  Live(call[t].conn) = {call[t].txn}
BY DEF IInv, ConnInv, Live

LEMMA LiveNone ==
  ASSUME NEW c, TxnsOn(c) = {},
         \A t \in Threads : call[t].conn = c => call[t].at \notin EndPoints
  PROVE  Live(c) = {}
BY DEF Live

\* The work of the transaction that a call ends is open on its connection.
LEMMA EndWork ==
  ASSUME IInv, NEW t \in Threads, call[t].at \in EndPoints, call[t].conn \in Conns \ Shared
  PROVE  WritesOf(call[t].txn) \subseteq pending[call[t].conn]
<1>1. connState[call[t].conn] # "Closed"
  BY DEF IInv, ConnInv
<1>2. call[t].txn \in Live(call[t].conn)
  BY LiveEnding
<1> QED
  BY <1>1, <1>2, Zenon DEF IInv, UnitInv

\* What the end of a transaction may be reported as.
LEMMA ReportResult ==
  ASSUME NEW kind \in {"commit", "rollback"}, NEW ok \in BOOLEAN
  PROVE  /\ Report(kind, ok) \in Results \ {"None"}
         /\ Report(kind, FALSE) \in Results \ {"None", "CommitOk"}
BY DEF Report, Results

LEMMA InitIInv == Init => IInv
<1> SUFFICES ASSUME Init PROVE IInv
  OBVIOUS
<1>1. \A t \in Threads : call[t] = IdleCall
  BY DEF Init
<1>2. TypeOK
  BY MaxTxnsAssumption DEF Init, TypeOK, Calls, IdleCall, Results, TxnIds
<1>3. \A t \in Threads : CallInv(t)
  BY <1>1 DEF CallInv, IdleCall, EndPoints
<1>4. \A x \in TxnIds : TxnInv(x)
  BY DEF TxnInv, Init, TxnIds
<1>5. \A w \in Writes : WriterInv(w)
  BY NoneAssumption DEF WriterInv, Init, TxnIds
<1>6. \A c \in Conns : ConnInv(c)
  BY <1>1, NoneAssumption DEF ConnInv, Init, IdleCall, TxnsOn
<1>7. \A c \in Conns : UnitInv(c)
  <2>1. \A c \in Conns : TxnsOn(c) = {} /\ pending[c] = {}
    BY DEF Init, TxnsOn
  <2>2. \A c \in Conns : Live(c) = {}
    BY <1>1, <2>1, NoneAssumption DEF Live, IdleCall
  <2> QED
    BY <2>1, <2>2 DEF UnitInv
<1>8. stuck \subseteq Faulty
  BY DEF Init
<1> QED
  BY <1>2, <1>3, <1>4, <1>5, <1>6, <1>7, <1>8 DEF IInv
-----------------------------------------------------------------------------
\* A step that executes and ends no work on connection d; a transaction that d
\* gets into has none yet.
LEMMA SameUnit ==
  ASSUME IInv, NEW d \in Conns \ Shared, connState'[d] # "Closed" => connState[d] # "Closed",
         pending'[d] = pending[d], d \in stuck => d \in stuck',
         Live(d) \subseteq Live(d)',
         \A x \in Live(d)' : x \in Live(d) \/ WritesOf(x)' = {},
         \A x \in TxnIds : owner[x] = d => WritesOf(x)' = WritesOf(x) /\ result'[x] = result[x],
         \A w \in pending[d] : writer'[w] = writer[w]
  PROVE  UnitInv(d)'
<1> SUFFICES ASSUME connState'[d] # "Closed"
             PROVE  /\ \A x \in Live(d)' : WritesOf(x)' \subseteq pending'[d]
                    /\ \A w \in pending'[d] :
                          \/ writer'[w] \in Live(d)'
                          \/ d \in stuck' /\ (writer'[w] = 0 \/ LeftOpen(writer[w], d)')
  BY DEF UnitInv
<1>1. /\ \A x \in Live(d) : WritesOf(x) \subseteq pending[d]
      /\ \A w \in pending[d] :
            \/ writer[w] \in Live(d)
            \/ d \in stuck /\ (writer[w] = 0 \/ LeftOpen(writer[w], d))
  BY DEF IInv, UnitInv
<1>2. \A x \in Live(d) : x \in TxnIds /\ owner[x] = d
  BY DEF Live, TxnsOn, IInv, CallInv, TxnInv, TypeOK
<1>3. \A x \in Live(d)' : WritesOf(x)' \subseteq pending'[d]
  BY <1>1, <1>2
<1>4. ASSUME NEW w \in pending[d]
      PROVE  \/ writer'[w] \in Live(d)'
             \/ d \in stuck' /\ (writer'[w] = 0 \/ LeftOpen(writer[w], d)')
  <2>1. CASE writer[w] \in Live(d) \/ (d \in stuck /\ writer[w] = 0)
    BY <2>1
  <2>2. CASE d \in stuck /\ writer[w] # 0 /\ LeftOpen(writer[w], d)
    <3>1. PICK y \in TxnIds : y = writer[w] /\ owner[y] = d
      BY <2>2 DEF IInv, WriterInv, TypeOK
    <3>2. LeftOpen(y, d)'
      BY <2>2, <3>1 DEF LeftOpen
    <3>3. LeftOpen(writer[w], d)'
      BY <3>1, <3>2 DEF LeftOpen, WritesOf
    <3> QED
      BY <2>2, <3>3
  <2> QED
    BY <1>1, <2>1, <2>2
<1> QED
  BY <1>3, <1>4

\* A step that leaves connection d, its transactions and its calls alone.
LEMMA OtherConn ==
  ASSUME IInv, NEW d \in Conns \ Shared,
         \A u \in Threads : call'[u] = call[u] \/ (call[u].conn # d /\ call'[u].conn # d),
         connState'[d] = connState[d], autocommit'[d] = autocommit[d],
         pending'[d] = pending[d], d \in stuck <=> d \in stuck', TxnsOn(d)' = TxnsOn(d),
         \A x \in TxnIds : owner[x] = d => WritesOf(x)' = WritesOf(x) /\ result'[x] = result[x],
         \A w \in pending[d] : writer'[w] = writer[w]
  PROVE  ConnInv(d)' /\ UnitInv(d)'
<1>1. ConnInv(d)
  BY DEF IInv
<1>2. \A t \in Threads : call[t].conn = d <=> call'[t].conn = d
  OBVIOUS
<1>3. \A t \in Threads : call'[t].conn = d => call'[t] = call[t]
  OBVIOUS
<1>4. ConnInv(d)'
  BY <1>1, <1>2, <1>3 DEF ConnInv
<1>5. Live(d)' = Live(d)
  BY <1>2, <1>3 DEF Live
<1>6. UnitInv(d)'
  BY <1>5, SameUnit, Zenon
<1> QED
  BY <1>4, <1>6

\* A connection that is in no transaction keeps only what is left open on it.
LEMMA NoUnit ==
  ASSUME NEW d, Live(d)' = {}, writer' = writer,
         \A w \in pending'[d] :
            /\ d \in stuck'
            /\ writer[w] # 0 => /\ result'[writer[w]] \in {"CommitErr", "RollbackErr"}
                                /\ WritesOf(writer[w]) \subseteq pending'[d]
  PROVE  UnitInv(d)'
<1>1. \A y : WritesOf(y)' = WritesOf(y)
  BY DEF WritesOf
<1>2. ASSUME NEW w \in pending'[d]
      PROVE  d \in stuck' /\ (writer'[w] = 0 \/ LeftOpen(writer[w], d)')
  <2> PICK y : y = writer[w]
    OBVIOUS
  <2>1. WritesOf(y)' = WritesOf(y)
    BY <1>1
  <2>2. writer'[w] # 0 => LeftOpen(y, d)'
    BY <2>1, Zenon DEF LeftOpen
  <2>3. y = writer'[w]
    OBVIOUS
  <2> QED
    BY <2>2, <2>3, Zenon DEF LeftOpen, WritesOf
<1> QED
  BY <1>2, Zenon DEF UnitInv

LEMMA ConnectKeeps ==
  ASSUME IInv, NEW c \in Conns, Connect(c)
  PROVE  IInv'
<1> USE DEF Connect
<1>1. TypeOK'
  BY DEF IInv, TypeOK
<1>2. /\ \A t \in Threads : CallInv(t)'
      /\ \A x \in TxnIds : TxnInv(x)'
      /\ \A w \in Writes : WriterInv(w)'
  BY DEF IInv, CallInv, TxnInv, WriterInv
<1>3. ASSUME NEW d \in Conns \ Shared PROVE ConnInv(d)' /\ UnitInv(d)'
  <2>1. CASE d # c
    BY <2>1, OtherConn DEF IInv, TypeOK, TxnsOn, WritesOf
  <2>2. CASE d = c
    <3>1. ConnInv(d)'
      BY <2>2 DEF IInv, TypeOK, ConnInv, TxnsOn
    <3>2. Live(d)' = Live(d)
      BY DEF Live, TxnsOn
    <3>3. \A x : WritesOf(x)' = WritesOf(x)
      BY DEF WritesOf
    <3>4. UnitInv(d)'
      BY <2>2, <3>2, <3>3, SameUnit
    <3> QED
      BY <3>1, <3>4
  <2> QED
    BY <2>1, <2>2
<1> QED
  BY <1>1, <1>2, <1>3 DEF IInv

LEMMA BeginCheckKeeps ==
  ASSUME IInv, NEW t \in Threads, NEW c \in Conns, BeginCheck(t, c)
  PROVE  IInv'
<1> DEFINE k == [at |-> "BeginLookup", conn |-> c, txn |-> None, kind |-> "none"]
<1>1. /\ call[t] = IdleCall /\ CallAllowed(c) /\ IdsLeft
      /\ connState[c] = "Open" /\ TxnsOn(c) = {}
      /\ call' = [call EXCEPT ![t] = k]
      /\ UNCHANGED <<connState, autocommit, pending, durable, stuck, transactions,
                     nextTxnId, writer, owner, result>>
  BY DEF BeginCheck
<1>2. k \in Calls /\ k.at = "BeginLookup" /\ k.conn = c
  BY DEF Calls
<1>3. /\ call'[t] = k /\ \A u \in Threads \ {t} : call'[u] = call[u]
      /\ call' \in [Threads -> Calls]
  BY <1>1, <1>2 DEF IInv, TypeOK
<1> HIDE DEF k
<1>4. TypeOK'
  BY <1>1, <1>3 DEF IInv, TypeOK
<1>5. \A u \in Threads : CallInv(u)'
  BY <1>1, <1>2, <1>3 DEF IInv, CallInv, EndPoints
<1>6. /\ \A x \in TxnIds : TxnInv(x)'
      /\ \A w \in Writes : WriterInv(w)'
  BY <1>1 DEF IInv, TxnInv, WriterInv
<1>7. ASSUME NEW d \in Conns \ Shared PROVE ConnInv(d)' /\ UnitInv(d)'
  <2>1. CASE d # c
    BY <1>1, <1>2, <1>3, <2>1, OtherConn, NoneAssumption DEF IdleCall, TxnsOn, WritesOf
  <2>2. CASE d = c
    <3>1. \A u \in Threads : call[u].conn # c
      BY <1>1, <2>2 DEF CallAllowed
    <3>2. (autocommit[c] \/ c \in stuck) /\ (autocommit[c] => pending[c] = {})
      BY <1>1, <2>2, <3>1 DEF IInv, ConnInv
    <3>3. TxnsOn(d)' = {}
      BY <1>1, <2>2 DEF TxnsOn
    <3>4. ConnInv(d)'
      BY <1>1, <1>2, <1>3, <2>2, <3>1, <3>2, <3>3 DEF ConnInv
    <3>5. Live(d) = {} /\ Live(d)' = {}
      BY <1>1, <1>2, <1>3, <2>2, <3>1, <3>3 DEF Live, EndPoints
    <3>6. UnitInv(d)'
      BY <1>1, <3>5, SameUnit DEF WritesOf
    <3> QED
      BY <3>4, <3>6
  <2> QED
    BY <2>1, <2>2
<1> QED
  BY <1>1, <1>4, <1>5, <1>6, <1>7 DEF IInv

LEMMA BeginLookupKeeps ==
  ASSUME IInv, NEW t \in Threads, BeginLookup(t)
  PROVE  IInv'
<1> DEFINE c == call[t].conn
           k == IF connState[c] = "Open" THEN [call[t] EXCEPT !.at = "BeginSql"] ELSE IdleCall
<1>1. /\ call[t].at = "BeginLookup"
      /\ call' = [call EXCEPT ![t] = k]
      /\ UNCHANGED <<connState, autocommit, pending, durable, stuck, transactions,
                     nextTxnId, writer, owner, result>>
  BY DEF BeginLookup
<1>2. c \in Conns /\ call[t] \in Calls
  BY <1>1, CallTypes
<1>3. /\ k \in Calls
      /\ connState[c] = "Open" => k.at = "BeginSql" /\ k.conn = c
      /\ connState[c] # "Open" => k = IdleCall /\ k.at = "Idle" /\ k.conn = None
  BY <1>2 DEF Calls, IdleCall
<1>4. /\ call'[t] = k /\ \A u \in Threads \ {t} : call'[u] = call[u]
      /\ call' \in [Threads -> Calls]
  BY <1>1, <1>3 DEF IInv, TypeOK
<1> HIDE DEF k, c
<1>5. TypeOK'
  BY <1>1, <1>4 DEF IInv, TypeOK
<1>6. \A u \in Threads : CallInv(u)'
  BY <1>1, <1>2, <1>3, <1>4 DEF IInv, CallInv, EndPoints
<1>7. /\ \A x \in TxnIds : TxnInv(x)'
      /\ \A w \in Writes : WriterInv(w)'
  BY <1>1 DEF IInv, TxnInv, WriterInv
<1>8. ASSUME NEW d \in Conns \ Shared PROVE ConnInv(d)' /\ UnitInv(d)'
  <2>1. CASE d # c
    BY <1>1, <1>3, <1>4, <2>1, OtherConn, NoneAssumption DEF TxnsOn, WritesOf, c
  <2>2. CASE d = c
    <3>1. /\ connState[c] = "Open" /\ TxnsOn(c) = {} /\ (autocommit[c] \/ c \in stuck)
          /\ (autocommit[c] => pending[c] = {})
          /\ \A u \in Threads \ {t} : call[u].conn # c
      BY <1>1, <2>2 DEF IInv, ConnInv, c
    <3>2. TxnsOn(d)' = {}
      BY <1>1, <2>2, <3>1 DEF TxnsOn
    <3>3. ConnInv(d)'
      BY <1>1, <1>3, <1>4, <2>2, <3>1, <3>2 DEF ConnInv
    <3>4. Live(d) = {} /\ Live(d)' = {}
      BY <1>1, <1>3, <1>4, <2>2, <3>1, <3>2 DEF Live, EndPoints
    <3>5. UnitInv(d)'
      BY <1>1, <3>4, SameUnit DEF WritesOf
    <3> QED
      BY <3>3, <3>5
  <2> QED
    BY <2>1, <2>2
<1> QED
  BY <1>1, <1>5, <1>6, <1>7, <1>8 DEF IInv

LEMMA BeginSqlKeeps ==
  ASSUME IInv, NEW t \in Threads, BeginSql(t)
  PROVE  IInv'
<1> DEFINE c == call[t].conn
           k == [call[t] EXCEPT !.at = "BeginInsert"]
<1>1. /\ call[t].at = "BeginSql"
      /\ UNCHANGED <<connState, pending, durable, stuck, transactions, nextTxnId, writer,
                     owner, result>>
  BY DEF BeginSql
<1>2. c \in Conns /\ call[t] \in Calls
  BY <1>1, CallTypes
<1>3. /\ k \in Calls /\ k.at = "BeginInsert" /\ k.conn = c
      /\ IdleCall \in Calls /\ IdleCall.at = "Idle" /\ IdleCall.conn = None
  BY <1>2 DEF Calls, IdleCall
<1>4. /\ \/ call' = [call EXCEPT ![t] = k] /\ autocommit' = [autocommit EXCEPT ![c] = FALSE]
         \/ call' = [call EXCEPT ![t] = IdleCall] /\ autocommit' = autocommit
  BY DEF BeginSql
<1>5. /\ \/ call'[t] = k /\ autocommit' = [autocommit EXCEPT ![c] = FALSE]
         \/ call'[t] = IdleCall /\ autocommit' = autocommit
      /\ \A u \in Threads \ {t} : call'[u] = call[u]
      /\ call' \in [Threads -> Calls]
  BY <1>3, <1>4 DEF IInv, TypeOK
<1> HIDE DEF k, c
<1>6. TypeOK'
  BY <1>1, <1>5, Zenon DEF IInv, TypeOK
<1>7. \A u \in Threads : CallInv(u)'
  BY <1>1, <1>2, <1>3, <1>5 DEF IInv, CallInv, EndPoints
<1>8. /\ \A x \in TxnIds : TxnInv(x)'
      /\ \A w \in Writes : WriterInv(w)'
  BY <1>1 DEF IInv, TxnInv, WriterInv
<1>9. ASSUME NEW d \in Conns \ Shared PROVE ConnInv(d)' /\ UnitInv(d)'
  <2>1. CASE d # c
    <3>1. autocommit'[d] = autocommit[d]
      BY <1>5, <2>1 DEF IInv, TypeOK
    <3> QED
      BY <1>1, <1>3, <1>5, <2>1, <3>1, OtherConn, NoneAssumption DEF TxnsOn, WritesOf, c
  <2>2. CASE d = c
    <3>1. /\ connState[c] = "Open" /\ TxnsOn(c) = {} /\ (autocommit[c] \/ c \in stuck)
          /\ (autocommit[c] => pending[c] = {})
          /\ \A u \in Threads \ {t} : call[u].conn # c
      BY <1>1, <2>2 DEF IInv, ConnInv, c
    <3>2. \/ call'[t] = k /\ ~autocommit'[c]
          \/ call'[t] = IdleCall /\ autocommit'[c] = autocommit[c]
      BY <1>2, <1>5 DEF IInv, TypeOK
    <3>3. TxnsOn(d)' = {}
      BY <1>1, <2>2, <3>1 DEF TxnsOn
    <3>4. ConnInv(d)'
      BY <1>1, <1>3, <1>5, <2>2, <3>1, <3>2, <3>3, NoneAssumption DEF ConnInv
    <3>5. Live(d) = {} /\ Live(d)' = {}
      BY <1>1, <1>3, <1>5, <2>2, <3>1, <3>3, NoneAssumption DEF Live, EndPoints
    <3>6. UnitInv(d)'
      BY <1>1, <3>5, SameUnit DEF WritesOf
    <3> QED
      BY <3>4, <3>6
  <2> QED
    BY <2>1, <2>2
<1> QED
  BY <1>1, <1>6, <1>7, <1>8, <1>9 DEF IInv

LEMMA BeginInsertKeeps ==
  ASSUME IInv, NEW t \in Threads, BeginInsert(t)
  PROVE  /\ IInv' /\ nextTxnId \in TxnIds
         /\ owner[nextTxnId] = None /\ WritesOf(nextTxnId) = {}
<1> DEFINE c == call[t].conn
           n == nextTxnId
<1>1. /\ call[t].at = "BeginInsert"
      /\ transactions' = [x \in DOMAIN transactions \cup {n} |->
                             IF x = n THEN c ELSE transactions[x]]
      /\ owner' = [owner EXCEPT ![n] = c]
      /\ nextTxnId' = n + 1
      /\ call' = [call EXCEPT ![t] = IdleCall]
      /\ UNCHANGED <<connState, autocommit, pending, durable, stuck, writer, result>>
  BY DEF BeginInsert
<1>2. c \in Conns /\ call[t] \in Calls
  BY <1>1, CallTypes
<1>3. /\ IdleCall \in Calls /\ IdleCall.at = "Idle" /\ IdleCall.conn = None
  BY DEF Calls, IdleCall
<1>4. /\ call'[t] = IdleCall /\ \A u \in Threads \ {t} : call'[u] = call[u]
      /\ call' \in [Threads -> Calls]
  BY <1>1, <1>3 DEF IInv, TypeOK
<1>5. n \in Nat /\ n >= 1 /\ MaxTxns \in Nat
  BY MaxTxnsAssumption DEF IInv, TypeOK
<1>6. n \in TxnIds
  BY DEF BeginInsert
<1>7. /\ owner[n] = None /\ result[n] = "None" /\ n \notin DOMAIN transactions
      /\ \A w \in Writes : writer[w] # n
  BY <1>5, <1>6 DEF IInv, TxnInv, WriterInv
<1>8. /\ owner'[n] = c /\ \A x \in TxnIds \ {n} : owner'[x] = owner[x]
      /\ DOMAIN transactions' = DOMAIN transactions \cup {n}
      /\ transactions'[n] = c
      /\ \A x \in DOMAIN transactions : transactions'[x] = transactions[x]
  BY <1>1, <1>6, <1>7 DEF IInv, TypeOK
<1>9. TypeOK'
  BY <1>1, <1>2, <1>4, <1>5, <1>6 DEF IInv, TypeOK, TxnIds
<1> HIDE DEF c
<1>10. ASSUME NEW u \in Threads PROVE CallInv(u)'
  <2>1. call[u].at \in EndPoints => call[u].txn # n
    BY <1>7, NoneAssumption DEF IInv, CallInv, EndPoints
  <2> QED
    BY <1>1, <1>3, <1>4, <1>8, <2>1 DEF IInv, CallInv, EndPoints
<1>11. ASSUME NEW x \in TxnIds PROVE TxnInv(x)'
  BY <1>1, <1>2, <1>5, <1>7, <1>8, SMTT(30) DEF IInv, TxnInv, TxnIds
<1>12. ASSUME NEW w \in Writes PROVE WriterInv(w)'
  BY <1>1, <1>5, <1>7, <1>8 DEF IInv, WriterInv, TxnIds
<1>13. ASSUME NEW d \in Conns \ Shared PROVE ConnInv(d)' /\ UnitInv(d)'
  <2>1. CASE d # c
    <3>1. TxnsOn(d)' = TxnsOn(d)
      BY <1>8, <2>1 DEF TxnsOn
    <3> QED
      BY <1>1, <1>3, <1>4, <2>1, <3>1, OtherConn, NoneAssumption DEF WritesOf, c
  <2>2. CASE d = c
    <3>1. /\ connState[c] = "Open" /\ TxnsOn(c) = {} /\ ~autocommit[c]
          /\ \A u \in Threads \ {t} : call[u].conn # c
      BY <1>1, <2>2 DEF IInv, ConnInv, c
    <3> PICK m : m = n
      OBVIOUS
    <3>2. TxnsOn(d)' = {m} /\ WritesOf(m)' = {}
      BY <1>1, <1>7, <1>8, <2>2, <3>1 DEF TxnsOn, WritesOf
    <3>3. ConnInv(d)'
      BY <1>1, <1>2, <1>3, <1>4, <2>2, <3>1, <3>2, NoneAssumption, SMTT(30) DEF ConnInv
    <3>4. Live(d) = {} /\ Live(d)' = {m}
      BY <1>1, <1>2, <1>3, <1>4, <2>2, <3>1, <3>2, NoneAssumption DEF Live, EndPoints, c
    <3>5. UnitInv(d)'
      BY <1>1, <3>2, <3>4, SameUnit DEF WritesOf
    <3> QED
      BY <3>3, <3>5
  <2> QED
    BY <2>1, <2>2
<1> QED
  BY <1>1, <1>6, <1>7, <1>9, <1>10, <1>11, <1>12, <1>13 DEF IInv, WritesOf

LEMMA EndTakeKeeps ==
  ASSUME IInv, NEW t \in Threads, NEW x \in DOMAIN transactions,
         NEW kind \in {"commit", "rollback"}, EndTake(t, x, kind)
  PROVE  IInv'
<1> DEFINE c == transactions[x]
           k == [at |-> "EndLookup", conn |-> c, txn |-> x, kind |-> kind]
<1>1. /\ call[t] = IdleCall /\ CallAllowed(c)
      /\ transactions' = [y \in DOMAIN transactions \ {x} |-> transactions[y]]
      /\ call' = [call EXCEPT ![t] = k]
      /\ UNCHANGED <<connState, autocommit, pending, durable, stuck, nextTxnId, writer,
                     owner, result>>
  BY DEF EndTake, Restrict
<1>2. c \in Conns /\ x \in TxnIds
  BY DEF IInv, TypeOK
<1>3. /\ k \in Calls /\ k.at = "EndLookup" /\ k.conn = c /\ k.txn = x /\ k.kind = kind
      /\ IdleCall.at = "Idle" /\ IdleCall.conn = None
  BY <1>2 DEF Calls, IdleCall
<1>4. /\ call'[t] = k /\ \A u \in Threads \ {t} : call'[u] = call[u]
      /\ call' \in [Threads -> Calls]
  BY <1>1, <1>3 DEF IInv, TypeOK
<1>5. owner[x] = c /\ result[x] = "None" /\ x < nextTxnId
  BY <1>2 DEF IInv, TxnInv
<1> HIDE DEF k, c
<1>6. /\ DOMAIN transactions' = DOMAIN transactions \ {x}
      /\ \A y \in DOMAIN transactions \ {x} : transactions'[y] = transactions[y]
  BY <1>1
<1>7. TypeOK'
  BY <1>1, <1>4 DEF IInv, TypeOK
<1>8. ASSUME NEW u \in Threads PROVE CallInv(u)'
  BY <1>1, <1>2, <1>3, <1>4, <1>5, <1>6 DEF IInv, CallInv, EndPoints
<1>9. /\ \A y \in TxnIds : TxnInv(y)'
      /\ \A w \in Writes : WriterInv(w)'
  BY <1>1, <1>6 DEF IInv, TxnInv, WriterInv
<1>10. ASSUME NEW d \in Conns \ Shared PROVE ConnInv(d)' /\ UnitInv(d)'
  <2>1. CASE d # c
    <3>1. TxnsOn(d)' = TxnsOn(d)
      BY <1>6, <2>1, SMTT(30) DEF TxnsOn, c
    <3> QED
      BY <1>1, <1>3, <1>4, <2>1, <3>1, OtherConn, NoneAssumption DEF WritesOf
  <2>2. CASE d = c
    <3>1. x \in TxnsOn(c) /\ \A u \in Threads : call[u].conn # c
      BY <1>1, <2>2 DEF TxnsOn, CallAllowed, c
    <3>2. connState[c] = "Open" /\ ~autocommit[c] /\ TxnsOn(c) = {x}
      BY <2>2, <3>1 DEF IInv, ConnInv
    <3>3. TxnsOn(d)' = {}
      BY <1>1, <1>6, <2>2, <3>2 DEF TxnsOn
    <3>4. ConnInv(d)'
      BY <1>1, <1>3, <1>4, <2>2, <3>1, <3>2, <3>3 DEF ConnInv
    <3>5. Live(d) = {x} /\ Live(d)' = {x}
      BY <1>3, <1>4, <2>2, <3>1, <3>2, <3>3 DEF Live, EndPoints
    <3>6. UnitInv(d)'
      BY <1>1, <3>5, SameUnit DEF WritesOf
    <3> QED
      BY <3>4, <3>6
  <2> QED
    BY <2>1, <2>2
<1> QED
  BY <1>1, <1>7, <1>8, <1>9, <1>10 DEF IInv

\* How a unit of work can end: whole or not at all, as asked when it succeeds,
\* and a failure is a fault of the driver.
OutcomeOf(c, kind, work, e) ==
    /\ e.ok \in BOOLEAN
    /\ e.wrote \in {work, {}} /\ e.left \in {work, {}}
    /\ e.ok /\ kind = "commit" => e.left = {} /\ e.wrote = work
    /\ e.ok /\ kind = "rollback" => e.left = {} /\ e.wrote = {}
    /\ ~e.ok => e.wrote = {} /\ c \in Faulty

LEMMA Outcomes ==
  ASSUME NEW c, NEW kind \in {"commit", "rollback"}, NEW work,
         NEW e \in EndTran(c, kind, work)
  PROVE  OutcomeOf(c, kind, work, e)
<1> DEFINE done == [ok |-> TRUE, wrote |-> work, left |-> {}]
           gone == [ok |-> TRUE, wrote |-> {}, left |-> {}]
           lost == [ok |-> FALSE, wrote |-> {}, left |-> {}]
           open == [ok |-> FALSE, wrote |-> {}, left |-> work]
<1>1. \/ kind = "commit" /\ e = done
      \/ kind = "rollback" /\ e = gone
      \/ c \in Faulty /\ e \in {lost, open}
  BY Zenon DEF EndTran, DriverCommit, DriverRollback
<1>2. /\ done.ok = TRUE /\ done.wrote = work /\ done.left = {}
      /\ gone.ok = TRUE /\ gone.wrote = {} /\ gone.left = {}
  OBVIOUS
<1>3. /\ lost.ok = FALSE /\ lost.wrote = {} /\ lost.left = {}
      /\ open.ok = FALSE /\ open.wrote = {} /\ open.left = work
  OBVIOUS
<1> HIDE DEF done, gone, lost, open
<1>4. CASE kind = "commit" /\ e = done
  BY <1>2, <1>4, Zenon DEF OutcomeOf
<1>5. CASE kind = "rollback" /\ e = gone
  BY <1>2, <1>5, Zenon DEF OutcomeOf
<1>6. CASE c \in Faulty /\ e \in {lost, open}
  BY <1>3, <1>6, Zenon DEF OutcomeOf
<1> QED
  BY <1>1, <1>4, <1>5, <1>6

LEMMA ReportType ==
  ASSUME NEW kind \in {"commit", "rollback"}, NEW ok \in BOOLEAN
  PROVE  Report(kind, ok) \in {"CommitOk", "CommitErr", "RollbackOk", "RollbackErr"}
BY DEF Report

LEMMA EndLookupKeeps ==
  ASSUME IInv, NEW t \in Threads, EndLookup(t)
  PROVE  IInv'
<1> DEFINE c == call[t].conn
           x == call[t].txn
           k == [call[t] EXCEPT !.at = "EndSql"]
           r == Report(call[t].kind, FALSE)
<1>1. /\ call[t].at = "EndLookup"
      /\ \/ /\ connState[c] = "Open" /\ call' = [call EXCEPT ![t] = k]
            /\ UNCHANGED result
         \/ /\ connState[c] # "Open" /\ call' = [call EXCEPT ![t] = IdleCall]
            /\ result' = [result EXCEPT ![x] = r]
      /\ UNCHANGED <<connState, autocommit, pending, durable, stuck, transactions,
                     nextTxnId, writer, owner>>
  BY Zenon DEF EndLookup
<1>2. /\ c \in Conns /\ call[t] \in Calls /\ CallInv(t) /\ x \in TxnIds \ DOMAIN transactions
      /\ call[t].kind \in {"commit", "rollback"}
      /\ owner[x] = c
  BY <1>1, CallTypes DEF CallInv, EndPoints
<1>3. /\ k \in Calls /\ k.at = "EndSql" /\ k.conn = c /\ k.txn = x /\ k.kind = call[t].kind
      /\ IdleCall \in Calls /\ IdleCall.at = "Idle" /\ IdleCall.conn = None
  BY <1>2 DEF Calls, IdleCall
<1>4. r \in Results
  BY <1>2, ReportType, Zenon DEF Results
<1> HIDE DEF k, c, r
<1>5. /\ \/ call'[t] = k /\ result' = result /\ connState[c] = "Open"
         \/ call'[t] = IdleCall /\ connState[c] # "Open"
      /\ \A u \in Threads \ {t} : call'[u] = call[u]
      /\ call' \in [Threads -> Calls]
      /\ \A y \in TxnIds \ {x} : result'[y] = result[y]
      /\ result' \in [TxnIds -> Results]
  BY <1>1, <1>2, <1>3, <1>4 DEF IInv, TypeOK
<1>6. TypeOK'
  BY <1>1, <1>5 DEF IInv, TypeOK
<1>7. ASSUME NEW u \in Threads PROVE CallInv(u)'
  <2>1. u # t /\ call[u].at \in EndPoints => call[u].txn # x
    BY <1>1, <1>2 DEF CallInv, EndPoints
  <2> QED
    BY <1>1, <1>2, <1>3, <1>5, <2>1 DEF IInv, CallInv, EndPoints, c
<1>8. ASSUME NEW y \in TxnIds PROVE TxnInv(y)'
  <2>1. ~(x >= nextTxnId)
    BY <1>2, NoneAssumption DEF IInv, TxnInv
  <2> QED
    BY <1>1, <1>2, <1>5, <2>1 DEF IInv, TxnInv
<1>9. \A w \in Writes : WriterInv(w)'
  BY <1>1 DEF IInv, WriterInv
<1>10. ASSUME NEW d \in Conns \ Shared PROVE ConnInv(d)' /\ UnitInv(d)'
  <2>1. CASE d # c
    <3>1. TxnsOn(d)' = TxnsOn(d)
      BY <1>1, Zenon DEF TxnsOn
    <3>2. \A y \in TxnIds : owner[y] = d => WritesOf(y)' = WritesOf(y) /\ result'[y] = result[y]
      BY <1>1, <1>2, <1>5, <2>1 DEF WritesOf
    <3> QED
      BY <1>1, <1>3, <1>5, <2>1, <3>1, <3>2, OtherConn, NoneAssumption DEF c
  <2>2. CASE d = c
    <3> PICK y : y = x
      BY Zenon
    <3>1. /\ connState[c] = "Open" /\ TxnsOn(c) = {} /\ ~autocommit[c]
          /\ \A u \in Threads \ {t} : call[u].conn # c
      BY <1>1, <2>2 DEF IInv, ConnInv, c
    <3>2. TxnsOn(d)' = {}
      BY <1>1, <2>2, <3>1 DEF TxnsOn
    <3>3. ConnInv(d)'
      BY <1>1, <1>3, <1>5, <2>2, <3>1, <3>2 DEF ConnInv
    <3>4. Live(d) = {y} /\ Live(d)' = {y}
      BY <1>1, <1>3, <1>5, <2>2, <3>1, <3>2 DEF Live, EndPoints, c
    <3>5. UnitInv(d)'
      BY <1>1, <1>5, <3>1, <3>4, SameUnit, <2>2 DEF WritesOf
    <3> QED
      BY <3>3, <3>5
  <2> QED
    BY <2>1, <2>2
<1> QED
  BY <1>1, <1>6, <1>7, <1>8, <1>9, <1>10 DEF IInv

\* Going back to autocommit makes durable what the end of the work left open,
\* or is refused and leaves it open.
LEMMA UnitEnds ==
  ASSUME NEW c, NEW e, EndUnitOfWork(c, e)
  PROVE  \/ /\ durable' = durable \cup e.wrote \cup e.left
            /\ pending' = [pending EXCEPT ![c] = {}]
            /\ autocommit' = [autocommit EXCEPT ![c] = TRUE]
            /\ stuck' = stuck \ {c}
         \/ /\ c \in Faulty
            /\ durable' = durable \cup e.wrote
            /\ pending' = [pending EXCEPT ![c] = e.left]
            /\ autocommit' = [autocommit EXCEPT ![c] = FALSE]
            /\ stuck' = stuck \cup {c}
<1> DEFINE on == [ok |-> TRUE, wrote |-> e.left, left |-> {}]
           off == [ok |-> FALSE, wrote |-> {}, left |-> e.left]
<1>1. PICK a \in DriverAutocommitOn(c, e.left) :
         /\ durable' = durable \cup e.wrote \cup a.wrote
         /\ pending' = [pending EXCEPT ![c] = a.left]
         /\ autocommit' = [autocommit EXCEPT ![c] = a.ok]
         /\ stuck' = IF a.ok THEN stuck \ {c} ELSE stuck \cup {c}
  BY Zenon DEF EndUnitOfWork
<1>2. a = on \/ (c \in Faulty /\ a = off)
  BY Zenon DEF DriverAutocommitOn
<1>3. /\ on.ok = TRUE /\ on.wrote = e.left /\ on.left = {}
      /\ off.ok = FALSE /\ off.wrote = {} /\ off.left = e.left
  OBVIOUS
<1> HIDE DEF on, off
<1> QED
  BY <1>1, <1>2, <1>3

\* What the end of a unit of work on c does to the connections and the server:
\* all of the work becomes durable or none, all of it stays open or none, and
\* it stays open only if the driver refused both calls.
Settled(c, kind, e) ==
    /\ durable' \in {durable, durable \cup pending[c]}
    /\ e.ok /\ kind = "commit" => durable' = durable \cup pending[c]
    /\ e.ok /\ kind = "rollback" => durable' = durable
    /\ pending' \in [Conns -> SUBSET Writes] /\ autocommit' \in [Conns -> BOOLEAN]
    /\ stuck' \subseteq Conns /\ stuck' \subseteq Faulty
    /\ pending'[c] \in {{}, pending[c]}
    /\ pending'[c] # {} => c \in stuck' /\ ~e.ok
    /\ autocommit'[c] \/ c \in stuck'
    /\ autocommit'[c] => pending'[c] = {}
    /\ \A d \in Conns \ {c} :
          /\ pending'[d] = pending[d] /\ autocommit'[d] = autocommit[d]
          /\ d \in stuck <=> d \in stuck'

LEMMA UnitStep ==
  ASSUME IInv, NEW c \in Conns, NEW kind \in {"commit", "rollback"},
         NEW e \in EndTran(c, kind, pending[c]), EndUnitOfWork(c, e)
  PROVE  e.ok \in BOOLEAN /\ (~e.ok => c \in Faulty) /\ Settled(c, kind, e)
<1>1. OutcomeOf(c, kind, pending[c], e)
  BY Zenon, Outcomes
<1>2. /\ e.ok \in BOOLEAN
      /\ e.wrote \in {pending[c], {}} /\ e.left \in {pending[c], {}}
      /\ e.ok /\ kind = "commit" => e.left = {} /\ e.wrote = pending[c]
      /\ e.ok /\ kind = "rollback" => e.left = {} /\ e.wrote = {}
      /\ ~e.ok => e.wrote = {} /\ c \in Faulty
  BY Zenon, <1>1 DEF OutcomeOf
<1>3. /\ pending \in [Conns -> SUBSET Writes] /\ autocommit \in [Conns -> BOOLEAN]
      /\ stuck \subseteq Conns /\ stuck \subseteq Faulty
  BY DEF IInv, TypeOK
<1>4. CASE /\ durable' = durable \cup e.wrote \cup e.left
           /\ pending' = [pending EXCEPT ![c] = {}]
           /\ autocommit' = [autocommit EXCEPT ![c] = TRUE]
           /\ stuck' = stuck \ {c}
  BY <1>2, <1>3, <1>4 DEF Settled
<1>5. CASE /\ c \in Faulty
           /\ durable' = durable \cup e.wrote
           /\ pending' = [pending EXCEPT ![c] = e.left]
           /\ autocommit' = [autocommit EXCEPT ![c] = FALSE]
           /\ stuck' = stuck \cup {c}
  BY <1>2, <1>3, <1>5 DEF Settled
<1> QED
  BY <1>2, <1>4, <1>5, UnitEnds

LEMMA SettledWriters ==
  ASSUME IInv, NEW c \in Conns, NEW kind, NEW e, Settled(c, kind, e),
         writer' = writer, owner' = owner, nextTxnId' = nextTxnId
  PROVE  durable' \subseteq Writes /\ \A w \in Writes : WriterInv(w)'
<1>1. ASSUME NEW w \in Writes PROVE WriterInv(w)'
  <2>1. w \in durable' => w \in durable \/ w \in pending[c]
    BY DEF Settled
  <2>2. w \in pending[c] => writer[w] # None
    BY NoneAssumption DEF IInv, WriterInv, TxnIds
  <2>3. \A d \in Conns : w \in pending'[d] => w \in pending[d]
    BY DEF Settled
  <2> QED
    BY <2>1, <2>2, <2>3 DEF IInv, WriterInv
<1> QED
  BY <1>1 DEF Settled, IInv, TypeOK

LEMMA EndSqlKeeps ==
  ASSUME IInv, NEW t \in Threads, EndSql(t)
  PROVE  IInv'
<1> DEFINE c == call[t].conn
           x == call[t].txn
           kind == call[t].kind
<1>1. PICK e \in EndTran(c, kind, pending[c]) :
         /\ EndUnitOfWork(c, e)
         /\ result' = [result EXCEPT ![x] = Report(kind, e.ok)]
  BY Zenon DEF EndSql
<1>2. /\ call[t].at = "EndSql"
      /\ call' = [call EXCEPT ![t] = IdleCall]
      /\ UNCHANGED <<connState, transactions, nextTxnId, writer, owner>>
  BY DEF EndSql
<1>3. /\ c \in Conns /\ call[t] \in Calls /\ CallInv(t) /\ x \in TxnIds \ DOMAIN transactions
      /\ kind \in {"commit", "rollback"}
      /\ owner[x] = c
  BY <1>2, CallTypes DEF CallInv, EndPoints
<1>4. IdleCall \in Calls /\ IdleCall.at = "Idle" /\ IdleCall.conn = None
  BY DEF Calls, IdleCall
<1>5. e.ok \in BOOLEAN /\ Settled(c, kind, e)
  BY Zenon, <1>1, <1>3, UnitStep
<1>6. /\ Report(kind, e.ok) \in Results
      /\ ~e.ok => Report(kind, e.ok) \in {"CommitErr", "RollbackErr"}
  BY <1>3, <1>5 DEF Report, Results
<1>7. /\ call'[t] = IdleCall /\ \A u \in Threads \ {t} : call'[u] = call[u]
      /\ call' \in [Threads -> Calls]
      /\ result'[x] = Report(kind, e.ok)
      /\ \A y \in TxnIds \ {x} : result'[y] = result[y]
      /\ result' \in [TxnIds -> Results]
  BY <1>1, <1>2, <1>3, <1>4, <1>6 DEF IInv, TypeOK
<1>8. durable' \subseteq Writes /\ \A w \in Writes : WriterInv(w)'
  BY <1>2, <1>3, <1>5, SettledWriters
<1> HIDE DEF c, kind
<1>9. TypeOK' /\ stuck' \subseteq Faulty
  <2>1. /\ pending' \in [Conns -> SUBSET Writes] /\ autocommit' \in [Conns -> BOOLEAN]
        /\ stuck' \subseteq Conns /\ stuck' \subseteq Faulty
    BY <1>5 DEF Settled
  <2> QED
    BY Zenon, <1>2, <1>7, <1>8, <2>1 DEF IInv, TypeOK
<1>10. ASSUME NEW u \in Threads PROVE CallInv(u)'
  <2>1. u # t /\ call[u].at \in EndPoints => call[u].txn # x
    BY <1>2, <1>3 DEF CallInv, EndPoints
  <2> QED
    BY <1>2, <1>3, <1>4, <1>7, <2>1 DEF IInv, CallInv, EndPoints, c
<1>11. ASSUME NEW y \in TxnIds PROVE TxnInv(y)'
  <2>1. ~(x >= nextTxnId)
    BY Zenon, <1>3, NoneAssumption DEF IInv, TxnInv
  <2> QED
    BY <1>2, <1>3, <1>7, <2>1 DEF IInv, TxnInv
<1>12. ASSUME NEW d \in Conns \ Shared PROVE ConnInv(d)' /\ UnitInv(d)'
  <2>1. CASE d # c
    <3>1. /\ pending'[d] = pending[d] /\ autocommit'[d] = autocommit[d]
          /\ d \in stuck <=> d \in stuck'
      BY <1>5, <2>1 DEF Settled
    <3>2. \A y \in TxnIds : owner[y] = d => WritesOf(y)' = WritesOf(y) /\ result'[y] = result[y]
      BY <1>2, <1>3, <1>7, <2>1 DEF WritesOf
    <3>3. TxnsOn(d)' = TxnsOn(d)
      BY <1>2 DEF TxnsOn
    <3> QED
      BY <1>2, <1>4, <1>7, <2>1, <3>1, <3>2, <3>3, OtherConn, NoneAssumption DEF c
  <2>2. CASE d = c
    <3>1. /\ connState[c] = "Open" /\ TxnsOn(c) = {}
          /\ \A u \in Threads \ {t} : call[u].conn # c
      BY <1>2, <2>2 DEF IInv, ConnInv, c
    <3>2. TxnsOn(d)' = {}
      BY <1>2, <2>2, <3>1 DEF TxnsOn
    <3>3. \A u \in Threads : call'[u].conn # d
      BY <1>3, <1>4, <1>7, <2>2, <3>1, NoneAssumption
    <3>4. ConnInv(d)'
      BY <1>5, <2>2, <3>2, <3>3, Zenon DEF ConnInv, Settled
    <3>5. Live(d)' = {}
      BY <3>2, <3>3 DEF Live
    <3>6. ASSUME NEW w \in pending'[d]
          PROVE  /\ d \in stuck'
                 /\ writer[w] # 0 => /\ result'[writer[w]] \in {"CommitErr", "RollbackErr"}
                                     /\ WritesOf(writer[w]) \subseteq pending'[d]
      <4>1. /\ w \in pending[d] /\ pending'[d] = pending[d] /\ d \in stuck' /\ ~e.ok
        BY <1>5, <2>2, <3>6 DEF Settled
      <4>2. \/ writer[w] \in Live(d)
            \/ writer[w] = 0 \/ LeftOpen(writer[w], d)
        BY <2>2, <3>1, <4>1 DEF IInv, UnitInv
      <4>3. Live(d) = {x} /\ WritesOf(x) \subseteq pending[d]
        BY <1>2, <2>2, LiveEnding, EndWork DEF EndPoints, c
      <4>4. CASE writer[w] = x
        BY <1>6, <1>7, <4>1, <4>3, <4>4
      <4>5. CASE writer[w] # x /\ writer[w] # 0
        <5>1. writer[w] \in TxnIds /\ LeftOpen(writer[w], d)
          BY <1>3, <2>2, <4>1, <4>2, <4>3, <4>5 DEF IInv, WriterInv, TypeOK
        <5> QED
          BY <1>7, <4>1, <4>5, <5>1 DEF LeftOpen
      <4> QED
        BY <4>1, <4>4, <4>5
    <3>7. UnitInv(d)'
      BY <1>2, <3>5, <3>6, NoUnit
    <3> QED
      BY <3>4, <3>7
  <2> QED
    BY <2>1, <2>2
<1> QED
  BY <1>8, <1>9, <1>10, <1>11, <1>12 DEF IInv

\* A transaction that gets no id is dropped: no step of the table, and its
\* connection is settled.
LEMMA BeginDropKeeps ==
  ASSUME IInv, NEW t \in Threads, BeginDrop(t)
  PROVE  IInv'
<1> DEFINE c == call[t].conn
<1>1. /\ call[t].at = "BeginInsert"
      /\ call' = [call EXCEPT ![t] = IdleCall]
      /\ UNCHANGED <<connState, transactions, nextTxnId, writer, owner, result>>
  BY DEF BeginDrop
<1>2. c \in Conns /\ call[t] \in Calls
  BY <1>1, CallTypes
<1>3. IdleCall \in Calls /\ IdleCall.at = "Idle" /\ IdleCall.conn = None
  BY DEF Calls, IdleCall
<1>4. /\ call'[t] = IdleCall /\ \A u \in Threads \ {t} : call'[u] = call[u]
      /\ call' \in [Threads -> Calls]
  BY <1>1, <1>3 DEF IInv, TypeOK
<1>5. \/ connState[c] # "Open" /\ UNCHANGED <<autocommit, pending, durable, stuck>>
      \/ connState[c] = "Open" /\ \E e : Settled(c, "rollback", e)
  <2>1. CASE connState[c] # "Open"
    BY <2>1 DEF BeginDrop
  <2>2. CASE connState[c] = "Open"
    <3>1. PICK e \in EndTran(c, "rollback", pending[c]) : EndUnitOfWork(c, e)
      BY <2>2 DEF BeginDrop, EndTran
    <3> QED
      BY <1>2, <2>2, <3>1, UnitStep, Zenon
  <2> QED
    BY <2>1, <2>2
<1>6. /\ durable' \subseteq Writes /\ \A w \in Writes : WriterInv(w)'
      /\ pending' \in [Conns -> SUBSET Writes] /\ autocommit' \in [Conns -> BOOLEAN]
      /\ stuck' \subseteq Conns /\ stuck' \subseteq Faulty
      /\ \A d \in Conns \ {c} :
            /\ pending'[d] = pending[d] /\ autocommit'[d] = autocommit[d]
            /\ d \in stuck <=> d \in stuck'
  <2>1. CASE UNCHANGED <<autocommit, pending, durable, stuck>>
    BY <1>1, <2>1 DEF IInv, TypeOK, WriterInv
  <2>2. ASSUME NEW e, Settled(c, "rollback", e)
        PROVE  /\ durable' \subseteq Writes /\ \A w \in Writes : WriterInv(w)'
               /\ pending' \in [Conns -> SUBSET Writes] /\ autocommit' \in [Conns -> BOOLEAN]
               /\ stuck' \subseteq Conns /\ stuck' \subseteq Faulty
               /\ \A d \in Conns \ {c} :
                     /\ pending'[d] = pending[d] /\ autocommit'[d] = autocommit[d]
                     /\ d \in stuck <=> d \in stuck'
    <3>1. durable' \subseteq Writes /\ \A w \in Writes : WriterInv(w)'
      BY <1>1, <1>2, <2>2, SettledWriters
    <3> QED
      BY <2>2, <3>1, Zenon DEF Settled
  <2> QED
    BY <1>5, <2>1, <2>2
<1> HIDE DEF c
<1>7. TypeOK'
  BY Zenon, <1>1, <1>4, <1>6 DEF IInv, TypeOK
<1>8. /\ \A u \in Threads : CallInv(u)'
      /\ \A y \in TxnIds : TxnInv(y)'
  BY <1>1, <1>3, <1>4 DEF IInv, CallInv, TxnInv, EndPoints
<1>9. ASSUME NEW d \in Conns \ Shared PROVE ConnInv(d)' /\ UnitInv(d)'
  <2>0. TxnsOn(d)' = TxnsOn(d) /\ \A y : WritesOf(y)' = WritesOf(y)
    BY <1>1 DEF TxnsOn, WritesOf
  <2>1. CASE d # c
    BY <1>1, <1>3, <1>4, <1>6, <2>0, <2>1, OtherConn, NoneAssumption DEF c
  <2>2. CASE d = c
    <3>1. /\ connState[c] = "Open" /\ TxnsOn(c) = {}
          /\ \A u \in Threads \ {t} : call[u].conn # c
      BY <1>1, <2>2 DEF IInv, ConnInv, c
    <3>2. \A u \in Threads : call'[u].conn # d
      BY <1>2, <1>3, <1>4, <2>2, <3>1, NoneAssumption
    <3>3. PICK e : Settled(c, "rollback", e)
      BY <1>5, <3>1
    <3>4. ConnInv(d)'
      BY <2>0, <2>2, <3>1, <3>2, <3>3, Zenon DEF ConnInv, Settled
    <3>5. Live(d)' = {} /\ Live(d) = {}
      BY <1>1, <2>0, <2>2, <3>1, <3>2 DEF Live, EndPoints, c
    <3>6. ASSUME NEW w \in pending'[d]
          PROVE  /\ d \in stuck'
                 /\ writer[w] # 0 => /\ result'[writer[w]] \in {"CommitErr", "RollbackErr"}
                                     /\ WritesOf(writer[w]) \subseteq pending'[d]
      <4>1. w \in pending[d] /\ pending'[d] = pending[d] /\ d \in stuck'
        BY <2>2, <3>3, <3>6 DEF Settled
      <4>2. writer[w] = 0 \/ LeftOpen(writer[w], d)
        BY <2>2, <3>1, <3>5, <4>1 DEF IInv, UnitInv
      <4> QED
        BY <1>1, <4>1, <4>2 DEF LeftOpen
    <3>7. UnitInv(d)'
      BY <1>1, <3>5, <3>6, NoUnit
    <3> QED
      BY <3>4, <3>7
  <2> QED
    BY <2>1, <2>2
<1> QED
  BY <1>6, <1>7, <1>8, <1>9 DEF IInv

LEMMA WriteKeeps ==
  ASSUME IInv, NEW c \in Conns, NEW x \in TxnIds \cup {0}, NEW w \in Writes, Write(c, x, w)
  PROVE  IInv'
<1>1. /\ CallAllowed(c) /\ connState[c] = "Open"
      /\ x \in TxnsOn(c) \/ (x = 0 /\ TxnsOn(c) = {})
      /\ writer[w] = None
      /\ writer' = [writer EXCEPT ![w] = x]
      /\ \/ autocommit[c] /\ durable' = durable \cup {w} /\ pending' = pending
         \/ /\ ~autocommit[c] /\ durable' = durable
            /\ pending' = [pending EXCEPT ![c] = @ \cup {w}]
      /\ UNCHANGED <<connState, autocommit, stuck, transactions, nextTxnId, call, owner, result>>
  BY DEF Write
<1>2. writer'[w] = x /\ \A v \in Writes \ {w} : writer'[v] = writer[v]
  BY <1>1 DEF IInv, TypeOK
<1>3. \A d \in Conns \ {c} : pending'[d] = pending[d]
  BY <1>1 DEF IInv, TypeOK
<1>4. x # 0 => x \in TxnIds /\ owner[x] = c /\ x < nextTxnId
  BY <1>1 DEF TxnsOn, IInv, TxnInv
<1>5. \A y : y # x /\ y # None => WritesOf(y)' = WritesOf(y)
  BY <1>1, <1>2 DEF WritesOf
<1>6. WritesOf(x)' = WritesOf(x) \cup {w}
  BY <1>2 DEF WritesOf
<1>7. TypeOK'
  BY <1>1 DEF IInv, TypeOK
<1>8. /\ \A u \in Threads : CallInv(u)'
      /\ \A y \in TxnIds : TxnInv(y)'
  BY <1>1 DEF IInv, CallInv, TxnInv
<1>9. ASSUME NEW v \in Writes PROVE WriterInv(v)'
  <2>1. CASE v # w
    <3>1. /\ v \in durable' => v \in durable
          /\ \A d \in Conns : v \in pending'[d] => v \in pending[d]
      BY <1>1, <2>1 DEF IInv, TypeOK
    <3> QED
      BY <1>1, <1>2, <2>1, <3>1 DEF IInv, WriterInv
  <2>2. CASE v = w
    <3>1. x # None /\ 0 \notin TxnIds
      BY NoneAssumption DEF TxnIds
    <3>2. \A d \in Conns \ {c} : w \notin pending'[d]
      BY <1>1, <1>3, NoneAssumption DEF IInv, WriterInv, TxnIds
    <3> QED
      BY <1>1, <1>2, <1>4, <2>2, <3>1, <3>2 DEF WriterInv
  <2> QED
    BY <2>1, <2>2
<1>10. ASSUME NEW d \in Conns \ Shared PROVE ConnInv(d)' /\ UnitInv(d)'
  <2>1. CASE d # c
    <3>1. \A y \in TxnIds : owner[y] = d => WritesOf(y)' = WritesOf(y)
      BY <1>4, <1>5, <2>1, NoneAssumption DEF TxnIds
    <3>2. \A v \in pending[d] : writer'[v] = writer[v]
      BY <1>1, <1>2, NoneAssumption DEF IInv, TypeOK, WriterInv, TxnIds
    <3> QED
      BY <1>1, <1>3, <2>1, <3>1, <3>2, OtherConn DEF TxnsOn
  <2>2. CASE d = c
    <3>1. \A u \in Threads : call[u].conn # c
      BY <1>1, <2>2 DEF CallAllowed
    <3>2. TxnsOn(d)' = TxnsOn(d) /\ Live(d) = TxnsOn(d) /\ Live(d)' = TxnsOn(d)
      <4>1. TxnsOn(d)' = TxnsOn(d)
        BY Zenon, <1>1 DEF TxnsOn
      <4> QED
        BY <1>1, <2>2, <3>1, <4>1 DEF Live
    <3>3. pending'[c] = IF autocommit[c] THEN pending[c] ELSE pending[c] \cup {w}
      BY <1>1 DEF IInv, TypeOK
    <3>4. ConnInv(d)'
      <4>1. ConnInv(d)
        BY <1>1, <2>2 DEF IInv
      <4>2. autocommit[d] => pending'[d] = pending[d]
        BY <2>2, <3>3
      <4>3. /\ TxnsOn(d)' = TxnsOn(d)
            /\ UNCHANGED <<connState, autocommit, stuck, call>>
        BY <1>1, <3>2
      <4> QED
        BY <4>1, <4>2, <4>3 DEF ConnInv
    <3>5. connState[d] # "Closed" /\ ConnInv(d) /\ UnitInv(d)
      BY <1>1, <2>2 DEF IInv
    <3>6. x \in TxnsOn(c) => ~autocommit[c]
      BY <2>2, <3>5 DEF ConnInv
    <3>7. x = 0 /\ TxnsOn(c) = {} /\ ~autocommit[c] => c \in stuck
      BY <1>1, <2>2, <3>1, <3>5 DEF ConnInv
    <3>8. ASSUME NEW y \in TxnsOn(d) PROVE WritesOf(y)' \subseteq pending'[d]
      <4>1. y # None /\ y # 0 /\ WritesOf(y) \subseteq pending[d]
        BY <3>2, <3>5, NoneAssumption DEF UnitInv, TxnsOn, IInv, TypeOK, TxnIds
      <4> QED
        BY <1>5, <1>6, <2>2, <3>3, <3>6, <4>1, <1>1, Zenon
    <3>9. ASSUME NEW v \in pending'[d]
          PROVE  \/ writer'[v] \in TxnsOn(d)
                 \/ d \in stuck /\ (writer'[v] = 0 \/ LeftOpen(writer[v], d)')
      <4>1. CASE v = w
        <5>1. w \notin pending[c]
          BY <1>1, NoneAssumption DEF IInv, WriterInv, TxnIds
        <5>2. ~autocommit[c]
          BY <2>2, <3>3, <3>9, <4>1, <5>1
        <5>3. x \in TxnsOn(c) \/ (x = 0 /\ c \in stuck)
          BY <1>1, <3>7, <5>2
        <5> QED
          BY <1>2, <2>2, <4>1, <5>3
      <4>2. CASE v # w
        <5>1. v \in pending[d] /\ v \in Writes /\ writer'[v] = writer[v]
          BY <1>2, <2>2, <3>3, <3>9, <4>2 DEF IInv, TypeOK
        <5>2. CASE writer[v] \in TxnsOn(d) \/ (d \in stuck /\ writer[v] = 0)
          BY <5>1, <5>2
        <5>3. CASE d \in stuck /\ LeftOpen(writer[v], d) /\ writer[v] # 0 /\ writer[v] \notin TxnsOn(d)
          <6>1. PICK y \in TxnIds : y = writer[v]
            BY <5>1, <5>3 DEF IInv, WriterInv
          <6>2. y # x /\ y # None
            BY <1>1, <2>2, <5>3, <6>1, NoneAssumption DEF TxnIds
          <6>3. WritesOf(y)' = WritesOf(y)
            BY <1>5, <6>2
          <6>4. LeftOpen(y, d)'
            BY <1>1, <2>2, <3>3, <5>3, <6>1, <6>3 DEF LeftOpen
          <6> QED
            BY <5>1, <5>3, <6>1, <6>4 DEF LeftOpen, WritesOf
        <5> QED
          BY <3>2, <3>5, <5>1, <5>2, <5>3 DEF UnitInv
      <4> QED
        BY <4>1, <4>2
    <3>10. UnitInv(d)'
      BY <1>1, <3>2, <3>8, <3>9 DEF UnitInv
    <3> QED
      BY <3>4, <3>10
  <2> QED
    BY Zenon, <2>1, <2>2
<1> QED
  BY <1>1, <1>7, <1>8, <1>9, <1>10 DEF IInv

LEMMA DisconnectKeeps ==
  ASSUME IInv, NEW c \in Conns, Disconnect(c)
  PROVE  IInv'
<1>1. /\ CallAllowed(c) /\ connState[c] = "Open"
      /\ connState' = [connState EXCEPT ![c] = "Closed"]
      /\ transactions' = [y \in DOMAIN transactions \ TxnsOn(c) |-> transactions[y]]
      /\ result' = [x \in TxnIds |-> IF x \in TxnsOn(c) THEN "Disconnected" ELSE result[x]]
      /\ UNCHANGED <<nextTxnId, call, writer, owner>>
  BY DEF Disconnect, Restrict
<1>2. /\ durable' \subseteq durable \cup pending[c] /\ pending' \in [Conns -> SUBSET Writes]
      /\ autocommit' \in [Conns -> BOOLEAN]
      /\ stuck' \subseteq Conns /\ stuck' \subseteq Faulty
      /\ pending'[c] \subseteq pending[c] /\ (autocommit[c] => pending[c] = {})
           => (autocommit'[c] => pending'[c] = {})
      /\ pending'[c] \subseteq pending[c]
      /\ \A d \in Conns \ {c} :
            /\ pending'[d] = pending[d] /\ autocommit'[d] = autocommit[d]
            /\ d \in stuck <=> d \in stuck'
  <2>1. CASE TxnsOn(c) = {}
    BY <2>1 DEF Disconnect, IInv, TypeOK
  <2>2. CASE TxnsOn(c) # {}
    <3>1. PICK e \in EndTran(c, "rollback", pending[c]) : EndUnitOfWork(c, e)
      BY <2>2 DEF Disconnect, EndTran
    <3>2. Settled(c, "rollback", e)
      BY <3>1, UnitStep, Zenon
    <3> QED
      BY <3>2 DEF Settled
  <2> QED
    BY <2>1, <2>2
<1>3. /\ TxnsOn(c) \subseteq DOMAIN transactions
      /\ DOMAIN transactions' = DOMAIN transactions \ TxnsOn(c)
      /\ \A y \in DOMAIN transactions' : transactions'[y] = transactions[y]
      /\ \A y \in TxnIds \ TxnsOn(c) : result'[y] = result[y]
  BY <1>1 DEF TxnsOn
<1>4. TypeOK'
  BY <1>1, <1>2, <1>3, Zenon DEF IInv, TypeOK, Results
<1>5. ASSUME NEW u \in Threads PROVE CallInv(u)'
  BY <1>1, <1>3 DEF IInv, CallInv
<1>6. ASSUME NEW y \in TxnIds PROVE TxnInv(y)'
  <2>1. y \in TxnsOn(c) => y < nextTxnId
    BY <1>3 DEF IInv, TxnInv
  <2>2. y < nextTxnId => ~(y >= nextTxnId)
    BY DEF IInv, TypeOK, TxnIds
  <2> QED
    BY Zenon, <1>1, <1>3, <2>1, <2>2 DEF IInv, TxnInv
<1>7. ASSUME NEW w \in Writes PROVE WriterInv(w)'
  <2>1. /\ w \in durable' => w \in durable \/ w \in pending[c]
        /\ \A d \in Conns : w \in pending'[d] => w \in pending[d]
    BY <1>2
  <2>2. w \in pending[c] => writer[w] # None
    BY NoneAssumption DEF IInv, WriterInv, TxnIds
  <2> QED
    BY <1>1, <2>1, <2>2 DEF IInv, WriterInv
<1>8. ASSUME NEW d \in Conns \ Shared PROVE ConnInv(d)' /\ UnitInv(d)'
  <2>1. CASE d # c
    <3>1. TxnsOn(d)' = TxnsOn(d)
      BY <1>1, <2>1 DEF TxnsOn
    <3>2. connState'[d] = connState[d]
      BY <1>1, <2>1 DEF IInv, TypeOK
    <3>3. \A y \in TxnIds : owner[y] = d => result'[y] = result[y]
      BY <1>3, <2>1 DEF IInv, TxnInv, TxnsOn
    <3> QED
      BY <1>1, <1>2, <2>1, <3>1, <3>2, <3>3, OtherConn DEF WritesOf
  <2>2. CASE d = c
    <3>1. \A u \in Threads : call[u].conn # c
      BY <1>1, <2>2 DEF CallAllowed
    <3>2. TxnsOn(d)' = {} /\ connState'[c] = "Closed"
      BY <1>1, <2>2 DEF TxnsOn, IInv, TypeOK
    <3>3. autocommit[c] => pending[c] = {}
      BY <2>2 DEF IInv, ConnInv
    <3>4. ConnInv(d)'
      BY Zenon, <1>1, <1>2, <2>2, <3>1, <3>2, <3>3 DEF ConnInv
    <3>5. UnitInv(d)'
      BY <2>2, <3>2 DEF UnitInv
    <3> QED
      BY <3>4, <3>5
  <2> QED
    BY Zenon, <2>1, <2>2
<1> QED
  BY <1>2, <1>4, <1>5, <1>6, <1>7, <1>8 DEF IInv

LEMMA NextIInv == IInv /\ [Next]_vars => IInv'
<1> SUFFICES ASSUME IInv, [Next]_vars PROVE IInv'
  OBVIOUS
<1>1. ASSUME NEW c \in Conns, Connect(c) PROVE IInv'
  BY <1>1, ConnectKeeps
<1>2. ASSUME NEW c \in Conns, Disconnect(c) PROVE IInv'
  BY <1>2, DisconnectKeeps
<1>3. ASSUME NEW c \in Conns, NEW x \in TxnIds \cup {0}, NEW w \in Writes, Write(c, x, w)
      PROVE  IInv'
  BY <1>3, WriteKeeps
<1>4. ASSUME NEW t \in Threads, NEW c \in Conns, BeginCheck(t, c) PROVE IInv'
  BY <1>4, BeginCheckKeeps
<1>5. ASSUME NEW t \in Threads, NEW x \in DOMAIN transactions,
             NEW kind \in {"commit", "rollback"}, EndTake(t, x, kind)
      PROVE  IInv'
  BY <1>5, EndTakeKeeps
<1>6. ASSUME NEW t \in Threads, CallStep(t) PROVE IInv'
  BY <1>6, BeginLookupKeeps, BeginSqlKeeps, BeginInsertKeeps, BeginDropKeeps,
     EndLookupKeeps, EndSqlKeeps
  DEF CallStep
<1>7. CASE UNCHANGED vars
  <2> USE <1>7 DEF vars
  <2>1. TypeOK'
    BY Zenon DEF IInv, TypeOK
  <2>2. \A t \in Threads : CallInv(t)'
    BY DEF IInv, CallInv
  <2>3. /\ \A x \in TxnIds : TxnInv(x)'
        /\ \A w \in Writes : WriterInv(w)'
    BY DEF IInv, TxnInv, WriterInv
  <2>4. \A c \in Conns \ Shared : ConnInv(c)' /\ UnitInv(c)'
    BY OtherConn DEF TxnsOn, WritesOf
  <2> QED
    BY <2>1, <2>2, <2>3, <2>4 DEF IInv
<1> QED
  BY <1>1, <1>2, <1>3, <1>4, <1>5, <1>6, <1>7 DEF Next

\* The invariant holds in every reachable state.
LEMMA Invariance == Spec => []IInv
BY InitIInv, NextIInv, PTL DEF Spec

\* On every connection on which no two calls overlap, the table of transactions
\* says what the connection is doing, and no ended transaction stays in it.
THEOREM TableFollows == Spec => []TableFollowsConnections
<1>1. IInv => TableFollowsConnections
  <2> SUFFICES ASSUME IInv PROVE TableFollowsConnections
    OBVIOUS
  <2>1. \A x \in DOMAIN transactions :
           x \in TxnIds /\ owner[x] = transactions[x] /\ result[x] = "None"
    BY DEF IInv, TypeOK, TxnInv
  <2>2. \A x \in DOMAIN transactions \cap Exclusive :
           x \in TxnsOn(transactions[x]) /\ transactions[x] \in Conns \ Shared
    BY <2>1 DEF Exclusive, TxnsOn, IInv, TypeOK
  <2>3. \A c \in Conns \ Shared : ConnInv(c)
    BY DEF IInv
  <2>4. \A x \in DOMAIN transactions \cap Exclusive :
           /\ connState[transactions[x]] = "Open"
           /\ \A y \in TxnsOn(transactions[x]) : x = y
    BY <2>2, <2>3 DEF ConnInv
  <2>5. \A c \in Conns \ Shared :
           /\ connState[c] = "Open" /\ TxnsOn(c) = {}
           /\ \A t \in Threads : call[t].conn # c
           => (autocommit[c] /\ pending[c] = {}) \/ (c \in stuck /\ ~autocommit[c])
    BY <2>3 DEF ConnInv
  <2> QED
    BY <2>1, <2>4, <2>5 DEF TableFollowsConnections
<1> QED
  BY <1>1, Invariance, PTL
-----------------------------------------------------------------------------
(* Transactions implements AtomicTransactions, for any number of threads,  *)
(* connections, statements and transactions.                               *)

\* A step that changes neither the work, the ends nor the durable statements
\* of the transactions of exclusive connections is no step of the abstraction.
LEMMA Unseen ==
  ASSUME IInv, owner' = owner, writer' = writer,
         \A x \in Exclusive : result'[x] = result[x],
         durable' \subseteq Writes, durable \subseteq durable',
         \A w \in durable' \ durable : writer[w] \notin Exclusive
  PROVE  UNCHANGED Atomic!vars
<1>1. Exclusive' = Exclusive
  BY DEF Exclusive
<1>2. \A x \in Exclusive : Said(x)' = Said(x)
  BY DEF Said
<1>3. \A x : WritesOf(x)' = WritesOf(x)
  BY DEF WritesOf
<1>4. {w \in durable : writer[w] \in Exclusive}' = {w \in durable : writer[w] \in Exclusive}
  BY <1>1
<1>5. [x \in TxnIds |-> IF x \in Exclusive THEN Said(x) ELSE "Nothing"]'
        = [x \in TxnIds |-> IF x \in Exclusive THEN Said(x) ELSE "Nothing"]
  BY <1>1, <1>2
<1>6. [x \in TxnIds |-> IF x \in Exclusive THEN WritesOf(x) ELSE {}]'
        = [x \in TxnIds |-> IF x \in Exclusive THEN WritesOf(x) ELSE {}]
  BY <1>1, <1>3
<1>7. {x \in Exclusive : owner[x] # None}' = {x \in Exclusive : owner[x] # None}
  BY <1>1
<1> QED
  BY <1>4, <1>5, <1>6, <1>7 DEF Atomic!vars

\* The transactions that ended with an error: they are in doubt.
EndedInError == {y \in Exclusive : owner[y] # None /\ result[y] \in {"CommitErr", "RollbackErr"}}

\* The durable statements of exclusive connections grow by the work of the
\* transactions in xs.
Persisted(xs) ==
    /\ durable \subseteq Writes /\ durable' \subseteq Writes
    /\ \A w \in Writes : writer[w] \in Exclusive =>
          (w \in durable' <=> w \in durable \/ writer[w] \in xs)

LEMMA InDoubtSaid ==
  ASSUME NEW late \in SUBSET EndedInError
  PROVE  late \in SUBSET Atomic!InDoubt
<1>1. \A y \in late : Said(y) = "Failed" /\ y \in TxnIds
  BY DEF Said, EndedInError, Exclusive
<1> QED
  BY <1>1 DEF Atomic!InDoubt, EndedInError

\* The end of an open transaction that is reported as r: its work persists
\* unless it was reported as rolled back, with the work of transactions in
\* doubt, or it is discarded unless it was reported as committed.
LEMMA Ended ==
  ASSUME IInv, NEW x \in Exclusive, NEW r \in Results \ {"None"},
         NEW late \in SUBSET EndedInError,
         owner[x] # None, result[x] = "None",
         result' = [result EXCEPT ![x] = r], owner' = owner, writer' = writer,
         \/ Persisted({x} \cup late) /\ r # "RollbackOk"
         \/ durable' = durable /\ r # "CommitOk"
  PROVE  Atomic!Next
<1> DEFINE opened == {y \in Exclusive : owner[y] # None}
           said == [y \in TxnIds |-> IF y \in Exclusive THEN Said(y) ELSE "Nothing"]
           work == [y \in TxnIds |-> IF y \in Exclusive THEN WritesOf(y) ELSE {}]
           stays == {w \in durable : writer[w] \in Exclusive}
           s == IF r = "CommitOk" THEN "Committed"
                ELSE IF r = "RollbackOk" THEN "RolledBack"
                ELSE IF r = "Disconnected" THEN "Closed" ELSE "Failed"
<1>1. Exclusive' = Exclusive /\ x \in TxnIds
  BY DEF Exclusive
<1>2. x \in opened /\ said[x] = "Nothing"
  BY <1>1 DEF Said
<1>3. opened' = opened
  BY <1>1
<1>4. \A y : WritesOf(y)' = WritesOf(y)
  BY DEF WritesOf
<1>5. work' = work /\ work[x] = WritesOf(x)
  BY <1>1, <1>4
<1>6. said' = [said EXCEPT ![x] = s]
  <2>1. result'[x] = r /\ \A y \in TxnIds \ {x} : result'[y] = result[y]
    BY <1>1 DEF IInv, TypeOK
  <2>2. \A y \in Exclusive \ {x} : Said(y)' = Said(y)
    BY <1>1, <2>1 DEF Said, Exclusive
  <2>3. Said(x)' = s
    BY <2>1 DEF Said
  <2> HIDE DEF s
  <2> QED
    BY <1>1, <2>2, <2>3, Zenon
<1>7. CASE Persisted({x} \cup late) /\ r # "RollbackOk"
  <2>0. \A y \in late : y \in TxnIds /\ work[y] = WritesOf(y) /\ y \in Exclusive
    BY DEF EndedInError, Exclusive
  <2>1. stays' = stays \cup work[x] \cup UNION {work[y] : y \in late}
    <3>1. ASSUME NEW w \in Writes
          PROVE  w \in stays' <=> w \in stays \cup work[x] \cup UNION {work[y] : y \in late}
      <4>1. w \in stays' <=> writer[w] \in Exclusive
                               /\ (w \in durable \/ writer[w] = x \/ writer[w] \in late)
        BY <1>1, <1>7 DEF Persisted
      <4>2. w \in work[x] <=> writer[w] = x
        BY <1>5 DEF WritesOf
      <4>3. w \in UNION {work[y] : y \in late} <=> writer[w] \in late
        <5>1. \A y \in late : w \in work[y] <=> writer[w] = y
          BY <2>0 DEF WritesOf
        <5> HIDE DEF work
        <5> QED
          BY <5>1
      <4> QED
        BY <2>0, <4>1, <4>2, <4>3
    <3>2. /\ stays' \subseteq Writes /\ stays \subseteq Writes /\ work[x] \subseteq Writes
          /\ UNION {work[y] : y \in late} \subseteq Writes
      <4>1. \A y \in late \cup {x} : work[y] \subseteq Writes
        BY <1>5, <2>0 DEF WritesOf
      <4> HIDE DEF work
      <4> QED
        BY <1>7, <4>1 DEF Persisted
    <3> QED
      BY <3>1, <3>2
  <2>2. s \in {"Committed", "Closed", "Failed"}
    BY <1>7
  <2> HIDE DEF s
  <2>3. said' \in {[said EXCEPT ![x] = q] : q \in {"Committed", "Closed", "Failed"}}
    BY <1>6, <2>2, Zenon
  <2> HIDE DEF opened, said, work, stays
  <2>4. /\ x \in opened /\ said[x] = "Nothing"
        /\ said' \in {[said EXCEPT ![x] = q] : q \in {"Committed", "Closed", "Failed"}}
        /\ stays' = stays \cup work[x] \cup UNION {work[y] : y \in late}
        /\ UNCHANGED <<opened, work>>
    BY <1>2, <1>3, <1>5, <2>1, <2>3
  <2>5. Atomic!Persist(x, late)
    BY <2>4 DEF Atomic!Persist, opened, said, work, stays
  <2> QED
    BY <1>1, <2>5, InDoubtSaid DEF Atomic!Next
<1>8. CASE durable' = durable /\ r # "CommitOk"
  <2>1. stays' = stays
    BY <1>1, <1>8
  <2>2. s \in {"RolledBack", "Closed", "Failed"}
    BY <1>8
  <2> HIDE DEF s
  <2>3. said' \in {[said EXCEPT ![x] = q] : q \in {"RolledBack", "Closed", "Failed"}}
    BY <1>6, <2>2, Zenon
  <2> HIDE DEF opened, said, work, stays
  <2>4. /\ x \in opened /\ said[x] = "Nothing"
        /\ said' \in {[said EXCEPT ![x] = q] : q \in {"RolledBack", "Closed", "Failed"}}
        /\ UNCHANGED <<opened, work, stays>>
    BY <1>2, <1>3, <1>5, <2>1, <2>3
  <2>5. Atomic!Discard(x)
    BY <2>4 DEF Atomic!Discard, opened, said, work, stays
  <2> QED
    BY <1>1, <2>5 DEF Atomic!Next
<1> QED
  BY <1>7, <1>8

\* Transactions in doubt persist with work that is no transaction's.
LEMMA SettledLate ==
  ASSUME IInv, NEW late \in SUBSET EndedInError, Persisted(late),
         owner' = owner, writer' = writer, result' = result
  PROVE  Atomic!Next
<1> DEFINE opened == {y \in Exclusive : owner[y] # None}
           said == [y \in TxnIds |-> IF y \in Exclusive THEN Said(y) ELSE "Nothing"]
           work == [y \in TxnIds |-> IF y \in Exclusive THEN WritesOf(y) ELSE {}]
           stays == {w \in durable : writer[w] \in Exclusive}
<1>1. Exclusive' = Exclusive
  BY DEF Exclusive
<1>2. (\A y : WritesOf(y)' = WritesOf(y)) /\ (\A y : Said(y)' = Said(y))
  BY DEF WritesOf, Said
<1>3. opened' = opened /\ said' = said /\ work' = work
  BY <1>1, <1>2
<1>4. \A y \in late : y \in TxnIds /\ work[y] = WritesOf(y) /\ y \in Exclusive
  BY DEF EndedInError, Exclusive
<1>5. stays' = stays \cup UNION {work[y] : y \in late}
  <2>1. ASSUME NEW w \in Writes
        PROVE  w \in stays' <=> w \in stays \cup UNION {work[y] : y \in late}
    <3>1. w \in stays' <=> writer[w] \in Exclusive /\ (w \in durable \/ writer[w] \in late)
      BY <1>1 DEF Persisted
    <3>2. w \in UNION {work[y] : y \in late} <=> writer[w] \in late
      BY <1>4 DEF WritesOf
    <3> QED
      BY <1>4, <3>1, <3>2
  <2>2. /\ stays' \subseteq Writes /\ stays \subseteq Writes
        /\ UNION {work[y] : y \in late} \subseteq Writes
    BY <1>4 DEF Persisted, WritesOf
  <2> QED
    BY <2>1, <2>2
<1> HIDE DEF opened, said, work, stays
<1>6. /\ stays' = stays \cup UNION {work[y] : y \in late}
      /\ UNCHANGED <<opened, said, work>>
  BY <1>3, <1>5
<1>7. Atomic!Settle(late)
  BY <1>6 DEF Atomic!Settle, opened, said, work, stays
<1> QED
  BY <1>7, InDoubtSaid DEF Atomic!Next

\* What becomes durable with the open work of connection c: the transaction
\* that c is in, and transactions in doubt, all of them whole.
LateOn(c) == {y \in TxnIds \ Live(c) : \E w \in pending[c] : writer[w] = y}

LEMMA OpenWork ==
  ASSUME IInv, NEW c \in Conns \ Shared, connState[c] # "Closed",
         durable' = durable \cup pending[c]
  PROVE  LateOn(c) \in SUBSET EndedInError /\ Persisted(Live(c) \cup LateOn(c))
<1>1. /\ \A x \in Live(c) : WritesOf(x) \subseteq pending[c]
      /\ \A w \in pending[c] :
            \/ writer[w] \in Live(c)
            \/ c \in stuck /\ (writer[w] = 0 \/ LeftOpen(writer[w], c))
  BY DEF IInv, UnitInv
<1>2. \A w \in pending[c] : w \in Writes /\
         (writer[w] = 0 \/ (writer[w] \in TxnIds /\ owner[writer[w]] = c))
  BY DEF IInv, TypeOK, WriterInv
<1>3. 0 \notin TxnIds
  BY DEF TxnIds
<1>4. ASSUME NEW y \in LateOn(c)
      PROVE  y \in EndedInError /\ WritesOf(y) \subseteq pending[c]
  <2>1. PICK w \in pending[c] : writer[w] = y
    BY DEF LateOn
  <2>2. y \in TxnIds \ Live(c)
    BY DEF LateOn
  <2>3. LeftOpen(y, c) /\ owner[y] = c
    BY <1>1, <1>2, <1>3, <2>1, <2>2
  <2> QED
    BY <2>2, <2>3, NoneAssumption DEF LeftOpen, EndedInError, Exclusive
<1>5. ASSUME NEW w \in Writes, writer[w] \in Exclusive
      PROVE  w \in durable' <=> w \in durable \/ writer[w] \in Live(c) \cup LateOn(c)
  <2>1. writer[w] \in Live(c) \cup LateOn(c) => w \in pending[c]
    BY <1>1, <1>4 DEF WritesOf
  <2>2. w \in pending[c] => writer[w] \in Live(c) \cup LateOn(c)
    BY <1>5 DEF LateOn, Exclusive
  <2> QED
    BY <2>1, <2>2
<1> QED
  BY <1>4, <1>5 DEF Persisted, IInv, TypeOK

\* A transaction opens when it enters the table.
LEMMA BeginInsertOpens ==
  ASSUME IInv, NEW t \in Threads, BeginInsert(t)
  PROVE  Atomic!Next \/ UNCHANGED Atomic!vars
<1> DEFINE opened == {y \in Exclusive : owner[y] # None}
           said == [y \in TxnIds |-> IF y \in Exclusive THEN Said(y) ELSE "Nothing"]
           work == [y \in TxnIds |-> IF y \in Exclusive THEN WritesOf(y) ELSE {}]
           stays == {w \in durable : writer[w] \in Exclusive}
<1>1. PICK n \in TxnIds : /\ n = nextTxnId /\ owner[n] = None /\ WritesOf(n) = {}
                          /\ result[n] = "None"
  BY BeginInsertKeeps DEF IInv, TxnInv, TypeOK
<1>2. PICK c \in Conns : /\ owner' = [owner EXCEPT ![n] = c]
                         /\ UNCHANGED <<durable, writer, result>>
  BY <1>1, CallTypes, Zenon DEF BeginInsert
<1>3. owner'[n] = c /\ \A y \in TxnIds \ {n} : owner'[y] = owner[y]
  BY <1>2 DEF IInv, TypeOK
<1>4. n \in Exclusive /\ n \notin opened
  BY <1>1, NoneAssumption, ConnsAssumption DEF Exclusive
<1>5. \A y : WritesOf(y)' = WritesOf(y)
  BY <1>2 DEF WritesOf
<1>6. \A y : Said(y)' = Said(y)
  BY <1>2 DEF Said
<1>7. Said(n) = "Nothing"
  BY <1>1 DEF Said
<1>8. Exclusive' = IF c \in Shared THEN Exclusive \ {n} ELSE Exclusive
  BY <1>3, <1>4 DEF Exclusive
<1>9. said' = said /\ work' = work
  BY <1>1, <1>5, <1>6, <1>7, <1>8
<1>10. stays' = stays
  BY <1>1, <1>2, <1>8 DEF WritesOf, IInv, TypeOK
<1>11. CASE c \notin Shared
  <2>1. opened' = opened \cup {n}
    BY <1>3, <1>4, <1>8, <1>11, NoneAssumption DEF Exclusive
  <2> HIDE DEF opened, said, work, stays
  <2>2. /\ n \notin opened /\ opened' = opened \cup {n}
        /\ UNCHANGED <<said, work, stays>>
    BY Zenon, <1>4, <1>9, <1>10, <2>1
  <2>3. Atomic!Open(n)
    BY <2>2 DEF Atomic!Open, opened, said, work, stays
  <2> QED
    BY <2>3 DEF Atomic!Next
<1>12. CASE c \in Shared
  <2>1. opened' = opened
    BY <1>1, <1>3, <1>8, <1>12 DEF Exclusive
  <2> HIDE DEF opened, said, work, stays
  <2>2. UNCHANGED <<opened, said, work, stays>>
    BY <1>9, <1>10, <2>1
  <2> QED
    BY <2>2 DEF Atomic!vars, opened, said, work, stays
<1> QED
  BY <1>11, <1>12

\* A statement is work of its transaction; one outside a transaction, or on a
\* shared connection, is not seen.
LEMMA WriteDoes ==
  ASSUME IInv, NEW c \in Conns, NEW x \in TxnIds \cup {0}, NEW w \in Writes, Write(c, x, w)
  PROVE  Atomic!Next \/ UNCHANGED Atomic!vars
<1> DEFINE opened == {y \in Exclusive : owner[y] # None}
           said == [y \in TxnIds |-> IF y \in Exclusive THEN Said(y) ELSE "Nothing"]
           work == [y \in TxnIds |-> IF y \in Exclusive THEN WritesOf(y) ELSE {}]
           stays == {v \in durable : writer[v] \in Exclusive}
<1>1. /\ x \in TxnsOn(c) \/ (x = 0 /\ TxnsOn(c) = {})
      /\ writer[w] = None
      /\ writer' = [writer EXCEPT ![w] = x]
      /\ \/ autocommit[c] /\ durable' = durable \cup {w}
         \/ ~autocommit[c] /\ durable' = durable
      /\ owner' = owner /\ result' = result
  BY DEF Write
<1>2. /\ writer'[w] = x /\ \A v \in Writes \ {w} : writer'[v] = writer[v]
      /\ w \notin durable /\ durable \subseteq Writes
  BY <1>1 DEF IInv, TypeOK, WriterInv
<1>3. Exclusive' = Exclusive /\ Exclusive \subseteq TxnIds /\ None \notin TxnIds /\ 0 \notin TxnIds
  BY <1>1, NoneAssumption DEF Exclusive, TxnIds
<1>4. \A y \in TxnIds : WritesOf(y)' = IF y = x THEN WritesOf(y) \cup {w} ELSE WritesOf(y)
  BY <1>1, <1>2, <1>3 DEF WritesOf
<1>5. \A y : Said(y)' = Said(y)
  BY <1>1 DEF Said
<1>6. opened' = opened /\ said' = said
  BY <1>1, <1>3, <1>5
<1>7. CASE x \in Exclusive
  <2>1. x \in TxnsOn(c) /\ x \in TxnIds
    BY <1>1, <1>3, <1>7
  <2>2. owner[x] = c /\ result[x] = "None"
    BY Zenon, <2>1 DEF TxnsOn, IInv, TxnInv
  <2>3. ~autocommit[c]
    BY <1>7, <2>1, <2>2 DEF Exclusive, IInv, ConnInv
  <2>4. stays' = stays
    BY <1>1, <1>2, <1>3, <2>3
  <2>5. x \in opened /\ said[x] = "Nothing"
    BY <1>7, <2>1, <2>2, NoneAssumption DEF Said
  <2>6. work' = [work EXCEPT ![x] = @ \cup {w}]
    BY <1>3, <1>4, <1>7, <2>1, Zenon
  <2> HIDE DEF opened, said, work, stays
  <2>7. /\ x \in opened /\ said[x] = "Nothing"
        /\ work' = [work EXCEPT ![x] = @ \cup {w}]
        /\ UNCHANGED <<opened, said, stays>>
    BY Zenon, <1>6, <2>4, <2>5, <2>6
  <2>8. Atomic!Do(x, w)
    BY <2>7 DEF Atomic!Do, opened, said, work, stays
  <2> QED
    BY <2>1, <2>8 DEF Atomic!Next
<1>8. CASE x \notin Exclusive
  <2>1. work' = work
    BY <1>3, <1>4, <1>8
  <2>2. stays' = stays
    BY <1>1, <1>2, <1>3, <1>8
  <2> HIDE DEF opened, said, work, stays
  <2>3. UNCHANGED <<opened, said, work, stays>>
    BY Zenon, <1>6, <2>1, <2>2
  <2> QED
    BY <2>3 DEF Atomic!vars, opened, said, work, stays
<1> QED
  BY Zenon, <1>7, <1>8

\* Work that is open on a shared connection is not seen.
LEMMA SharedWork ==
  ASSUME IInv, NEW c \in Shared, NEW w \in pending[c]
  PROVE  w \in Writes /\ writer[w] \notin Exclusive
<1>1. w \in Writes /\ c \in Conns
  BY ConnsAssumption DEF IInv, TypeOK
<1>2. writer[w] = 0 \/ owner[writer[w]] = c
  BY <1>1 DEF IInv, WriterInv
<1> QED
  BY <1>1, <1>2 DEF Exclusive, TxnIds

\* A transaction ends when SQLEndTran and the return to autocommit are done.
LEMMA EndSqlEnds ==
  ASSUME IInv, NEW t \in Threads, EndSql(t)
  PROVE  Atomic!Next \/ UNCHANGED Atomic!vars
<1> DEFINE c == call[t].conn
           x == call[t].txn
           kind == call[t].kind
<1>1. PICK e \in EndTran(c, kind, pending[c]) :
         EndUnitOfWork(c, e) /\ result' = [result EXCEPT ![x] = Report(kind, e.ok)]
  BY Zenon DEF EndSql
<1>2. call[t].at = "EndSql" /\ writer' = writer /\ owner' = owner
  BY Zenon DEF EndSql
<1>3. /\ c \in Conns /\ x \in TxnIds /\ kind \in {"commit", "rollback"}
      /\ owner[x] = c /\ result[x] = "None"
  BY <1>2, CallTypes DEF CallInv, EndPoints
<1>4. e.ok \in BOOLEAN /\ Settled(c, kind, e)
  BY Zenon, <1>1, <1>3, UnitStep
<1>5. /\ durable' \in {durable, durable \cup pending[c]}
      /\ e.ok /\ kind = "commit" => durable' = durable \cup pending[c]
      /\ e.ok /\ kind = "rollback" => durable' = durable
  BY Zenon, <1>4 DEF Settled
<1>6. durable \subseteq Writes /\ pending[c] \subseteq Writes
  BY Zenon, <1>3 DEF IInv, TypeOK
<1>7. PICK r \in Results \ {"None"} : r = Report(kind, e.ok)
  BY Zenon, <1>3, <1>4, ReportResult
<1>8. CASE c \in Shared
  <2>1. x \notin Exclusive
    BY Zenon, <1>3, <1>8 DEF Exclusive
  <2>2. \A y \in Exclusive : result'[y] = result[y]
    BY Zenon, <1>1, <1>3, <2>1 DEF IInv, TypeOK, Exclusive
  <2>3. /\ durable' \subseteq Writes /\ durable \subseteq durable'
        /\ durable' \ durable \subseteq pending[c]
    BY <1>5, <1>6
  <2>4. \A w \in durable' \ durable : writer[w] \notin Exclusive
    BY Zenon, <1>8, <2>3, SharedWork
  <2> QED
    BY Zenon, <1>2, <2>2, <2>3, <2>4, Unseen
<1>9. CASE c \notin Shared
  <2>1. x \in Exclusive /\ owner[x] # None
    BY Zenon, <1>3, <1>9, NoneAssumption DEF Exclusive
  <2>2. Live(c) = {x} /\ connState[c] # "Closed"
    <3>1. call[t].at \in EndPoints
      BY Zenon, <1>2 DEF EndPoints
    <3>2. Live(c) = {x}
      BY <1>3, <1>9, <3>1, LiveEnding
    <3>3. connState[c] # "Closed"
      BY <1>3, <1>9 DEF IInv, ConnInv
    <3> QED
      BY <3>2, <3>3
  <2>3. /\ e.ok /\ kind = "commit" => r = "CommitOk"
        /\ e.ok /\ kind = "rollback" => r = "RollbackOk"
        /\ ~e.ok => r \in {"CommitErr", "RollbackErr"}
    BY <1>3, <1>7 DEF Report
  <2>4. result' = [result EXCEPT ![x] = r]
    BY <1>1, <1>7
  <2> HIDE DEF x
  <2> PICK y \in Exclusive : y = x
    BY <2>1
  <2>5. CASE durable' = durable \cup pending[c] /\ r # "RollbackOk"
    <3>1. LateOn(c) \in SUBSET EndedInError /\ Persisted({y} \cup LateOn(c))
      BY <1>3, <1>9, <2>2, <2>5, OpenWork
    <3> QED
      BY <1>2, <1>3, <2>1, <2>4, <2>5, <3>1, Ended, Zenon
  <2>6. CASE durable' = durable /\ r # "CommitOk"
    <3>1. {} \in SUBSET EndedInError
      OBVIOUS
    <3> QED
      BY <1>2, <1>3, <2>1, <2>4, <2>6, <3>1, Ended, Zenon
  <2> QED
    BY <1>3, <1>4, <1>5, <2>3, <2>5, <2>6
<1> QED
  BY Zenon, <1>8, <1>9

\* A transaction that gets no id was never open; its rollback may settle what
\* others left open.
LEMMA BeginDropSettles ==
  ASSUME IInv, NEW t \in Threads, BeginDrop(t)
  PROVE  Atomic!Next \/ UNCHANGED Atomic!vars
<1> DEFINE c == call[t].conn
<1>1. /\ call[t].at = "BeginInsert"
      /\ writer' = writer /\ owner' = owner /\ result' = result
  BY Zenon DEF BeginDrop
<1>2. c \in Conns
  BY <1>1, CallTypes
<1>3. durable \subseteq Writes /\ pending[c] \subseteq Writes
  BY Zenon, <1>2 DEF IInv, TypeOK
<1>4. durable' \in {durable, durable \cup pending[c]}
  <2>1. CASE connState[c] # "Open"
    BY <2>1 DEF BeginDrop
  <2>2. CASE connState[c] = "Open"
    <3>1. PICK e \in EndTran(c, "rollback", pending[c]) : EndUnitOfWork(c, e)
      BY <2>2 DEF BeginDrop, EndTran
    <3>2. Settled(c, "rollback", e)
      BY <1>2, <3>1, UnitStep, Zenon
    <3> QED
      BY <3>2 DEF Settled
  <2> QED
    BY <2>1, <2>2
<1>5. CASE durable' = durable
  BY Zenon, <1>1, <1>3, <1>5, Unseen
<1>6. CASE durable' = durable \cup pending[c] /\ c \in Shared
  <2>1. /\ durable' \subseteq Writes /\ durable \subseteq durable'
        /\ durable' \ durable \subseteq pending[c]
    BY <1>3, <1>6
  <2>2. \A w \in durable' \ durable : writer[w] \notin Exclusive
    BY Zenon, <1>6, <2>1, SharedWork
  <2> QED
    BY Zenon, <1>1, <2>1, <2>2, Unseen
<1>7. CASE durable' = durable \cup pending[c] /\ c \notin Shared
  <2>1. connState[c] # "Closed" /\ Live(c) = {}
    <3>1. /\ connState[c] = "Open" /\ TxnsOn(c) = {}
          /\ \A u \in Threads \ {t} : call[u].conn # c
      BY <1>1, <1>2, <1>7 DEF IInv, ConnInv
    <3> QED
      BY <1>1, <3>1, LiveNone DEF EndPoints
  <2>2. LateOn(c) \in SUBSET EndedInError /\ Persisted(LateOn(c))
    BY <1>2, <1>7, <2>1, OpenWork
  <2> QED
    BY Zenon, <1>1, <2>2, SettledLate
<1> QED
  BY Zenon, <1>4, <1>5, <1>6, <1>7

\* A commit or rollback whose connection has gone ends its transaction too.
LEMMA EndLookupEnds ==
  ASSUME IInv, NEW t \in Threads, EndLookup(t)
  PROVE  Atomic!Next \/ UNCHANGED Atomic!vars
<1> DEFINE c == call[t].conn
           x == call[t].txn
           kind == call[t].kind
<1>1. /\ call[t].at = "EndLookup" /\ writer' = writer /\ owner' = owner
      /\ durable' = durable
      /\ result' = result \/ result' = [result EXCEPT ![x] = Report(kind, FALSE)]
  BY Zenon DEF EndLookup
<1>2. /\ x \in TxnIds /\ kind \in {"commit", "rollback"} /\ c \in Conns
      /\ owner[x] = c /\ result[x] = "None" /\ durable \subseteq Writes
  <2>1. durable \subseteq Writes
    BY Zenon DEF IInv, TypeOK
  <2> QED
    BY <1>1, <2>1, CallTypes DEF CallInv, EndPoints
<1>3. PICK r \in Results \ {"None", "CommitOk"} : r = Report(kind, FALSE)
  BY Zenon, <1>2, ReportResult
<1>4. CASE x \in Exclusive /\ result' # result
  <2> PICK y \in Exclusive : y = x
    BY Zenon, <1>4
  <2>1. {} \in SUBSET EndedInError
    OBVIOUS
  <2> QED
    BY <1>1, <1>2, <1>3, <1>4, <2>1, NoneAssumption, Ended, Zenon
<1>5. CASE x \notin Exclusive \/ result' = result
  <2>1. \A y \in Exclusive : result'[y] = result[y]
    BY <1>1, <1>2, <1>5, Zenon DEF IInv, TypeOK, Exclusive
  <2> QED
    BY Zenon, <1>1, <1>2, <2>1, Unseen
<1> QED
  BY Zenon, <1>4, <1>5

\* odbc_disconnect ends the transaction of the connection.
LEMMA DisconnectEnds ==
  ASSUME IInv, NEW c \in Conns, Disconnect(c)
  PROVE  Atomic!Next \/ UNCHANGED Atomic!vars
<1>1. /\ result' = [x \in TxnIds |-> IF x \in TxnsOn(c) THEN "Disconnected" ELSE result[x]]
      /\ writer' = writer /\ owner' = owner
  BY DEF Disconnect
<1>2. /\ durable' \in {durable, durable \cup pending[c]}
      /\ TxnsOn(c) = {} => durable' = durable
  <2>1. CASE TxnsOn(c) = {}
    BY <2>1 DEF Disconnect
  <2>2. CASE TxnsOn(c) # {}
    <3>1. PICK e \in EndTran(c, "rollback", pending[c]) : EndUnitOfWork(c, e)
      BY <2>2 DEF Disconnect, EndTran
    <3>2. Settled(c, "rollback", e)
      BY <3>1, UnitStep, Zenon
    <3> QED
      BY <2>2, <3>2 DEF Settled
  <2> QED
    BY <2>1, <2>2
<1>3. /\ durable \subseteq Writes /\ pending[c] \subseteq Writes
      /\ \A x \in TxnsOn(c) : x \in TxnIds /\ owner[x] = c /\ result[x] = "None"
  BY DEF IInv, TypeOK, TxnsOn, TxnInv
<1>4. CASE c \in Shared
  <2>1. \A y \in Exclusive : result'[y] = result[y]
    BY <1>1, <1>3, <1>4 DEF Exclusive
  <2>2. \A w \in durable' \ durable : writer[w] \notin Exclusive
    BY <1>2, <1>4, SharedWork
  <2> QED
    BY <1>1, <1>2, <1>3, <2>1, <2>2, Unseen
<1>5. CASE TxnsOn(c) = {}
  BY <1>1, <1>2, <1>3, <1>5, Unseen DEF Exclusive
<1>6. CASE c \notin Shared /\ TxnsOn(c) # {}
  <2>1. PICK x \in TxnsOn(c) : TRUE
    BY Zenon, <1>6
  <2>2. TxnsOn(c) = {x} /\ Live(c) = {x} /\ connState[c] # "Closed"
    <3>1. \A u \in Threads : call[u].conn # c
      BY <1>6 DEF Disconnect, CallAllowed
    <3>2. TxnsOn(c) = {x} /\ connState[c] = "Open"
      BY <1>6 DEF IInv, ConnInv
    <3> QED
      BY <3>1, <3>2 DEF Live
  <2>3. x \in Exclusive /\ owner[x] # None /\ result[x] = "None"
    BY <1>3, <1>6, NoneAssumption DEF Exclusive
  <2>4. result' = [result EXCEPT ![x] = "Disconnected"]
    BY <1>1, <1>3, <2>2, Zenon DEF IInv, TypeOK
  <2>5. CASE durable' = durable \cup pending[c]
    <3>1. LateOn(c) \in SUBSET EndedInError /\ Persisted({x} \cup LateOn(c))
      BY <1>6, <2>2, <2>5, OpenWork
    <3> QED
      BY <1>1, <2>3, <2>4, <3>1, Ended DEF Results
  <2>6. CASE durable' = durable
    <3>1. {} \in SUBSET EndedInError
      OBVIOUS
    <3> QED
      BY <1>1, <2>3, <2>4, <2>6, <3>1, Ended DEF Results
  <2> QED
    BY <1>2, <2>5, <2>6
<1> QED
  BY <1>4, <1>5, <1>6

LEMMA InitAtomic == Init => Atomic!Init
<1> SUFFICES ASSUME Init PROVE Atomic!Init
  OBVIOUS
<1> DEFINE said == [y \in TxnIds |-> IF y \in Exclusive THEN Said(y) ELSE "Nothing"]
           work == [y \in TxnIds |-> IF y \in Exclusive THEN WritesOf(y) ELSE {}]
<1>1. {x \in Exclusive : owner[x] # None} = {}
  BY DEF Init, Exclusive
<1>2. said = [x \in TxnIds |-> "Nothing"]
  BY DEF Init, Said
<1>3. work = [x \in TxnIds |-> {}]
  BY NoneAssumption DEF Init, WritesOf, TxnIds
<1>4. {w \in durable : writer[w] \in Exclusive} = {}
  BY DEF Init
<1> QED
  BY <1>1, <1>2, <1>3, <1>4 DEF Atomic!Init

LEMMA NextAtomic == IInv /\ [Next]_vars => [Atomic!Next]_(Atomic!vars)
<1> SUFFICES ASSUME IInv, [Next]_vars PROVE Atomic!Next \/ UNCHANGED Atomic!vars
  OBVIOUS
<1>1. durable \subseteq Writes
  BY DEF IInv, TypeOK
<1>2. ASSUME UNCHANGED <<owner, writer, result, durable>> PROVE UNCHANGED Atomic!vars
  BY <1>1, <1>2, Unseen
<1>3. ASSUME NEW c \in Conns, Connect(c) PROVE UNCHANGED Atomic!vars
  BY <1>2, <1>3 DEF Connect
<1>4. ASSUME NEW t \in Threads, NEW c \in Conns, BeginCheck(t, c)
      PROVE  UNCHANGED Atomic!vars
  BY <1>2, <1>4 DEF BeginCheck
<1>5. ASSUME NEW t \in Threads, NEW x, NEW kind, EndTake(t, x, kind)
      PROVE  UNCHANGED Atomic!vars
  BY <1>2, <1>5 DEF EndTake
<1>6. ASSUME NEW t \in Threads, BeginLookup(t) \/ BeginSql(t) PROVE UNCHANGED Atomic!vars
  BY <1>2, <1>6 DEF BeginLookup, BeginSql
<1>7. CASE UNCHANGED vars
  BY <1>2, <1>7 DEF vars
<1>8. ASSUME NEW t \in Threads, CallStep(t) PROVE Atomic!Next \/ UNCHANGED Atomic!vars
  BY <1>6, <1>8, BeginInsertOpens, BeginDropSettles, EndLookupEnds, EndSqlEnds
  DEF CallStep
<1> QED
  BY <1>3, <1>4, <1>5, <1>7, <1>8, WriteDoes, DisconnectEnds DEF Next

\* The native calls, interleaved as the two mutexes let them be and over a
\* driver that may refuse any commit, rollback or return to autocommit,
\* implement atomic transactions on every connection on which no two calls
\* overlap.  Only a transaction whose end was reported as failed may persist
\* later than its end.
THEOREM Atomicity == Spec => ImplementsAtomic
<1>1. Spec => Atomic!Init /\ [][Atomic!Next]_(Atomic!vars)
  BY InitAtomic, NextAtomic, Invariance, PTL DEF Spec
<1> QED
  BY <1>1 DEF ImplementsAtomic, Atomic!Spec
=============================================================================
