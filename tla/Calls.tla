------------------------------- MODULE Calls -------------------------------
(***************************************************************************)
(* The calls that run SQL: queries, parameter and batch queries, prepared  *)
(* statements, catalog calls and the start of a buffered stream, with the  *)
(* global mutex, the mutex of each connection, the results kept for a      *)
(* retry, the error slots and the metadata cache.                          *)
(*                                                                         *)
(* A request is what a Dart caller does: it repeats the call with a buffer *)
(* twice as large for as long as the answer is "too small" (-2) and the    *)
(* buffer is within its limit.  A critical section under the global mutex  *)
(* that waits for nothing is one action, enabled while the mutex is free;  *)
(* a call that waits or runs SQL while it holds the mutex is the value of  *)
(* global.  A statement stands for its SQL text and its parameters.        *)
(***************************************************************************)
EXTENDS Integers, FiniteSets, Functions

CONSTANTS
    Threads,        \* callers of the FFI
    PlainIds,       \* ids that odbc_connect gives out, each of them once
    PooledIds,      \* ids that odbc_pool_get_connection gives out, again and again
    MaxStmts,       \* bound: statements prepared; the n-th has id n
    Singles,        \* statements sent as single queries
    Batches,        \* statements sent as batches
    Limits,         \* the largest buffers requests allow
    Sizes,          \* sizes of results
    MaxSessions,    \* bound: connections and checkouts made
    MaxRequests,    \* bound: requests made
    Shareable,      \* the connections an opener may let other threads use
    SharedFns,      \* the functions called on a connection once it is shared
    None

ASSUME BoundsAssumption == MaxSessions \in Nat /\ MaxRequests \in Nat /\ MaxStmts \in Nat
ASSUME IdsAssumption == PlainIds \cap PooledIds = {}
ASSUME NoneAssumption == None \notin Threads
ASSUME ShareableAssumption == Shareable \subseteq PlainIds
ASSUME SizesAssumption == Limits \subseteq Nat \ {0} /\ Sizes \subseteq Nat \ {0}

VARIABLES
    live,           \* id -> the session behind it: connections, pooled_connections
    holder,         \* id -> the thread that opened it
    shared,         \* the connections that other threads may use too
    sessions,       \* number of sessions so far
    statements,     \* statement id -> its connection and its text
    prepared,       \* number of statements prepared so far
    pending,        \* pending_result_buffers
    cached,         \* metadata_cache: id -> its columns
    streams,        \* the connections of the buffered streams
    connErr,        \* connection_errors: id -> the failed request
    global,         \* the thread that holds the global mutex
    mutex,          \* id -> the thread that holds the mutex of the connection
    call,           \* thread -> the call it is in
    outcome,        \* thread -> how its last request ended
    requests,       \* number of requests so far
    owed            \* pending key -> executions asked for less those made

vars == <<live, holder, shared, sessions, statements, prepared, pending, cached, streams, connErr,
          global, mutex, call, outcome, requests, owed>>

tables == <<live, holder, shared, sessions, statements, prepared, streams>>

Sqls == Singles \cup Batches
StmtIds == 1 .. MaxStmts
Ids == PlainIds \cup PooledIds
Fns == {"query", "params", "multi", "mparams", "execute", "catalog", "columns", "stream"}
Keys == [kind : {"query", "params"}, id : Ids, sql : Singles] \cup
        [kind : {"params", "multi"}, id : Ids, sql : Batches] \cup
        [kind : {"execute"}, id : StmtIds, sql : Singles]
Formats == {"rows", "multi", "catalog"}
\* left: the request that got these rows ended without them.
Data == [fmt : Formats, id : Ids, session : 1 .. MaxSessions, req : 1 .. MaxRequests,
         size : Sizes, left : BOOLEAN]
Idle == [at |-> "Idle"]

\* Mutant: one result is kept per connection.
KeyPerConnection(c) == [kind |-> "query", id |-> c.id, sql |-> CHOOSE q \in Singles : TRUE]

\* PendingResultKey.  The two calls with parameters use the same kind.
Key(c) ==
    [kind |-> CASE c.fn \in {"params", "mparams"} -> "params"
                [] OTHER -> c.fn,
     id |-> IF c.fn = "execute" THEN c.stmt ELSE c.id, sql |-> c.sql]

Format(fn) == CASE fn \in {"query", "params", "execute"} -> "rows"
                [] fn \in {"multi", "mparams"} -> "multi"
                [] OTHER -> "catalog"

Init ==
    /\ live = <<>> /\ holder = [i \in Ids |-> None] /\ shared = {} /\ sessions = 0
    /\ statements = <<>> /\ prepared = 0 /\ pending = <<>> /\ cached = <<>> /\ streams = {}
    /\ connErr = [i \in Ids |-> None]
    /\ global = None /\ mutex = [i \in Ids |-> None]
    /\ call = [t \in Threads |-> Idle]
    /\ outcome = [t \in Threads |-> Idle]
    /\ requests = 0 /\ owed = [k \in Keys |-> 0]
-----------------------------------------------------------------------------
(* How calls end.                                                          *)

Put(f, x, v) == [y \in DOMAIN f \cup {x} |-> IF y = x THEN v ELSE f[y]]
Drop(f, xs) == Restrict(f, DOMAIN f \ xs)

\* Mutant: the slot of the connection keeps the error it has.
SetConnectionErrorOnce(c) ==
    connErr' = [connErr EXCEPT ![c.id] =
                    IF @ = None THEN [req |-> c.req, structured |-> FALSE] ELSE @]

\* set_error writes the process-wide slot only, which every error overwrites
\* whatever its connection, and which is not kept here.
SetError == UNCHANGED connErr

\* set_connection_error.
SetConnectionError(c) ==
    connErr' = [connErr EXCEPT ![c.id] = [req |-> c.req, structured |-> FALSE]]

\* set_connection_structured_error.
SetConnectionStructuredError(c) ==
    connErr' = [connErr EXCEPT ![c.id] = [req |-> c.req, structured |-> TRUE]]

Asked(t) == [fn |-> call[t].fn, id |-> call[t].id, session |-> call[t].session,
             req |-> call[t].req]

\* The call returns 0 and data.
Deliver(t, data) ==
    /\ outcome' = [outcome EXCEPT ![t] = [at |-> "Ok", call |-> Asked(t), data |-> data]]
    /\ call' = [call EXCEPT ![t] = Idle]

\* The call returns -1, and the slot of its connection tells why ...
Fail(t) ==
    /\ outcome' = [outcome EXCEPT ![t] = [at |-> "Failed", call |-> Asked(t)]]
    /\ call' = [call EXCEPT ![t] = Idle]

\* ... or only the process-wide slot does; slot is what the other one says.
FailUnnoted(t) ==
    /\ outcome' = [outcome EXCEPT ![t] = [at |-> "Unnoted", call |-> Asked(t),
                                         slot |-> connErr[call[t].id]]]
    /\ call' = [call EXCEPT ![t] = Idle]

\* callWithBuffer does not go beyond its limit.
GivesUp(t) == 2 * call[t].buf > call[t].limit

\* The call returns -2, and callWithBuffer doubles the buffer or gives up.
TooSmall(t) ==
    IF ~GivesUp(t)
    THEN /\ call' = [call EXCEPT ![t].at = "Enter", ![t].buf = 2 * @, ![t].res = None]
         /\ UNCHANGED outcome
    ELSE /\ outcome' = [outcome EXCEPT ![t] = Idle]
         /\ call' = [call EXCEPT ![t] = Idle]

\* Mutant: a result that still does not fit is not put back.
TryWritePendingOnce(t) ==
    LET k == Key(call[t]) IN
    /\ pending' = Drop(pending, {k})
    /\ \/ pending[k].fresh /\ pending[k].data.size <= call[t].buf
          /\ Deliver(t, pending[k].data) /\ UNCHANGED connErr
       \/ pending[k].fresh /\ pending[k].data.size > call[t].buf
          /\ SetConnectionError(call[t]) /\ TooSmall(t)

\* try_write_pending_result, for a key that has an entry.
TryWritePending(t) ==
    LET k == Key(call[t]) IN
    \/ /\ ~pending[k].fresh
       /\ pending' = Drop(pending, {k})
       /\ SetConnectionError(call[t]) /\ Fail(t)
    \/ /\ pending[k].fresh /\ pending[k].data.size > call[t].buf
       /\ SetConnectionError(call[t]) /\ TooSmall(t)
       /\ pending' = [pending EXCEPT ![k].data.left = @ \/ GivesUp(t)]
    \/ /\ pending[k].fresh /\ pending[k].data.size <= call[t].buf
       /\ pending' = Drop(pending, {k})
       /\ Deliver(t, pending[k].data)
       /\ UNCHANGED connErr

\* The end of a query under the global mutex: the data fit, or
\* stash_pending_result keeps them for a retry.
Answer(t, data) ==
    \/ /\ data.size <= call[t].buf
       /\ Deliver(t, data)
       /\ UNCHANGED <<pending, connErr>>
    \/ /\ data.size > call[t].buf
       /\ pending' = Put(pending, Key(call[t]),
                         [data |-> [data EXCEPT !.left = GivesUp(t)], fresh |-> TRUE])
       /\ SetConnectionError(call[t]) /\ TooSmall(t)

Result(t, size) ==
    [fmt |-> Format(call[t].fn), id |-> call[t].id, session |-> call[t].session,
     req |-> call[t].req, size |-> size, left |-> FALSE]

Executed(t) == owed' = [owed EXCEPT ![Key(call[t])] = @ - 1]

At(t, where) == call[t].at = where
Entering(t, fn) == At(t, "Enter") /\ call[t].fn = fn /\ global = None
Hit(t) == Key(call[t]) \in DOMAIN pending
-----------------------------------------------------------------------------
(* odbc_exec_query: it leaves the global mutex before it waits for the     *)
(* connection, and takes a pooled connection out of its table.             *)

\* A plain connection is looked up among the handles, which may be refused
\* (their mutex is poisoned, or they have no such connection).
Reached(i) == IF i \in PlainIds THEN {"Lock", "Refused"} ELSE {"Run"}

ExecQuery(t) ==
    /\ Entering(t, "query")
    /\ \/ Hit(t) /\ TryWritePending(t) /\ UNCHANGED live
       \/ /\ ~Hit(t) /\ call[t].id \in DOMAIN live
          /\ \E where \in Reached(call[t].id) :
                call' = [call EXCEPT ![t].at = where, ![t].session = live[call[t].id]]
          /\ live' = Drop(live, {call[t].id} \cap PooledIds)
          /\ UNCHANGED <<pending, connErr, outcome>>
       \/ /\ ~Hit(t) /\ call[t].id \notin DOMAIN live
          /\ SetConnectionError(call[t]) /\ Fail(t)
          /\ UNCHANGED <<live, pending>>
    /\ UNCHANGED <<holder, shared, sessions, statements, prepared, streams, cached, global, mutex,
                   requests, owed>>

\* conn_arc.lock(), for calls that hold the global mutex and for those that do not.
\* A poisoned mutex is refused.
LockConnection(t) ==
    /\ At(t, "Lock") /\ mutex[call[t].id] = None
    /\ \/ /\ mutex' = [mutex EXCEPT ![call[t].id] = t]
          /\ call' = [call EXCEPT ![t].at = "Run"]
          /\ UNCHANGED global
       \/ /\ call' = [call EXCEPT ![t].at = "Refused"]
          /\ global' = IF global = t THEN None ELSE global
          /\ UNCHANGED mutex
    /\ UNCHANGED <<tables, pending, cached, connErr, outcome, requests, owed>>

\* The report of a refusal, under the global mutex taken again: two of the calls
\* make it with set_error.  Rows kept for the request stay.
RefusedReport(t) ==
    /\ At(t, "Refused") /\ global = None
    /\ \/ call[t].fn \in {"query", "stream"} /\ SetError /\ FailUnnoted(t)
       \/ call[t].fn \notin {"query", "stream"} /\ SetConnectionError(call[t]) /\ Fail(t)
    /\ pending' = [k \in DOMAIN pending |->
                      IF k = Key(call[t]) THEN [pending[k] EXCEPT !.data.left = TRUE]
                      ELSE pending[k]]
    /\ UNCHANGED <<tables, cached, global, mutex, requests, owed>>

Unlock(t) == mutex' = [i \in Ids |-> IF mutex[i] = t THEN None ELSE mutex[i]]

AfterRun(r) == IF r = None THEN "Error" ELSE "Report"

\* The statement runs, or fails; the connection is let go.
QueryRun(t, size) ==
    /\ At(t, "Run") /\ call[t].fn = "query"
    /\ Executed(t)
    /\ Unlock(t)
    /\ \E r \in {Result(t, size), None} :
          call' = [call EXCEPT ![t].at = IF call[t].id \in PooledIds THEN "PutBack"
                                         ELSE AfterRun(r), ![t].res = r]
    /\ UNCHANGED <<tables, pending, cached, connErr, global, outcome, requests>>

\* The pooled connection goes back to its table.
QueryPutBack(t) ==
    /\ At(t, "PutBack") /\ global = None
    /\ live' = Put(live, call[t].id, call[t].session)
    /\ call' = [call EXCEPT ![t].at = AfterRun(call[t].res)]
    /\ UNCHANGED <<holder, shared, sessions, statements, prepared, streams, pending, cached, connErr,
                   global, mutex, outcome, requests, owed>>

\* Under the global mutex again.
QueryReport(t) ==
    /\ At(t, "Report") /\ global = None
    /\ Answer(t, call[t].res)
    /\ UNCHANGED <<tables, cached, global, mutex, requests, owed>>

\* The report of an error, of any of the calls: under the global mutex, and with
\* the connection's mutex if the call still has it.
ErrorReport(t) ==
    /\ At(t, "Error") /\ global = None
    /\ \/ call[t].fn # "stream" /\ SetConnectionStructuredError(call[t])
       \/ call[t].fn \in {"params", "stream"} /\ SetConnectionError(call[t])
    /\ Fail(t)
    /\ Unlock(t)
    /\ UNCHANGED <<tables, pending, cached, global, requests, owed>>
-----------------------------------------------------------------------------
(* Calls that hold the global mutex while they wait and run.  A call that  *)
(* goes on keeps the mutex; the others are over.                           *)

InvalidId(t) ==
    /\ call[t].id \notin DOMAIN live
    /\ SetConnectionError(call[t]) /\ Fail(t)
    /\ UNCHANGED <<pending, global>>

GoOn(t) ==
    /\ call[t].id \in DOMAIN live
    /\ \E where \in Reached(call[t].id) :
          /\ global' = IF where = "Refused" THEN global ELSE t
          /\ call' = [call EXCEPT ![t].at = where, ![t].session = live[call[t].id]]
    /\ UNCHANGED <<pending, connErr, outcome>>

\* A result kept for a retry is looked for before the connection is.
EnterHolding(t, fn) ==
    /\ Entering(t, fn)
    /\ \/ Hit(t) /\ TryWritePending(t) /\ UNCHANGED global
       \/ ~Hit(t) /\ (GoOn(t) \/ InvalidId(t))
    /\ UNCHANGED <<tables, cached, mutex, requests, owed>>

ExecQueryMulti(t) == EnterHolding(t, "multi")

\* Its parameters are read first, and may be refused, at once if at all.
ExecQueryMultiParams(t) ==
    \/ EnterHolding(t, "mparams")
    \/ /\ Entering(t, "mparams") /\ call[t].buf = 1
       /\ SetConnectionError(call[t]) /\ Fail(t)
       /\ UNCHANGED <<tables, pending, cached, global, mutex, requests, owed>>

\* odbc_execute; the statement may be gone.
Execute(t) ==
    \/ EnterHolding(t, "execute") /\ call[t].stmt \in DOMAIN statements
    \/ /\ Entering(t, "execute") /\ call[t].stmt \notin DOMAIN statements
       /\ outcome' = [outcome EXCEPT ![t] = Idle]
       /\ call' = [call EXCEPT ![t] = Idle]
       /\ UNCHANGED <<tables, connErr, pending, cached, global, mutex, requests, owed>>

\* Mutant: the connection is let go with the report.
HeldRunKeeping(t, size) ==
    /\ At(t, "Run") /\ call[t].fn \in {"multi", "mparams", "execute"}
    /\ Executed(t)
    /\ global' = None
    /\ \/ Answer(t, Result(t, size)) /\ Unlock(t)
       \/ /\ call' = [call EXCEPT ![t].at = "Error"]
          /\ UNCHANGED <<pending, connErr, outcome, mutex>>
    /\ UNCHANGED <<tables, cached, requests>>

\* These three let the connection go when the statement has run.  An error lets
\* the global mutex go too, and takes it again for the report.
HeldRun(t, size) ==
    /\ At(t, "Run") /\ call[t].fn \in {"multi", "mparams", "execute"}
    /\ Executed(t)
    /\ Unlock(t) /\ global' = None
    /\ \/ Answer(t, Result(t, size))
       \/ /\ call' = [call EXCEPT ![t].at = "Error"]
          /\ UNCHANGED <<pending, connErr, outcome>>
    /\ UNCHANGED <<tables, cached, requests>>

-----------------------------------------------------------------------------
(* Calls that keep the connection until they return, and so wait for the   *)
(* global mutex with it when they have something to report.                *)

\* They take plain connections only.
EnterKeeping(t, fn) ==
    /\ Entering(t, fn)
    /\ \/ call[t].id \in PlainIds /\ GoOn(t)
       \/ /\ call[t].id \notin DOMAIN live \cap PlainIds
          /\ SetConnectionError(call[t]) /\ Fail(t)
          /\ UNCHANGED <<pending, global>>
    /\ UNCHANGED <<tables, cached, mutex, requests, owed>>

ExecQueryParams(t) == EnterKeeping(t, "params")

\* Here the connection is looked for before a result that was kept is.
ParamsRun(t, size) ==
    /\ At(t, "Run") /\ call[t].fn = "params"
    /\ global' = None
    /\ \/ Hit(t) /\ TryWritePending(t) /\ Unlock(t) /\ UNCHANGED owed
       \/ ~Hit(t) /\ Executed(t) /\ Answer(t, Result(t, size)) /\ Unlock(t)
       \/ /\ ~Hit(t) /\ Executed(t)
          /\ call' = [call EXCEPT ![t].at = "Error"]
          /\ UNCHANGED <<pending, connErr, outcome, mutex>>
    /\ UNCHANGED <<tables, cached, requests>>

CatalogTables(t) == EnterKeeping(t, "catalog")
CatalogTypeInfo(t) == EnterKeeping(t, "catalog")
CatalogPrimaryKeys(t) == EnterKeeping(t, "catalog")
CatalogForeignKeys(t) == EnterKeeping(t, "catalog")
CatalogIndexes(t) == EnterKeeping(t, "catalog")

\* odbc_catalog_columns looks into the metadata cache first.
CatalogColumns(t) ==
    \/ EnterKeeping(t, "columns") /\ call[t].id \notin DOMAIN live \cap DOMAIN cached
    \/ /\ Entering(t, "columns")
       /\ call[t].id \in DOMAIN live \cap DOMAIN cached
       /\ IF cached[call[t].id].size <= call[t].buf
          THEN Deliver(t, cached[call[t].id])
          ELSE call' = [call EXCEPT ![t].at = "Small"] /\ UNCHANGED outcome
       /\ UNCHANGED <<tables, pending, cached, connErr, global, mutex,
                      requests, owed>>

\* The rows of the catalog, kept by odbc_catalog_columns whether they fit or not.
CatalogRun(t, size) ==
    /\ At(t, "Run") /\ call[t].fn \in {"catalog", "columns"}
    /\ global' = None
    /\ \/ /\ cached' = IF call[t].fn = "columns"
                       THEN Put(cached, call[t].id, Result(t, size)) ELSE cached
          /\ IF size <= call[t].buf
             THEN Deliver(t, Result(t, size)) /\ Unlock(t)
             ELSE call' = [call EXCEPT ![t].at = "Small"] /\ UNCHANGED <<outcome, mutex>>
       \/ /\ call' = [call EXCEPT ![t].at = "Error"]
          /\ UNCHANGED <<cached, outcome, mutex>>
    /\ UNCHANGED <<tables, pending, connErr, requests, owed>>

\* Catalog rows that do not fit are reported under the global mutex, and dropped.
SmallReport(t) ==
    /\ At(t, "Small") /\ global = None
    /\ SetConnectionError(call[t]) /\ TooSmall(t)
    /\ Unlock(t)
    /\ UNCHANGED <<tables, pending, cached, global, requests, owed>>

StreamStart(t) == EnterKeeping(t, "stream")

\* The whole result is read into the stream ...
StreamRun(t) ==
    /\ At(t, "Run") /\ call[t].fn = "stream"
    /\ global' = None
    /\ \E where \in {"Install", "Error"} : call' = [call EXCEPT ![t].at = where]
    /\ UNCHANGED <<tables, pending, cached, connErr, mutex, outcome, requests, owed>>

\* ... which gets its id under the global mutex again, if one is found.
StreamInstall(t) ==
    /\ At(t, "Install") /\ global = None
    /\ \/ streams' = streams \cup {call[t].id} /\ Deliver(t, None) /\ UNCHANGED connErr
       \/ SetConnectionError(call[t]) /\ Fail(t) /\ UNCHANGED streams
    /\ Unlock(t)
    /\ UNCHANGED <<live, holder, shared, sessions, statements, prepared, pending, cached,
                   global, requests, owed>>
-----------------------------------------------------------------------------
(* Calls that are one critical section.  Those that fail and say so in the *)
(* process-wide error slot only have no action.                            *)

\* A thread between two requests may call; its last request is then history.
Calling(t) ==
    /\ At(t, "Idle") /\ global = None
    /\ outcome' = [outcome EXCEPT ![t] = Idle]
    /\ UNCHANGED <<global, mutex, call, requests, owed>>

Uses(t, i) == holder[i] = t \/ (i \in shared /\ holder[i] # None)

\* An id that is not in use, and a new session behind it.
create_connection(t, i) ==
    /\ sessions < MaxSessions /\ holder[i] = None
    /\ live' = Put(live, i, sessions + 1)
    /\ holder' = [holder EXCEPT ![i] = t]
    /\ sessions' = sessions + 1

remove_connection(i) ==
    /\ i \in DOMAIN live
    /\ live' = Drop(live, {i})

\* odbc_connect and odbc_connect_with_timeout.  One that fails leaves no trace.
Connect(t, i) ==
    /\ Calling(t)
    /\ create_connection(t, i)
    /\ UNCHANGED <<shared, statements, prepared, streams, pending, cached, connErr>>

\* The opener lets other threads use the connection.
Share(t, i) ==
    /\ At(t, "Idle") /\ holder[i] = t /\ i \notin shared
    /\ shared' = shared \cup {i}
    /\ UNCHANGED <<live, holder, sessions, statements, prepared, streams, pending, cached,
                   connErr, global, mutex, call, outcome, requests, owed>>

StatementsOf(i) == {s \in DOMAIN statements : statements[s].id = i}

\* The results kept for a retry of a connection and of its statements.
PendingOf(i) ==
    {k \in DOMAIN pending : IF k.kind = "execute" THEN k.id \in StatementsOf(i) ELSE k.id = i}

\* odbc_disconnect.  The connection is out of the tables even if the driver
\* manager does not let it go.
Disconnect(t, i) ==
    /\ Calling(t) /\ Uses(t, i)
    /\ \/ /\ remove_connection(i)
          /\ statements' = Drop(statements, StatementsOf(i))
          /\ streams' = streams \ {i}
          /\ pending' = Drop(pending, PendingOf(i))
          /\ connErr' = [connErr EXCEPT ![i] = None] \/ SetConnectionError([id |-> i, req |-> 0])
       \/ /\ i \notin DOMAIN live
          /\ SetConnectionError([id |-> i, req |-> 0])
          /\ UNCHANGED <<live, statements, streams, pending>>
    /\ UNCHANGED <<holder, shared, sessions, prepared, cached>>

\* odbc_pool_get_connection, as far as the ids go; Pool has the rest.
PoolGet(t, i) ==
    /\ Calling(t)
    /\ sessions < MaxSessions /\ holder[i] = None
    /\ live' = Put(live, i, sessions + 1)
    /\ holder' = [holder EXCEPT ![i] = t]
    /\ sessions' = sessions + 1
    /\ UNCHANGED <<shared, statements, prepared, streams, pending, cached, connErr>>

\* odbc_pool_release_connection: the results kept for a retry stay.
PoolRelease(t, i) ==
    /\ Calling(t) /\ Uses(t, i)
    /\ i \in DOMAIN live
    /\ live' = Drop(live, {i})
    /\ holder' = [holder EXCEPT ![i] = None]
    /\ statements' = Drop(statements, StatementsOf(i))
    /\ UNCHANGED <<shared, sessions, prepared, streams, pending, cached, connErr>>

\* odbc_prepare keeps the text; the driver sees it when it is executed.  MaxStmts
\* is far below the number of ids, so one is found for it.
Prepare(t, i, sql) ==
    /\ Calling(t) /\ Uses(t, i) /\ prepared < MaxStmts
    /\ \/ /\ i \in DOMAIN live
          /\ prepared' = prepared + 1
          /\ statements' = Put(statements, prepared + 1, [id |-> i, sql |-> sql])
          /\ UNCHANGED connErr
       \/ /\ i \notin DOMAIN live
          /\ SetConnectionError([id |-> i, req |-> 0])
          /\ UNCHANGED <<prepared, statements>>
    /\ UNCHANGED <<live, holder, shared, sessions, streams, pending, cached>>

\* odbc_close_statement.
CloseStatement(t, s) ==
    /\ Calling(t)
    /\ s \in DOMAIN statements
    /\ statements' = Drop(statements, {s})
    /\ pending' = Drop(pending, {k \in DOMAIN pending : k.kind = "execute" /\ k.id = s})
    /\ UNCHANGED <<live, holder, shared, sessions, prepared, streams, cached, connErr>>

\* odbc_clear_all_statements.
ClearAllStatements(t) ==
    /\ Calling(t)
    /\ statements' = <<>>
    /\ pending' = Drop(pending, {k \in DOMAIN pending : k.kind = "execute"})
    /\ UNCHANGED <<live, holder, shared, sessions, prepared, streams, cached, connErr>>

\* odbc_metadata_cache_clear; odbc_metadata_cache_enable puts an empty cache in
\* the place of the old one.
MetadataCacheClear(t) ==
    /\ Calling(t)
    /\ cached' = <<>>
    /\ UNCHANGED <<tables, pending, connErr>>

MetadataCacheEnable(t) ==
    /\ Calling(t)
    /\ cached' = <<>>
    /\ UNCHANGED <<tables, pending, connErr>>
-----------------------------------------------------------------------------
(* Requests.                                                               *)

\* callWithBuffer: the first call has a buffer of size 1.
Begin(t, fn, i, sql, stmt, limit) ==
    /\ At(t, "Idle") /\ requests < MaxRequests
    /\ Uses(t, i)
    /\ i \in shared => fn \in SharedFns
    /\ LET c == [at |-> "Enter", fn |-> fn, id |-> i, sql |-> sql, stmt |-> stmt, buf |-> 1,
                 limit |-> limit, req |-> requests + 1, res |-> None,
                 session |-> IF i \in DOMAIN live THEN live[i] ELSE 0]
       IN /\ call' = [call EXCEPT ![t] = c]
          /\ owed' = IF Key(c) \in Keys THEN [owed EXCEPT ![Key(c)] = @ + 1] ELSE owed
    /\ requests' = requests + 1
    /\ outcome' = [outcome EXCEPT ![t] = Idle]
    /\ UNCHANGED <<tables, pending, cached, connErr, global, mutex>>

Request(t, limit) ==
    \/ \E i \in Ids, sql \in Singles, fn \in {"query", "params"} :
          Begin(t, fn, i, sql, None, limit)
    \/ \E i \in Ids, sql \in Batches, fn \in {"multi", "mparams"} :
          Begin(t, fn, i, sql, None, limit)
    \/ \E s \in DOMAIN statements :
          Begin(t, "execute", statements[s].id, statements[s].sql, s, limit)
    \/ \E i \in Ids, fn \in {"catalog", "columns", "stream"} :
          Begin(t, fn, i, None, None, limit)

\* PENDING_RESULT_TTL passes.
Expire(k) ==
    /\ pending' = [pending EXCEPT ![k].fresh = FALSE]
    /\ UNCHANGED <<tables, cached, connErr, global, mutex, call, outcome,
                   requests, owed>>

\* The metadata cache loses an entry to its TTL, or to another one.
CacheExpire(i) ==
    /\ cached' = Drop(cached, {i})
    /\ UNCHANGED <<tables, pending, connErr, global, mutex, call, outcome,
                   requests, owed>>

Enter(t) ==
    \/ ExecQuery(t) \/ ExecQueryParams(t) \/ ExecQueryMulti(t) \/ ExecQueryMultiParams(t)
    \/ Execute(t) \/ CatalogTables(t) \/ CatalogColumns(t) \/ CatalogTypeInfo(t)
    \/ CatalogPrimaryKeys(t) \/ CatalogForeignKeys(t) \/ CatalogIndexes(t) \/ StreamStart(t)

Run(t) ==
    \/ \E n \in Sizes : QueryRun(t, n) \/ HeldRun(t, n) \/ ParamsRun(t, n) \/ CatalogRun(t, n)
    \/ StreamRun(t)

Finish(t) ==
    \/ QueryPutBack(t) \/ QueryReport(t) \/ ErrorReport(t) \/ SmallReport(t) \/ StreamInstall(t)
    \/ RefusedReport(t)

Other(t) ==
    \/ \E i \in PlainIds : Connect(t, i) \/ Disconnect(t, i)
    \/ \E i \in Shareable : Share(t, i)
    \/ \E i \in PooledIds : PoolGet(t, i) \/ PoolRelease(t, i)
    \/ \E i \in Ids, sql \in Singles : Prepare(t, i, sql)
    \/ \E s \in DOMAIN statements : CloseStatement(t, s)
    \/ ClearAllStatements(t) \/ MetadataCacheClear(t) \/ MetadataCacheEnable(t)

Next ==
    \/ \E t \in Threads :
          \/ \E limit \in Limits : Request(t, limit)
          \/ Enter(t) \/ LockConnection(t) \/ Run(t) \/ Finish(t) \/ Other(t)
    \/ \E k \in DOMAIN pending : Expire(k)
    \/ \E i \in DOMAIN cached : CacheExpire(i)

Spec == Init /\ [][Next]_vars
-----------------------------------------------------------------------------
(* Properties.                                                             *)

Succeeded(t) == outcome[t].at = "Ok" /\ outcome[t].call.fn # "stream"

\* A request gets what it asked for: rows or a batch as the function called
\* promises, from the session it used; and from its own execution, if the
\* connection is its thread's alone.  Rows that an earlier request ended without
\* (it gave up, or its retry failed) are the exception: an equal request gets
\* them, and as odbc_pool_release_connection keeps them, the next borrower may.
OwnResult ==
    \A t \in Threads : Succeeded(t) =>
        LET c == outcome[t].call d == outcome[t].data IN
        /\ d.fmt = Format(c.fn)
        /\ (c.id \in shared => c.session # 0) /\ (c.id \in PooledIds => ~d.left) =>
              d.session = c.session
        /\ c.id \notin shared /\ c.fn # "columns" /\ ~d.left => d.req = c.req

\* odbc_exec_query_multi_params: "Same wire format as odbc_exec_query_multi".
WireFormat ==
    \A t \in Threads :
        Succeeded(t) /\ outcome[t].call.fn = "mparams" => outcome[t].data.fmt = "multi"

\* However often a call is repeated for a larger buffer, a statement is executed
\* no more often than it was asked for; odbc_exec_query promises that only where
\* one thread at a time uses the connection.
NotReexecuted ==
    \A k \in Keys :
        (k.kind = "query" => k.id \notin shared) => owed[k] >= 0

\* A thread that waits for a connection with the global mutex in hand will get
\* it: who has the connection is not itself waiting for the global mutex.
NoCircularWait ==
    \A t \in Threads :
        global = t /\ At(t, "Lock") /\ mutex[call[t].id] # None
            => At(mutex[call[t].id], "Run")

GetStructuredErrorForConnection(i) ==
    IF connErr[i] # None /\ connErr[i].structured THEN connErr[i].req ELSE None

\* After a failed call the error slot of its connection tells of that failure,
\* whatever other threads do on other connections meanwhile.  A connection that
\* odbc_exec_query or odbc_stream_start could not reach is the exception: its
\* slot goes on telling what it told, which is never of another connection.
ErrorsAreIsolated ==
    \A t \in Threads : outcome[t].at # "Idle" =>
        LET c == outcome[t].call IN c.id \notin shared =>
            /\ outcome[t].at = "Failed" =>
                  /\ connErr[c.id].req = c.req
                  /\ GetStructuredErrorForConnection(c.id) \in {None, c.req}
            /\ outcome[t].at = "Unnoted" => connErr[c.id] = outcome[t].slot
=============================================================================
