-------------------------------- MODULE Bulk --------------------------------
(* Bulk inserts: odbc_bulk_insert_array on one connection, maybe inside the  *)
(* caller's transaction; odbc_bulk_insert_parallel over a pool, one rayon    *)
(* task per range of rows; and ParallelBulkInsert with its two modes.  A     *)
(* task gets a pooled connection, may try SQL Server's bulk copy first, then *)
(* executes one INSERT per parameter set; its connection goes back to the    *)
(* pool when it ends.                                                        *)
EXTENDS BulkPayload, FiniteSets, Bags

CONSTANTS
    Tables,         \* the column lists a client inserts into, an i32 key first
    RowCounts, NullSets, Parallelisms,   \* sizes, rows that are null, workers asked for
    ParamSet,       \* rows per execute (paramset_size, batch_size)
    PoolSize,
    NativeModes,    \* whether native bulk copy is enabled at run time
    NativeInTxn,    \* whether it may be while the connection has a transaction
    Faults,         \* what may go wrong: "checkout", "begin", "execute",
                    \* "native", "commit", "rollback"
    None

VARIABLES
    phase,      \* "start", "running", "reported", "committed" or "rolledback"
    job,        \* the call
    payload,    \* what the engine parsed of it
    tasks,      \* the ranges of rows and how far each has come
    idle,       \* connections the pool can give out
    table,      \* the rows other connections see, with their copies
    stray,      \* history: the rows left by native copies that failed at the end
    report      \* what the call returned

vars == <<phase, job, payload, tasks, idle, table, stray, report>>

KeyOnly == <<[kind |-> "i32", nullable |-> FALSE, maxLen |-> 0]>>

\* The longest cell addRow takes: it looks at the length of text only, and only
\* where the column has one.
Longest(spec) == CellWidth(spec) + (IF spec.kind = "text" /\ spec.maxLen > 0 THEN 0 ELSE 1)

\* The client's rows: the key counts from 1; the rows in nulls are null in
\* every nullable column; the lengths of cells go round.
ClientRow(specs, nulls, r) ==
    [c \in 1 .. Len(specs) |->
        IF specs[c].nullable /\ r \in nulls
        THEN Null
        ELSE IF specs[c].kind \in Words
             THEN r + 1
             ELSE [i \in 1 .. (r % (Longest(specs[c]) + 1)) |-> r + 1]]

ClientRows(specs, nulls, n) == [i \in 1 .. n |-> ClientRow(specs, nulls, i - 1)]

Pooled(j) == j.api # "array"
Transactional(j) == j.api = "transactional"

InTxnIgnoringCaller(j) == Transactional(j)

\* Rows go to the table at once unless their connection has a transaction.
InTxn(j) == Transactional(j) \/ j.txn

Task(range) == [start |-> range.start, end |-> range.end, at |-> "queued",
                done |-> 0, open |-> EmptyBag, chunk |-> None]

Init ==
    /\ phase = "start"
    /\ job = None
    /\ payload = None
    /\ tasks = <<>>
    /\ idle = PoolSize
    /\ table = EmptyBag
    /\ stray = EmptyBag
    /\ report = None

Started(j, parsed, ranges) ==
    /\ phase' = "running"
    /\ job' = j
    /\ payload' = parsed
    /\ tasks' = [k \in DOMAIN ranges |-> Task(ranges[k])]
    /\ UNCHANGED <<idle, table, stray, report>>

Parsed(j) == ParsePayload(SerializePayload(j.specs, ClientRows(j.specs, j.nulls, j.n)))

\* A payload that cannot be read is refused before anything is locked.
Refused(j) ==
    /\ j.api \in {"array", "parallel"}
    /\ Parsed(j) = Malformed
    /\ phase' = "reported"
    /\ job' = j
    /\ report' = [ok |-> FALSE, total |-> 0, failed |-> 0]
    /\ UNCHANGED <<payload, tasks, idle, table, stray>>

\* The one connection is at hand: its task starts at the insert.
BulkInsertArray(j) ==
    /\ j.api = "array"
    /\ Parsed(j) # Malformed
    /\ Started(j, Parsed(j), <<[start |-> 0, end |-> j.n]>>)

BulkInsertParallel(j) ==
    /\ j.api = "parallel"
    /\ Parsed(j) # Malformed
    /\ Started(j, Parsed(j), RowChunkRanges(j.n, j.par))

\* Rust callers hand over columns of i32, not a payload.
InsertI32Parallel(j) ==
    /\ j.api \in {"independent", "transactional"}
    /\ Started(j, [specs |-> KeyOnly, rowCount |-> j.n,
                   columns |-> <<[bitmap |-> <<>>, cells |-> [i \in 1 .. j.n |-> i]]>>],
               ChunkRanges(j.n, j.par))

-----------------------------------------------------------------------------
(* A task.                                                                 *)

\* Every task of odbc_bulk_insert_parallel and of ParallelBulkInsert works on
\* a copy of its rows.
Chunk(k) ==
    IF Pooled(job) THEN SlicePayloadRows(payload, tasks[k].start, tasks[k].end) ELSE payload

\* r2d2 asks has_broken of a connection that comes back, and that turns
\* autocommit on: whatever is still open is committed.
GiveBack(k, t, rows) ==
    /\ tasks' = [tasks EXCEPT ![k] = [t EXCEPT !.chunk = None,
                                                !.open = IF Pooled(job) THEN EmptyBag ELSE @]]
    /\ idle' = IF Pooled(job) THEN idle + 1 ELSE idle
    /\ table' = IF Pooled(job) THEN table (+) rows (+) t.open ELSE table (+) rows

FirstStep(j) ==
    IF j.native THEN "native" ELSE IF Transactional(j) THEN "begin" ELSE "insert"

\* pool.get() waits for a connection.
Get(k) ==
    /\ tasks[k].at = "queued"
    /\ Pooled(job) => idle > 0
    /\ tasks' = [tasks EXCEPT ![k].at = FirstStep(job), ![k].chunk = Chunk(k)]
    /\ idle' = IF Pooled(job) THEN idle - 1 ELSE idle
    /\ UNCHANGED table

\* It gives up when none came back in time or a new one cannot be opened.
GetFails(k) ==
    /\ tasks[k].at = "queued"
    /\ Pooled(job)
    /\ idle = 0 \/ "checkout" \in Faults
    /\ tasks' = [tasks EXCEPT ![k].at = "failed"]
    /\ UNCHANGED <<idle, table>>

\* set_autocommit(false) of PerChunkTransactional.
Begin(k) ==
    /\ tasks[k].at = "begin"
    /\ \/ /\ tasks' = [tasks EXCEPT ![k].at = "insert"]
          /\ UNCHANGED <<idle, table>>
       \/ /\ "begin" \in Faults
          /\ GiveBack(k, [tasks[k] EXCEPT !.at = "failed"], EmptyBag)

\* The native copy binds one cell per column and sets its length for every
\* row; the server keeps a length until the next call sets it.
WriteRow(column, row) == IF IsNull(column.bitmap, row) THEN 0 ELSE column.cells[row + 1]
RowCollen(column, row) == IF IsNull(column.bitmap, row) THEN -1 ELSE 1

BcpRows(p) ==
    [i \in 1 .. p.rowCount |->
        [c \in 1 .. Len(p.specs) |->
            IF RowCollen(p.columns[c], i - 1) = -1 THEN Null ELSE WriteRow(p.columns[c], i - 1)]]

\* Only i32 and i64 columns can be bound.
BuildBoundColumns(p) == \A c \in 1 .. Len(p.specs) : p.specs[c].kind \in {"i32", "i64"}

\* The copy has a connection of its own and commits with bcp_done.
NativeCopy(k) ==
    /\ tasks[k].at = "native"
    /\ BuildBoundColumns(payload)
    /\ GiveBack(k, [tasks[k] EXCEPT !.at = "ok", !.done = tasks[k].end - tasks[k].start],
                ToBag(BcpRows(tasks[k].chunk)))

\* What does not reach bcp_done leaves nothing; the array insert starts over.
\* Columns that cannot be bound and an empty payload end here as well.  So does a
\* bcp_done that fails with all rows sent: the server may have committed them.
NativeFallback(k) ==
    /\ tasks[k].at = "native"
    /\ "native" \in Faults \/ ~BuildBoundColumns(payload)
    /\ \E left \in {EmptyBag} \cup
                   (IF BuildBoundColumns(payload) THEN {ToBag(BcpRows(tasks[k].chunk))} ELSE {}) :
          table' = table (+) left /\ stray' = stray (+) left
    /\ tasks' = [tasks EXCEPT ![k].at = "insert"]
    /\ UNCHANGED idle

\* should_fallback_to_array_binding: what validate_payload refuses is not tried
\* again.
NativeRefused(k) ==
    /\ tasks[k].at = "native"
    /\ "native" \in Faults
    /\ GiveBack(k, [tasks[k] EXCEPT !.at = "failed"], EmptyBag)

\* One execute of the array insert: the next parameter set.
BatchEnd(t) ==
    LET len == t.end - t.start
    IN  Least(t.done + Least(ParamSet, len), len)

BatchRows(k) ==
    LET t == tasks[k] IN BufferRows(t.chunk, t.done, BatchEnd(t) - t.done)

Landed(k, at, done, rows) ==
    LET t == tasks[k]
    IN  IF InTxn(job)
        THEN [t EXCEPT !.at = at, !.done = done, !.open = @ (+) ToBag(rows)]
        ELSE [t EXCEPT !.at = at, !.done = done]

Visible(rows) == IF InTxn(job) THEN EmptyBag ELSE ToBag(rows)

\* A task whose rows are all in ends, or commits.
Execute(k) ==
    /\ tasks[k].at = "insert"
    /\ LET end == BatchEnd(tasks[k])
           last == end = tasks[k].end - tasks[k].start
           at == IF ~last THEN "insert" ELSE IF Transactional(job) THEN "commit" ELSE "ok"
       IN  IF at = "ok"
           THEN GiveBack(k, Landed(k, at, end, BatchRows(k)), Visible(BatchRows(k)))
           ELSE /\ tasks' = [tasks EXCEPT ![k] = Landed(k, at, end, BatchRows(k))]
                /\ table' = table (+) Visible(BatchRows(k))
                /\ UNCHANGED idle

\* A failing execute may have put in some of its rows.
ExecuteFails(k) ==
    /\ tasks[k].at = "insert"
    /\ "execute" \in Faults
    /\ BatchEnd(tasks[k]) > tasks[k].done
    /\ \E some \in 0 .. BatchEnd(tasks[k]) - tasks[k].done - 1 :
          LET rows == SubSeq(BatchRows(k), 1, some)
          IN  IF Transactional(job)
              THEN /\ tasks' = [tasks EXCEPT ![k] = Landed(k, "rollback", tasks[k].done, rows)]
                   /\ UNCHANGED <<idle, table>>
              ELSE GiveBack(k, Landed(k, "failed", tasks[k].done, rows), Visible(rows))

\* A failed commit is an error of the task: the server may have dropped the
\* rows or may hold them still.
Commit(k) ==
    /\ tasks[k].at = "commit"
    /\ \/ GiveBack(k, [tasks[k] EXCEPT !.at = "ok"], EmptyBag)
       \/ /\ "commit" \in Faults
          /\ \E kept \in {EmptyBag, tasks[k].open} :
                GiveBack(k, [tasks[k] EXCEPT !.at = "failed", !.open = kept], EmptyBag)

RollbackSkipped(k) ==
    /\ tasks[k].at = "rollback"
    /\ GiveBack(k, [tasks[k] EXCEPT !.at = "failed"], EmptyBag)

\* A failed rollback is logged; autocommit is turned on either way.
Rollback(k) ==
    /\ tasks[k].at = "rollback"
    /\ \E kept \in {EmptyBag} \cup (IF "rollback" \in Faults THEN {tasks[k].open} ELSE {}) :
          GiveBack(k, [tasks[k] EXCEPT !.at = "failed", !.open = kept], EmptyBag)

-----------------------------------------------------------------------------
(* The result.                                                             *)

Ended == \A k \in DOMAIN tasks : tasks[k].at \in {"ok", "failed"}
Sum(S, f) == FoldFunctionOnSet(LAMBDA x, y : x + y, 0, f, S)
OkTasks == {k \in DOMAIN tasks : tasks[k].at = "ok"}

\* collect_partial_failure and its like in odbc_bulk_insert_parallel: the rows
\* of the tasks that succeeded are counted.
Collect ==
    /\ phase = "running"
    /\ Ended
    /\ phase' = "reported"
    /\ report' = [ok |-> OkTasks = DOMAIN tasks,
                  total |-> Sum(OkTasks, [k \in OkTasks |-> tasks[k].done]),
                  failed |-> Cardinality(DOMAIN tasks \ OkTasks)]
    /\ UNCHANGED <<job, payload, tasks, idle, table, stray>>

\* The caller ends the transaction it inserted in.
EndTransaction(commit) ==
    /\ phase = "reported"
    /\ job.txn
    /\ tasks # <<>>
    /\ phase' = IF commit THEN "committed" ELSE "rolledback"
    /\ tasks' = [tasks EXCEPT ![1].open = EmptyBag]
    /\ table' = IF commit THEN table (+) tasks[1].open ELSE table
    /\ UNCHANGED <<job, payload, idle, stray, report>>

Jobs ==
    [api : {"array"}, specs : Tables, n : RowCounts, nulls : NullSets,
     par : {1}, native : NativeModes, txn : {FALSE}]
    \cup [api : {"array"}, specs : Tables, n : RowCounts, nulls : NullSets,
          par : {1}, native : NativeModes \cap {FALSE, NativeInTxn}, txn : {TRUE}]
    \cup [api : {"parallel"}, specs : Tables, n : RowCounts, nulls : NullSets,
          par : Parallelisms, native : NativeModes, txn : {FALSE}]
    \cup [api : {"independent", "transactional"}, specs : {KeyOnly}, n : RowCounts, nulls : {{}},
          par : Parallelisms, native : {FALSE}, txn : {FALSE}]

TaskStep(k) ==
    /\ phase = "running"
    /\ \/ NativeFallback(k)
       \/ /\ \/ Get(k) \/ GetFails(k) \/ Begin(k) \/ NativeCopy(k) \/ NativeRefused(k)
             \/ Execute(k) \/ ExecuteFails(k) \/ Commit(k) \/ Rollback(k)
          /\ UNCHANGED stray
    /\ UNCHANGED <<phase, job, payload, report>>

Next ==
    \/ /\ phase = "start"
       /\ \E j \in Jobs : BulkInsertArray(j) \/ BulkInsertParallel(j) \/ InsertI32Parallel(j)
                          \/ Refused(j)
    \/ \E k \in DOMAIN tasks : TaskStep(k)
    \/ Collect
    \/ \E commit \in BOOLEAN : EndTransaction(commit)

Spec == Init /\ [][Next]_vars
-----------------------------------------------------------------------------
(* Properties.                                                             *)

\* A row as its columns hold it: cells that are too long are cut.
Held(specs, row) ==
    [c \in DOMAIN row |->
        IF specs[c].kind \in Words \/ row[c] = Null THEN row[c]
        ELSE SubSeq(row[c], 1, Least(Len(row[c]), CellWidth(specs[c])))]

Asked == ClientRows(job.specs, job.nulls, job.n)
AllRows == ToBag([i \in 1 .. job.n |-> Held(job.specs, Asked[i])])
Inserted == IF tasks = <<>> THEN table ELSE IF job.txn THEN table (+) tasks[1].open ELSE table

\* The table holds rows of the client's and nothing else, none of them twice:
\* not when a payload is cut into ranges that share bitmap bytes, not when a task
\* fails between two parameter sets, and not when the array insert starts over
\* after a native copy, unless that failed at bcp_done and was committed.
OnlyPayloadRows == job # None => Inserted \sqsubseteq AllRows (+) stray

\* A call that returns 0 has every row in the table and says how many; the
\* count in an error is never more than what went in.  What a failed native
\* copy left is in neither.
ReportIsTrue ==
    phase = "reported" =>
        IF report.ok
        THEN Inserted = AllRows (+) stray /\ report.total = job.n
        ELSE report.total + BagCardinality(stray) <= BagCardinality(Inserted)

\* BulkColumnSpec.maxLen, "0 = unlimited": the cells of such a column arrive whole.
CellsAreWhole ==
    phase = "reported" /\ report.ok =>
        \A row \in BagToSet(ToBag(Asked)) :
            (\A c \in DOMAIN row : job.specs[c].maxLen = 0) => row \in BagToSet(Inserted)

\* A range that PerChunkTransactional reports as failed left none of its rows
\* in the table ("On failure, that chunk is rolled back"); rows that
\* odbc_bulk_insert_array put in during a transaction are gone when it is rolled
\* back.
FailedWorkIsUndone ==
    /\ phase = "reported" /\ Transactional(job) =>
          \A k \in DOMAIN tasks : tasks[k].at = "failed" =>
              \A row \in BagToSet(table) : row[1] \notin tasks[k].start + 1 .. tasks[k].end
    /\ phase = "rolledback" => table = EmptyBag
=============================================================================
