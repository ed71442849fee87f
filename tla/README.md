# A TLA+ verification of dart_odbc_fast

dart_odbc_fast is an ODBC client for Dart. A Rust engine
(`src/native/odbc_engine/`) owns the driver, the connections and every piece of
shared state and exports C functions; a Dart library (`src/lib/`) calls them
through FFI, directly or from a worker isolate, and builds transactions,
streams and reconnection on top. This directory holds TLA+ models of the parts
of both sides where the order of steps, a fault or an encoding decides whether
the answer is right, the TLC runs that check them on small instances, and
TLAPS proofs about seven of them for every instance.

## The system

All native state is one `GlobalState` behind one mutex (`ffi/mod.rs`): tables
from ids to connections, transactions, XA branches, statements, streams, pools,
pooled connections, asynchronous requests, results kept for a retry and errors.
Every connection has a mutex of its own. The parts call each other downwards
only (service, repository, native connection, FFI, engine) and meet in the
global tables, in the connections' mutexes and in the sessions at the server.

| part | modules | what is hard | correct means |
|---|---|---|---|
| asynchronous requests | `AsyncRequests`, `RequestTable`, `AsyncRequestsProofs` | a worker task against cancel, fetch, free and disconnect; ids wrap | one delivery, honoured cancels, no id taken over |
| `executeAsync` over the worker isolate | `AsyncClient`, `AsyncClientProofs` | answers later than their timers, timers of one call that race, a worker that dies or is disposed of | every caller is answered, with its own result, and frees its request |
| local transactions | `Transactions`, `AtomicTransactions`, `TransactionsProofs` | begin runs its SQL without the global mutex; a driver call fails between two others | atomic transactions, true reports, autocommit restored wherever the driver lets it |
| Dart transaction helpers | `TransactionHelpers`, `HelpersProofs` | every path of the action must end the transaction | success is durable, nothing is left in the table |
| settings and savepoints | `TransactionSession`, `NestedScopes` | seven servers' syntax and session rules; a scope leaves its savepoint behind | what was asked is in force; scopes nest |
| connection pools | `Pool`, `PoolProofs` | a running statement hides its checkout; ids and sessions are reused | one user per id, no pool overdrawn, no transaction handed on |
| XA branches | `XaBranches`, `XaInvariant`, `XaProofs` | refused statements, disconnects, crashes between phases | handles track branches, only what was asked is committed |
| Dart XA helpers | `XaHelpers`, `XaProofs` | the abort path | success is committed |
| XA recovery | `XaIdentifiers`, `XaRecovery` | names are spelt and read back per server; workers overlap, answers get lost | every branch finished as decided, nobody else's touched |
| SQL calls | `Calls`, `CallsProofs` | two mutexes, retries with larger buffers, results kept for two seconds, one error slot per connection | own result, executed once, own error, no circular wait |
| bulk insert | `BulkPayload`, `Bulk` | bitmaps cut into ranges, fallbacks after half a copy, ranges that fail | each row once, true counts |
| execution engine, wire protocol | `WireFormat`, `Execution` | two result formats, two parameter formats, envelopes and footers; late output parameters | the client decodes what the driver produced |
| result streams | `Streams` | the worker has the connection's mutex while it waits for its reader | chunks in order and complete, cancels heard, connections let go |
| stream contents, disk spill | `StreamContents` | the spill threshold, failing writes and removals, disconnects, frames cut anywhere | readers get their own result, no file is left |

`MC...` modules are instances for TLC.

## How the models follow the code

State variables keep the names of the fields they stand for (`requests`,
`pooled`, `pendingChunk` for `pending_stream_chunks`). A native call that keeps
the global mutex throughout is one action. A call that lets go of it is split
exactly there: `BeginCheck`, `BeginLookup`, `BeginSql`, `BeginInsert` in
`Transactions`; `FetchTake`, `FetchRun`, `FetchReturn` in `Streams`. `Calls`
has both mutexes as variables, since there the question is who waits for whom.

Data is abstracted to what the properties tell apart: the work of a transaction
is a set of writes, a stream is a sequence of numbered chunks, a branch is its
state. Where a property is about a conversion, the conversion is modelled by
what it does:

- `WireFormat` encodes and decodes buffers of units. A header field is one
  unit, a payload byte is one unit, and every length and offset of the code is
  kept. Payloads contain units that equal magic words.
- `BulkPayload` packs null bitmaps into bytes of eight bits and reads them back.
- `XaIdentifiers` spells an Xid as each server's statement does, derives the
  name the server keeps, and reads the server's list as recovery does. Lengths
  are scaled down.
- `TransactionSession` converts lock timeouts between microseconds, milliseconds
  and seconds with the code's rounding, and checks identifiers by the grammar of
  the code.

Three abstract specifications say what a component promises. `RequestTable` (a
table of queries whose outcomes appear, are cancelled, are taken and go, each in
one step) is implemented by `AsyncRequests` (`ImplementsTable`), and is the
native side of `AsyncClient`, which therefore need not repeat slots and tasks.
`AtomicTransactions` (work becomes durable as a whole, at the end of its
transaction, which comes once; what a failed end left behind is in doubt and may
become durable later, as a whole or not at all) is implemented by `Transactions`
(`ImplementsAtomic`), and `NestedScopes` (a failed scope undoes its own work and
no other) by `TransactionSession` with `withSavepoint` on top (`ScopesNest`).

Environments are sets, so that one run holds several. In `Transactions` the
connections in `Faulty` have a driver that may refuse a commit, a rollback or
the return to autocommit, and those in `Shared` are used by several callers at
once; in `Pool` the pools in `Quiet` are closed and resized only while nobody
uses them; in `Calls` a connection in `Shareable` may be used by several threads;
in `Streams` `Results` says what the statement of a stream may yield and the
workers in `Panics` may panic; in `Execution` the plugins in `Limiting` add a row
limit; `Faults`, `Refusals` and `RmFaults` name the steps that may fail. A
property that needs a discipline is stated for the members that keep it, and
its comment says so.

Definitions whose comment calls them a mutant are plausible bugs of a
definition below them, kept to show that the properties notice them.

## Runs

All runs end without a violation. `PROJECT.json` names the module and the cfg
of each.

| run | properties | what it shows |
|---|---|---|
| `async_requests` | `DeliveredAtMostOnce`, `HonouredCancelGivesNoData`, `RequestsHaveConnections`, `IdAvailableBelowCap`, `ImplementsTable` | a result is delivered once, a cancel the task has seen yields no data, requests follow connections, a free id is found below the cap; what callers see is the abstract table |
| `async_client` | `AnswersAreOwn`, `NothingLeftBehind`, `CallersAnswered` | `executeAsync` ends whatever becomes of its query and of the worker, answers are not mistaken for another call's, and a call that ends over a live worker has freed its native request |
| `transactions` | `TableFollowsConnections`, `HelpersTellTheTruth`, `ImplementsAtomic` | transactions are atomic and `runInTransaction` reports what happened, over a reliable, a faulty and a shared connection; without a transaction a connection is in autocommit, unless the driver refused to return to it |
| `session` | `SettingsInForce`, `ScopesNest` | two transactions in a row get the settings they asked for on seven servers; `withSavepoint` is a nested scope in every dialect |
| `pool` | `CheckoutsWithinSize`, `IdsServeOneUser`, `CleanCheckout` | a pooled id has one user; no statement reaches the next one, and no transaction but one whose rollback the session refused; a quiet pool is never overdrawn |
| `xa` | `HandlesTrackBranches`, `OnlyAskedCommits`, `XaSuccessIsCommitted`, `PreparedIsStable` | handles agree with the branches through refusals, disconnects and crashes; a helper's success means committed |
| `xa_recovery` | `ResolvedAsDecided`, `CommitAnswerIsTrue`, `InDoubtResolved` | two workers finish every prepared branch as the log says, and no other |
| `calls` | `OwnResult`, `NotReexecuted`, `NoCircularWait`, `ErrorsAreIsolated` | a request gets its own rows or those another one left behind, a retry does not execute again, no lock cycle arises, and a failure that is told to the connection is the one found there |
| `bulk` | `OnlyPayloadRows`, `ReportIsTrue`, `FailedWorkIsUndone` | no foreign row and none doubled but by a native copy that was committed and reported as failed; true counts; rolled-back work is gone |
| `execution` | `AnswerIsWhole`, `InputsArrive`, `TruncationDetected` | the client decodes what the driver produced, row limits included, the driver receives what the client sent, a cut buffer is refused |
| `streams` | `ChunksInOrder`, `DroppedStreamsLetGo`, `CancelIsHeard`, `DisconnectReturns` | chunks come in order, once and completely; after a cancel the worker reads at most the batch it has begun; a closed stream lets go of its connection; a disconnect returns unless it meets the one deadlock that `Wedged` describes |
| `stream_contents` | `ResultIsOwn`, `NoOrphanFiles`, `ItemsAsTheyArrive` | readers get their own result, complete at a clean end; spill files go with their streams, however these end, when the system lets them be removed; items reach the Dart reader as soon as they are whole |

**Bounds.** Each is the smallest at which the interference it is there for
happens. Three requests and ids modulo 3 with two slots: the counter wraps into
an id in use. One call at a time and one restart of the worker in
`async_client`: a call meets what the one before it left in the queues, the
timers and the native table (with both calls open at once its two invariants
hold as well, on sixteen million states, which is too long for a routine run).
Two transactions on any two of three connections (`TwoConnections` cuts off the
behaviours that use all three): a second begin meets a first, on a connection
that may be stuck in manual commit. Two begins and three scopes: a second
transaction meets the first one's settings, and a scope meets the savepoints of
a failed and of a successful one. Two pools of size one or two, two r2d2 pools
and three checkouts: a pool is resized and an id given out again (`OneRefusal`:
at most one rollback is refused; without that limit the invariants hold as well,
on two million states). Two branches, two connections and three handles: one
branch is recovered while another is live. Three prepared branches, two workers
and one fault: two branches of ours share a global id beside one of another
client, and a worker repeats what a lost answer hid. Two threads, two sessions,
two requests and results of one or two units: a retry meets another request's
result (`SharedAlone` cuts off a second connection beside a shared one; without
it the invariants hold as well, on one and a half million states). Nine rows: a
bitmap has a second byte and ranges start inside one. A row limit of one and
result sets of up to three rows: the limit cuts; output texts of two and three
units over a buffer of two, and integer cells at the ends of their type, one
beyond, and one without a digit. Two batches of two chunks on one stream, beside
one whose statement has no cursor: the worker gets ahead of channel and reader,
a batch is split, and the second worker waits for the connection. Results of
three and five bytes over a threshold of three: one meets it and is kept, one is
spilled; chunks of one unit cut a header, chunks of four a frame. More of the
same adds no new kind of interference, since the tables are indexed by id and
entries meet only through a shared connection, a shared counter or a mutex.
Threads, tickets, connections and xids that are not told apart are symmetric in
the runs without liveness; runs with liveness use no symmetry.

**Fairness.** Weak fairness only, of steps that something always schedules:

- `AsyncClient`: the event loop and the timers of the main isolate, and the
  queries that end. Nothing is assumed of the worker isolate, which may be slow
  or dead: the request timer (30 seconds unless the caller changes it, and not
  switched off) is what makes callers independent of it.
- `XaRecovery`: each worker's next step. A transaction manager keeps recovering
  as long as it is up; crashes are bounded by `MaxFaults`.
- `Streams`: each worker thread and the remaining steps of a call in progress.
  Nothing is assumed of the callers, who need not go on fetching.

**Deadlock** is checked in `xa_recovery` and `execution`. The other systems may
come to rest with every connection closed; calls that hang show up in the
liveness properties and in `NoCircularWait`.

## Assumptions about what is outside

- The driver: turning autocommit on commits open work, as ODBC says. A
  statement is a script of cursors and row counts; a deferring driver writes
  output parameters only when the last result has been passed.
- The servers: what each does with a setting sent in autocommit, with a
  savepoint of a name it already has and with a release, is written from the
  comments of `transaction.rs` and the dialect the code chooses.
- The resource managers: MySQL, MariaDB and DB2 alike; PostgreSQL without XA END
  and with a rollback when PREPARE TRANSACTION fails; Oracle detaching at XA_END,
  refusing a second one and completing read-only branches at the prepare; SQL
  Server through MSDTC. Statements inside a branch succeed, and an xid is used
  once. In `XaBranches` recovery resumes only branches that no handle is left
  of; nothing in the code enforces this.
- r2d2 gives out at most `max_size` connections and calls `on_acquire` for new
  ones. zstd returns what it was given. Temporary directories may be cleaned.
- Callers of a stream fetch a chunk that did not fit again before they poll.

Where a property is narrower than one would like, it is because the code does
not give more. The models have the behaviour, and the property names exactly what
it leaves out:

- `TableFollowsConnections`, `ImplementsAtomic`: when `set_autocommit(true)` is
  refused, commit and rollback log it and return, and the connection stays in
  manual commit (`stuck`). What is then executed outside a transaction is lost
  with a later rollback, and work of a transaction that was reported as failed may
  become durable with a later one; it is in doubt in the abstract specification,
  and becomes durable whole or not at all. Properties that `Exclusive` limits fail
  when two threads share a connection: two begins pass the check together, and a
  begin inserts its transaction after a disconnect.
- `SettingsInForce` leaves out the servers on which a setting sent before
  autocommit is off does not last (PostgreSQL's and Oracle's SET TRANSACTION).
- `CleanCheckout` exempts transactions whose rollback a living session refused
  (`refused`): the release ignores the answer and the session is used again.
  `CheckoutsWithinSize` is about the pools in `Quiet`.
- `HandlesTrackBranches` exempts connections on which `xa_start` failed
  (autocommit stays off). In the run of `OnlyAskedCommits` every rollback may be
  refused but PostgreSQL's plain ROLLBACK.
- `OwnResult` is about connections one thread uses at a time, and exempts rows that
  a request left behind (`left`): it gave up after being told that its buffer is
  too small, or its retry failed. For two seconds an equal request is given them.
  `odbc_pool_release_connection` keeps them, so that it may be one of the next
  borrower.
- `NotReexecuted` exempts `odbc_exec_query` on connections several threads use:
  its result is kept under connection and text, and whichever thread asks first
  has it, so that the other executes again.
- `NoCircularWait` holds while threads that share a connection keep to `SharedFns`.
- `ErrorsAreIsolated`: `odbc_exec_query` and `odbc_stream_start` tell of a
  connection they could not reach in the process-wide slot only. The slot of the
  connection then goes on telling of an older failure, or of none; the property
  says that it is unchanged.
- `OnlyPayloadRows`, `ReportIsTrue`: when `bcp_done` fails although the server has
  committed, the array insert starts over and the rows are there twice (`stray`).
  In the run no commit or rollback of a range fails, and native copies stay out of
  transactions.
- `AnswerIsWhole` leaves out integer cells that are no number of their type,
  output texts longer than the bind buffer and FOR JSON results on the cached
  path. `TruncationDetected` leaves out directed answers: cut before the footer,
  one is a well-formed answer without outputs.
- `ChunksInOrder` and `CancelIsHeard` exempt streams with a masked failure: a poll
  took a worker that panicked for one that is done, or the text of an error has the
  word "cancelled" in it. Both yield a clean end with rows missing. That the caller
  of a fetch is answered is not claimed: see the end of the next section.
- `NoOrphanFiles` exempts files the system refused to remove and the one that a
  failing spill has created and not yet noted (`stranded`).

## Where the code and its documentation disagree

Each can be reproduced by changing one cfg as the last column says; TLC then
reports the property violated.

| code | what is said | to reproduce |
|---|---|---|
| a commit that fails is followed by `set_autocommit(true)`, which commits the work (`transaction.rs:684-689`) | `odbc_service.dart:511-514`: "Surface the commit failure so the caller knows the unit of work didn't actually persist" | `MCTransactions`: add invariant `FailedCommitPersistsNothing` |
| `runWithBegin` ignores the answer of commit (`transaction_handle.dart:144`) | line 127: "On normal completion the transaction is committed" | `MCTransactions`: `Helper = "runWithBegin"` (`HelpersTellTheTruth`) |
| lock timeouts are skipped when the caller names SQL-92, which leaves the engine unknown (`transaction.rs:416`) | `savepoint_dialect.dart:32-33`: "Use when the connection is known not to be SQL Server" | `MCTransactionSession`: `Asks <- NamedDialect` and invariant `LockTimeoutIsApplied` |
| a scope with the name of one around it, or a refused rollback to a savepoint, keeps the work of a failed scope | `transaction_handle.dart`: "on any thrown exception we rollback to the savepoint" | `MCTransactionSession`: `ReuseNames = TRUE`, or `"rollback"` in `Refusals` (`ScopesNest`) |
| the abort path of `runWithStart` ends the branch and then calls a rollback that only knows branches that were not ended (`xa_transaction_handle.dart:288`) | lines 208-210: "without leaking branches on early returns / exceptions" | `MCXa`: add invariant `NoBranchLeaked` |
| a refused rollback is followed by autocommit on, which commits on PostgreSQL | as for commit above | `MCXa`: `"plain_rollback"` in `RmFaults` (`OnlyAskedCommits`) |
| a multi-result call with parameters keeps its result under the key of the single-result call with the same text and parameters (`ffi/mod.rs:3495`) | `ffi/mod.rs:3423`: "Same wire format as `odbc_exec_query_multi`" | `Calls`: `Batches = {s1}`, invariant `WireFormat` |
| `odbc_exec_query_params` takes the global mutex while it has the connection's | other calls take them in the other order | `Calls`: `"params"` in `SharedFns` (`NoCircularWait`) |
| the cached path does not join FOR JSON rows (`cached_connection.rs:190`) | `sqlserver_json.rs`: "in every code path that returns a complete result set in one shot" | `MCExecution`: `JsonIsWhole` as the only invariant |
| a running statement puts its connection back after its pool was closed (`ffi/mod.rs:2888`) | `ffi/mod.rs:5930`: "no live checkouts remain" | `MCPool`: add invariant `NoLiveCheckoutsRemain` |
| a disconnect with a transaction and an unread stream never returns and keeps the global mutex (`ffi/mod.rs:1042`) | `ffi_api.md:59-60`: "Also rolls back any active transactions belonging to that connection" | `MCStreams`: add property `DisconnectAlwaysReturns` |
| an integer cell that does not fit its type (MySQL's INT UNSIGNED) is sent as its text, of which the client reads the first bytes as a number | `TYPE_MAPPING.md:68`: "4 bytes little-endian" | `MCExecution`: `NoInventedIntegers` as the only invariant |
| an output text longer than the bind buffer is cut and reported as whole | `output_aware_params.rs:92` refuses an INOUT of that length: "inout_string_too_long" | `MCExecution`: `OutputsAreWhole` as the only invariant |
| an error whose text has the word "cancelled" ends a stream that nobody cancelled as if all rows had come (`streaming.rs:359`, `436`) | a stream ends with its data, its error or its cancel | `MCStreams`: add invariant `EndIsComplete` |
| a column of `maxLen` 0 is given room for one byte (`array_binding.rs:249`) | `bulk_insert_builder.dart:187`: "0 = unlimited" | `MCBulk`: add invariant `CellsAreWhole` |
| a failed commit of a range leaves its transaction open in the pool; a native copy inside a transaction is committed at once (`parallel_insert.rs:142`, `sqlserver_bcp.rs:196`) | `parallel_insert.rs:19`: "On failure, that chunk is rolled back" | `MCBulk`: `"commit"` in `Faults`, or `NativeInTxn = TRUE` (`FailedWorkIsUndone`) |
| two spills in one millisecond share a file; a lost file length is a clean, empty end | a stream's result is its own | `MCStreamContents`: `SharedMillisecond = TRUE`, or `"metadata"` in `Faults` (`ResultIsOwn`) |

The exemptions of the list above that need no other cfg disagree with what is
said as well: `transaction.rs:688`, "never returned to the caller / pool stuck in
autocommit=off"; `ARCHITECTURE.md:105`, "Each connection's errors are isolated".

Smaller ones, met while reading: with MSDTC `xa_prepare` sends nothing to the
coordinator (`xa_transaction.rs:606`); a resized pool has default options and a
sanitized connection string; binary bulk cells are cut at their first zero
byte; columnar and row-major results differ for integer cells that do not
parse; a cancelled stream ends for its Dart reader like a complete one; a
thread with two streams on one connection can wait for ever for the second,
whose worker waits for the connection that the first one's has.

## Proofs

The theorems hold for all sets of threads, connections, requests, branches and
statements and for every value of the bounds. Each rests on an inductive
invariant, `IInv`, because no property is inductive as it stands; TLC checked
each `IInv` on the instance of its run before it was proved. A proof has a lemma
per action, and lemmas for what several actions do to the state.

| module | theorem | states |
|---|---|---|
| `AsyncRequestsProofs` | `TypeCorrect` | `TypeOK` |
| | `AtMostOnce` | `DeliveredAtMostOnce` |
| | `HonouredCancel` | `HonouredCancelGivesNoData` |
| | `TableFollowsConnections` | `RequestsHaveConnections` |
| | `IdAvailable` | `IdAvailableBelowCap`, when cap < attempts and cap < ids |
| | `NoHijack` | the action property `IdsNeverHijacked` |
| | `Implementation` | `ImplementsTable`: the entry points implement `RequestTable` |
| `AsyncClientProofs` | `OwnAnswers` | `AnswersAreOwn` |
| | `Freed` | `NothingLeftBehind` |
| `TransactionsProofs` | `TableFollows` | `TableFollowsConnections` |
| | `Atomicity` | `ImplementsAtomic`: the native calls implement `AtomicTransactions` |
| `HelpersProofs` | `HelpersTrue` | `HelpersTellTheTruth`, for `runInTransaction` |
| | `HelpersAreNative` | a behaviour with the helper is one of `Transactions` |
| `XaProofs` | `HandlesTrack` | `HandlesTrackBranches` |
| | `PreparedStable` | the action property `PreparedIsStable` |
| | `CommitsOnlyAsked` | `OnlyAskedCommits`, unless PostgreSQL refuses a plain ROLLBACK |
| | `HelpersUseTheCalls` | a behaviour with an XA helper is one of `XaBranches` |
| | `SuccessIsCommitted` | `XaSuccessIsCommitted` |
| `PoolProofs` | `OneUser` | `IdsServeOneUser` |
| | `CleanSessions` | `CleanCheckout` |
| | `WithinSize` | `CheckoutsWithinSize` |
| `CallsProofs` | `NoDeadlock` | `NoCircularWait`, when no call that keeps its connection is made on a shared one |
| | `ErrorIsolation` | `ErrorsAreIsolated` |

**Asynchronous requests.** That a result is delivered once depends on where the
task stands, on whether the outcome was taken and on whether the slot is still
listed. `IInv` adds `SlotInv` (what a slot's flag, outcome and task say about
each other and about the deliveries: data is there only once the task is over
and had not seen the cancel) and `TableInv` (a listed request was started, on an
open connection). The refinement also needs that no slot has two ids and that a
slot nobody started is as `Init` made it (`RInv`). Its argument is by what a
step shows: it changes a listed slot or a hidden one, and only the former is a
step of the table. `IdAvailable` is a pigeonhole argument: the table and the id 0
take at most `MaxRequests` ids, one turn of the counter meets no id twice, so of
`MaxRequests + 1` ids in a row one is unused, and the search stops at the first.
Its two hypotheses are the constants of the code: 64 requests, 1000 attempts,
2^32 ids.

**`executeAsync`.** A message outlives the request it was sent for, and so does its
answer: a timer runs out, or the worker is disposed of in the middle of a native
call. `CInv` says of everything on the way what it still means. `MessageInv`: a
message is of the request with its id, if that is pending; the id it names is that
of its call's native request, which no start can replace any more; a start is of a
call that awaits it or has failed. `OrphanInv` says the same of a message a
disposed worker is handling. `AnswerInv`: an answer that still finds its request is
true of the call (the id is its own, the data its own, the request freed).
`PendingInv`: where a call is while it awaits a kind of request, and that it awaits
one of a kind, but for cancels from elsewhere. `CallInv`: what a call at each point
of `executeAsync` knows; the part `Freed` needs is that, while no worker was lost, a
call in or past its finally block has freed its request or has the free on its way.
`ReqInv` keeps message ids apart and `WorkerInv` ties the calls to the worker. The
proof separates what a native call does to the table (`Served`), what a call does
with an answer (`Follows`) and that the latter fits what is known (`Fits`).

**Transactions.** Between two critical sections of a call the connection is in a
state that only the call in progress explains. `CallInv` says so for the call (a
transaction being ended is out of the table and in one call), `TxnInv` for the
numbering, `WriterInv` for whose statements are pending where, `ConnInv` for the
mode of a connection on which calls do not overlap (autocommit with nothing
open, or the one transaction that the table or the call names, unless it is
stuck) and `UnitInv` for what is open on it: the statements of that transaction
and, on a stuck connection, those of transactions that were reported as failed,
all of them or none, and of no transaction. The refinement mapping shows the
transactions of these connections. Every step ends one transaction as a whole,
lets some of the failed ones persist as wholes, or changes nothing that the
abstraction sees, also when the driver fails between two calls and when a
disconnect ends what is open.

**Transaction helpers.** `HInv` adds to it `PhaseInv` (a helper's phase and its
thread's native call go together), `OwnInv` (its transaction is its own) and
`WorkInv` (its work is durable when it has reported success and not before).
`HelpersTrue` has the hypothesis `Helper = "runInTransaction"`:
`runWithBegin` ignores the answer of commit, and the property fails for it.

**XA.** `IInv` has `IdInv` (a handle is in one table; no two share a branch or a
connection), `HandleInv` (the table tells the state of the branch, by engine and
by whether the connection is open), `SessionInv` (which branch a session is in,
and when autocommit is back) and `DtcInv` (MSDTC is never told to prepare).
`XaInvariant` first proves what each call of the resource manager may answer,
then that the calls with a handle preserve `IInv`; `XaProofs` does start, resume,
recover, disconnect and crash. Each call with a handle is also shown to touch
its own branch and connection only (`CallEffect`), from which `PreparedStable`
and `CommitsOnlyAsked` follow. The exception of the latter is real: PostgreSQL
commits when autocommit is restored in an open transaction. For the helpers,
`HelperInv` says that a helper's branch is that of its handle for as long as the
handle is there, and is committed, or had nothing to commit, once success is
reported; a branch in either state is never left by any step.

**Pools.** `StackInv` (a stack has ids that were given out, each once, on one
stack), `HeldInv` (an id is on a stack, in the table or with the one statement
running on it), `StatementInv` (a prepared statement's id is with the checkout
it was prepared on, or with nobody), `CheckoutInv` (a checkout is in the table
once or with one call) and `SessionInv` (idle sessions are in no transaction but
one whose rollback was refused). None mentions `Quiet`: `OneUser` and
`CleanSessions` hold for pools closed and resized at any time. `WithinSize` is
about the pools in `Quiet` and rests on `SizeInv`: an r2d2 pool stands behind
one pool id with the size the table shows (`PoolInv`); a checkout or a waiting
call is of the r2d2 pool that its pool id has, if the pool is quiet (`UserInv`);
and no r2d2 pool has more out than its size (`RoomInv`), where a checkout in the
hands of a running statement still counts. That the idle connections
`odbc_pool_get_state` reports are those r2d2 has then follows from a bijection
between the table entries of an idle pool and its checkouts.

**SQL calls.** `LInv` says what a call in flight has in hand: `MutexInv` (a
locked connection is locked by one call, which is between its lock and its
unlock, and past its statement only if its function keeps the mutex until it
returns), `CallInv` (a call is on a connection its thread may use, with a
function that may be used there) and `OutcomeInv` (the error slot of a thread's
own connection is the one its last failure wrote, or what it was when a call
failed that told the process-wide slot only). `NoDeadlock` has the hypothesis
`SharedFns \cap Keeping = {}`: calls with parameters, catalog calls and streams
take the global mutex with the connection in hand and are made on connections of
one thread. Without it the property is false (see the table above).

**Assumptions.** The named ones of the modules, which TLC evaluates in every run:
bounds are natural numbers (the cap, the attempts and the id modulus positive),
`None` is no connection, request, branch, thread or number, and for `AsyncClient`
neither is `Error`; plain and pooled connections have different ids; `Shared` and
`Faulty` are sets of connections, `Quiet` is a set of pools, sizes are positive, and the threads
that run helpers are threads.

**Model-checked only.**

- Liveness (`CallersAnswered`, `InDoubtResolved`, `DroppedStreamsLetGo`,
  `DisconnectReturns`) needs fairness and `ENABLED`, which the prover does not do.
- What encoders, decoders, bitmaps and name spellings compute for every input
  (`Execution`, `WireFormat`, `Bulk`, `StreamContents`, `XaIdentifiers`) needs
  induction over data.
- `OwnResult` and `NotReexecuted` of `Calls` relate a request to the results kept
  for its retries, over all sessions a connection has had.
- `TransactionSession`, `XaRecovery` and `Streams` are not proved.

## Not modelled

- **Dart repository and reconnect**: the repetition of calls after a lost
  connection. The other modules take the worker's one-call-at-a-time order as
  given.
- **Dart worker isolate**, in part: `AsyncClient` has `executeAsync`, timers, late
  answers, dispose and the loss of a worker. The automatic recovery, two
  initialisations at once and the other requests, which go the same way through
  `_sendRequest` and `_handleResponse`, are left out.
- **Plugins and catalog**: SQL text per database without state. How the library
  runs the catalog queries is in `Calls`. A plugin is chosen by
  `set_connection_string`, which only Rust callers and tests use: in the exported
  library no row limit is added and calls with ref cursors are refused. The models
  have both kinds of caller.
- **Statement caches**: `PreparedStatementCache` remembers texts for its counters,
  and the LRU of `CachedConnection` saves prepare calls; neither changes an answer.
- **Environment, errors and wrappers**, **versioning and async runtime**, **legacy
  engine layers**: initialisation, constants, error classes and wrappers without
  behaviour of their own.
- **Observability and audit**: written, and read by no modelled part.
- Stream ids are not numbers in `Streams` and `StreamContents`: their counter, which
  skips ids in use as that of the requests does, is left out.
- **Oracle OCI shim**: declared, but no code of the library calls it.
- The driver, the servers and the libraries are external.

Three hazards of `PROJECT.json` have no property: the failed rebuild of a resized
pool, the abort path of `runWithStart` and the lost MSDTC branch. In these the
code does not do what one would state.

## Running

    tlc -config MCXa.cfg MCXaHelpers      # each run's module and cfg: PROJECT.json
    tlapm AsyncRequestsProofs.tla         # likewise AsyncClientProofs, CallsProofs,
                                          # HelpersProofs, PoolProofs, TransactionsProofs,
                                          # XaInvariant and XaProofs
