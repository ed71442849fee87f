------------------------- MODULE TransactionSession -------------------------
(***************************************************************************)
(* The SQL that a transaction sends: isolation level, access mode and lock *)
(* timeout at Transaction::begin, and savepoints in it, each in the syntax *)
(* of the server, with the session that the server keeps and the Dart      *)
(* helper withSavepoint on top.                                            *)
(*                                                                         *)
(* One connection and one caller: module Transactions has the races.  The  *)
(* functions of begin hold the mutex of the connection throughout, those   *)
(* of savepoints the global mutex too, so the actions are single           *)
(* statements.  An identifier is a sequence of character classes.          *)
(***************************************************************************)
EXTENDS Integers, Sequences, FiniteSets, SequencesExt

CONSTANTS
    Engines,            \* the servers the connection may be made to
    Asks,               \* what callers of begin ask for
    Names,              \* the names they give to savepoints
    MaxWrites,          \* bound: the statements of the caller
    MaxBegins,          \* bound: transactions begun
    MaxScopes,          \* bound: scopes entered
    Refusals,           \* the statements that a server may refuse for its own reasons
    ReuseNames,         \* whether a scope may have the name of one around it
    MaxIdentifierLen,   \* MAX_IDENTIFIER_LEN
    MaxU32,             \* the largest u32
    None

ASSUME BoundsAssumption == MaxBegins \in Nat /\ MaxScopes \in Nat /\ MaxWrites \in Nat
ASSUME WidthAssumption == MaxIdentifierLen \in Nat \ {0} /\ MaxU32 \in Nat \ {0}

VARIABLES
    engine,             \* the server
    session,            \* the settings of the server's session
    next,               \* settings for the next transaction only
    force,              \* the settings that the open transaction runs under
    autocommit,         \* the commit mode of the connection
    work,               \* the statements of the open transaction, in order
    marks,              \* the server's savepoints, oldest first
    durable,            \* the statements that are committed
    pc,                 \* where begin is, or whether a transaction is open
    ask,                \* what its caller asked for
    txn,                \* engine_id and savepoint_dialect of the Transaction
    scopes,             \* the withSavepoint calls that are open, outermost first
    ended,              \* how the last withSavepoint call ended
    answer,             \* what the last native call returned
    begins,             \* number of begins so far
    entered,            \* number of scopes so far
    writes              \* number of statements so far; the n-th is n

server == <<session, next, force, autocommit, work, marks, durable>>
client == <<pc, ask, txn, scopes, ended, begins, entered, writes>>
vars == <<engine, server, client, answer>>

Levels == {"ru", "rc", "rr", "ser"}
Modes == {"rw", "ro"}
Dialects == {"auto", "sqlserver", "sql92"}
ServerDefault == [iso |-> "rc", lock |-> 0]
NoNext == [iso |-> None, mode |-> None]

Init ==
    /\ engine \in Engines
    /\ session = ServerDefault /\ next = NoNext /\ force = None
    /\ autocommit = TRUE /\ work = <<>> /\ marks = <<>> /\ durable = <<>>
    /\ pc = "idle" /\ ask = None /\ txn = None /\ scopes = <<>> /\ ended = "none"
    /\ answer = "none" /\ begins = 0 /\ entered = 0 /\ writes = 0
-----------------------------------------------------------------------------
(* Lock timeouts.                                                          *)

\* LockTimeout::from_duration, of microseconds, and the same in Dart's
\* beginTransaction: what is positive stays so, and the rest is clamped.
FromDuration(us) ==
    IF us = 0 THEN 0
    ELSE IF us < 1000 THEN 1
    ELSE IF us \div 1000 > MaxU32 THEN MaxU32 ELSE us \div 1000

\* Mutant: the seconds are rounded down.
SecondsRoundedDown(ms) == IF ms < 1000 THEN 1 ELSE ms \div 1000

\* LockTimeout::millis_as_seconds_rounded_up.
SecondsRoundedUp(ms) == (ms + 999) \div 1000
-----------------------------------------------------------------------------
(* The server.  What it understands and how long a setting lasts that is   *)
(* sent in autocommit: for the session, for the next transaction, or not   *)
(* at all.                                                                 *)

UnderstandsIsolation(form, level) ==
    CASE form = "sql92"  -> \/ engine \in {"sqlserver", "postgres", "mysql"}
                            \/ engine = "oracle" /\ level \in {"rc", "ser"}
      [] form = "pragma" -> engine = "sqlite"
      [] form = "db2"    -> engine = "db2"

IsolationLasts ==
    CASE engine \in {"sqlserver", "sqlite", "db2"} -> "session"
      [] engine = "mysql"                          -> "next"
      [] OTHER                                     -> "statement"

\* The largest lock timeout the server takes, in its unit: a signed integer.
LargestTimeout == MaxU32 \div 2

\* The settings the next transaction starts with.
StartForce ==
    [iso |-> IF next.iso = None THEN session.iso ELSE next.iso,
     mode |-> IF next.mode = None THEN "rw" ELSE next.mode,
     lock |-> session.lock]

UnderstandsSavepoint(verb) ==
    CASE verb \in {"SAVE TRANSACTION", "ROLLBACK TRANSACTION"} -> engine = "sqlserver"
      [] verb = "RELEASE SAVEPOINT" -> engine \in {"postgres", "mysql", "sqlite", "db2"}
      [] OTHER -> engine \in {"postgres", "mysql", "sqlite", "db2", "oracle"}

\* Where a name is used again, some servers forget the older savepoint.
Replaces == engine \in {"mysql", "oracle", "db2"}

Named(n) == {i \in DOMAIN marks : marks[i].name = n}
Latest(n) == CHOOSE i \in Named(n) : \A j \in Named(n) : j <= i
-----------------------------------------------------------------------------
(* Transaction::begin_with_lock_timeout.                                   *)

\* The statement of the step is refused: begin fails.
BeginFails ==
    /\ pc' = "idle" /\ answer' = "failed" /\ ask' = None /\ txn' = None
    /\ UNCHANGED <<engine, server, scopes, ended, begins, entered, writes>>

\* The step is done, with or without a statement.
BeginGoesOn(to) ==
    /\ pc' = to
    /\ UNCHANGED <<engine, force, autocommit, work, marks, durable, ask, txn, scopes, ended,
                   answer, begins, entered, writes>>

\* resolve_savepoint_dialect_for_engine.
ResolveDialect(e) == IF e = "sqlserver" THEN "sqlserver" ELSE "sql92"

\* detect_engine_and_dialect.  SQLGetInfo may fail; a caller that names the
\* dialect is not asked for the engine.
DetectEngineAndDialect(dialect) ==
    CASE dialect = "sql92"     -> {[engine |-> "unknown", dialect |-> "sql92"]}
      [] dialect = "sqlserver" -> {[engine |-> "sqlserver", dialect |-> "sqlserver"]}
      [] dialect = "auto"      -> {[engine |-> e, dialect |-> ResolveDialect(e)] :
                                     e \in {engine} \cup ({"unknown"} \cap Refusals)}

\* odbc_transaction_begin, _v2 and _v3 up to the first statement.
Begin(a) ==
    /\ pc = "idle" /\ begins < MaxBegins
    /\ ask' = a
    /\ txn' \in DetectEngineAndDialect(a.dialect)
    /\ pc' = "isolation" /\ begins' = begins + 1
    /\ UNCHANGED <<engine, server, scopes, ended, answer, entered, writes>>

\* IsolationStrategy::for_engine.
IsolationForm(id) ==
    CASE id = "sqlite"    -> "pragma"
      [] id = "db2"       -> "db2"
      [] id = "oracle"    -> "restricted"
      [] id = "snowflake" -> "skip"
      [] OTHER            -> "sql92"

\* The level that the statement names: SQLite knows two.
LevelSent(form, level) ==
    IF form # "pragma" THEN level ELSE IF level = "ru" THEN "ru" ELSE "ser"

SetIsolation(level) ==
    CASE IsolationLasts = "session" -> session' = [session EXCEPT !.iso = level] /\ UNCHANGED next
      [] IsolationLasts = "next"    -> next' = [next EXCEPT !.iso = level] /\ UNCHANGED session
      [] OTHER                      -> UNCHANGED <<session, next>>

\* Mutant: the level that servers start with is not sent.
ApplyIsolationUnlessDefault ==
    LET form == IsolationForm(txn.engine)
        sent == IF form = "restricted" THEN "sql92" ELSE form IN
    /\ pc = "isolation"
    /\ \/ /\ form = "skip" \/ ask.iso = "rc"
          /\ BeginGoesOn("access") /\ UNCHANGED <<session, next>>
       \/ /\ form # "skip" /\ ask.iso # "rc" /\ UnderstandsIsolation(sent, ask.iso)
          /\ SetIsolation(LevelSent(sent, ask.iso)) /\ BeginGoesOn("access")

\* apply_isolation.  Two levels are refused for Oracle before they are sent.
ApplyIsolation ==
    LET form == IsolationForm(txn.engine)
        sent == IF form = "restricted" THEN "sql92" ELSE form IN
    /\ pc = "isolation"
    /\ \/ /\ form = "skip"
          /\ BeginGoesOn("access") /\ UNCHANGED <<session, next>>
       \/ /\ form = "restricted" /\ ask.iso \notin {"rc", "ser"}
          /\ BeginFails
       \/ /\ form # "skip" /\ (form = "restricted" => ask.iso \in {"rc", "ser"})
          /\ \/ /\ UnderstandsIsolation(sent, ask.iso)
                /\ SetIsolation(LevelSent(sent, ask.iso))
                /\ BeginGoesOn("access")
             \/ /\ ~UnderstandsIsolation(sent, ask.iso) \/ "isolation" \in Refusals
                /\ BeginFails

\* apply_access_mode: READ WRITE is never sent.
ApplyAccessMode ==
    /\ pc = "access"
    /\ \/ /\ ask.mode = "rw" \/ txn.engine \notin {"postgres", "mysql", "db2", "oracle"}
          /\ BeginGoesOn("lock") /\ UNCHANGED <<session, next>>
       \/ /\ ask.mode = "ro" /\ txn.engine \in {"postgres", "mysql", "db2", "oracle"}
          /\ \/ /\ next' = IF engine = "mysql" THEN [next EXCEPT !.mode = "ro"] ELSE next
                /\ UNCHANGED session
                /\ BeginGoesOn("lock")
             \/ "access" \in Refusals /\ BeginFails

\* apply_lock_timeout, in milliseconds or whole seconds; PostgreSQL's SET LOCAL
\* lasts as long as the transaction that it is sent in.
ApplyLockTimeout ==
    LET ms == FromDuration(ask.lock)
        secs == SecondsRoundedUp(ms)
        unit == IF txn.engine \in {"mysql", "db2"} THEN 1000 ELSE 1
        sent == IF unit = 1 THEN ms ELSE secs
        matrix == {"sqlserver", "postgres", "mysql", "db2", "sqlite"} IN
    /\ pc = "lock"
    /\ \/ /\ ms = 0 \/ txn.engine \notin matrix
          /\ BeginGoesOn("manual") /\ UNCHANGED <<session, next>>
       \/ /\ ms # 0 /\ txn.engine \in matrix
          /\ \/ /\ txn.engine = engine /\ sent <= LargestTimeout
                /\ session' = IF engine = "postgres" THEN session
                              ELSE [session EXCEPT !.lock = sent * unit]
                /\ UNCHANGED next
                /\ BeginGoesOn("manual")
             \/ /\ txn.engine # engine \/ sent > LargestTimeout \/ "lock" \in Refusals
                /\ BeginFails

\* set_autocommit(false): the transaction is there.
ManualCommit ==
    /\ pc = "manual"
    /\ \/ /\ autocommit' = FALSE
          /\ force' = StartForce /\ next' = NoNext
          /\ pc' = "active" /\ answer' = "ok"
          /\ UNCHANGED <<engine, session, work, marks, durable, ask, txn, scopes, ended, begins,
                         entered, writes>>
       \/ "manual" \in Refusals /\ BeginFails
-----------------------------------------------------------------------------
(* The caller's statements, and the end of a transaction.                  *)

\* A statement; outside a transaction it is one of its own, and takes what was
\* set for the next transaction.
Do ==
    /\ pc \in {"idle", "active"}
    /\ writes < MaxWrites
    /\ writes' = writes + 1
    /\ IF autocommit
       THEN durable' = Append(durable, writes') /\ next' = NoNext /\ UNCHANGED work
       ELSE work' = Append(work, writes') /\ UNCHANGED <<durable, next>>
    /\ UNCHANGED <<engine, session, force, autocommit, marks, pc, ask, txn, scopes, ended, begins,
                   entered, answer>>

\* The unit of work is over and autocommit is restored.
EndWith(kept) ==
    /\ pc = "active" /\ scopes = <<>>
    /\ durable' = durable \o kept /\ work' = <<>> /\ marks' = <<>>
    /\ autocommit' = TRUE /\ force' = None
    /\ pc' = "idle" /\ answer' = "ok" /\ ask' = None /\ txn' = None
    /\ UNCHANGED <<engine, session, next, scopes, ended, begins, entered, writes>>

\* Transaction::execute_with_lock_timeout with a body that succeeds, and commit.
Commit == EndWith(work)

\* The same with a body that fails, rollback, and the drop of a transaction that
\* nobody ended.
Rollback == EndWith(<<>>)
-----------------------------------------------------------------------------
(* Savepoints.                                                             *)

\* validate_identifier.
ValidateIdentifier(n) ==
    /\ Len(n) \in 1 .. MaxIdentifierLen
    /\ n[1] \in {"letter", "underscore"}
    /\ \A i \in 2 .. Len(n) : n[i] \in {"letter", "digit", "underscore"}

\* What the native savepoint calls send: savepoint_create, savepoint_rollback_to
\* and, but for SQL Server, savepoint_release.
CreateVerb == IF txn.dialect = "sqlserver" THEN "SAVE TRANSACTION" ELSE "SAVEPOINT"
RollbackVerb ==
    IF txn.dialect = "sqlserver" THEN "ROLLBACK TRANSACTION" ELSE "ROLLBACK TO SAVEPOINT"

SendsRelease == txn.dialect # "sqlserver"

\* A native savepoint call that fails, or that has nothing to send.
Answers(a) == answer' = a /\ UNCHANGED <<work, marks>>

\* odbc_savepoint_create.
SavepointCreate(n) ==
    \/ ~ValidateIdentifier(n) /\ Answers("invalid")
    \/ /\ ValidateIdentifier(n)
       /\ ~UnderstandsSavepoint(CreateVerb) \/ "create" \in Refusals
       /\ Answers("failed")
    \/ /\ ValidateIdentifier(n) /\ UnderstandsSavepoint(CreateVerb)
       /\ marks' = Append(IF Replaces THEN SelectSeq(marks, LAMBDA m : m.name # n) ELSE marks,
                          [name |-> n, base |-> work])
       /\ answer' = "ok" /\ UNCHANGED work

\* Mutant: SQL Server is asked to roll back without the name.
SavepointRollbackAll(n) ==
    \/ /\ UnderstandsSavepoint(RollbackVerb) /\ Named(n) # {}
       /\ work' = IF engine = "sqlserver" THEN <<>> ELSE marks[Latest(n)].base
       /\ marks' = SubSeq(marks, 1, Latest(n))
       /\ answer' = "ok"

\* odbc_savepoint_rollback.  The savepoint survives, the later ones do not.
SavepointRollback(n) ==
    \/ /\ UnderstandsSavepoint(RollbackVerb) /\ Named(n) # {}
       /\ work' = marks[Latest(n)].base
       /\ marks' = SubSeq(marks, 1, Latest(n))
       /\ answer' = "ok"
    \/ /\ Named(n) = {} \/ "rollback" \in Refusals
       /\ Answers("failed")

\* odbc_savepoint_release.
SavepointRelease(n) ==
    \/ ~SendsRelease /\ Answers("ok")
    \/ /\ SendsRelease /\ UnderstandsSavepoint("RELEASE SAVEPOINT") /\ Named(n) # {}
       /\ marks' = SubSeq(marks, 1, Latest(n) - 1)
       /\ answer' = "ok" /\ UNCHANGED work
    \/ /\ SendsRelease
       /\ ~UnderstandsSavepoint("RELEASE SAVEPOINT") \/ Named(n) = {} \/ "release" \in Refusals
       /\ Answers("failed")

rest == <<engine, session, next, force, autocommit, durable, pc, ask, txn, begins, writes>>

\* withSavepoint: the scope is entered, or a StateError leaves all as it was.
EnterScope(n) ==
    /\ pc = "active" /\ entered < MaxScopes
    /\ ReuseNames \/ \A i \in DOMAIN scopes : scopes[i].name # n
    /\ SavepointCreate(n)
    /\ entered' = entered + 1
    /\ scopes' = IF answer' = "ok" THEN Append(scopes, [name |-> n, base |-> work]) ELSE scopes
    /\ UNCHANGED <<rest, ended>>

\* The action of the innermost scope returns; what release answers is ignored.
LeaveScope ==
    /\ pc = "active" /\ scopes # <<>>
    /\ SavepointRelease(Last(scopes).name)
    /\ scopes' = Front(scopes) /\ ended' = "kept"
    /\ UNCHANGED <<rest, entered>>

\* It throws; what the rollback answers is ignored, and the savepoint stays.
FailScope ==
    /\ pc = "active" /\ scopes # <<>>
    /\ SavepointRollback(Last(scopes).name)
    /\ scopes' = Front(scopes) /\ ended' = "undone"
    /\ UNCHANGED <<rest, entered>>

Next ==
    \/ \E a \in Asks : Begin(a)
    \/ ApplyIsolation \/ ApplyAccessMode \/ ApplyLockTimeout \/ ManualCommit
    \/ Do
    \/ Commit \/ Rollback
    \/ \E n \in Names : EnterScope(n)
    \/ LeaveScope \/ FailScope

Spec == Init /\ [][Next]_vars
-----------------------------------------------------------------------------
(* Properties.                                                             *)

\* The transaction was begun with the engine detected.
Detected == txn.engine = engine

\* A transaction runs at the isolation level its caller asked for, not at one
\* that an earlier transaction of the session, or a begin that failed half way,
\* left behind: on the servers on which a level sent in autocommit lasts.  A lock
\* timeout that was asked for is in force, of at least what was asked for in
\* milliseconds, less than a second more and never zero, on the servers of the
\* matrix of LockTimeout on which it lasts.
SettingsInForce ==
    LET ms == FromDuration(ask.lock) IN
    pc = "active" =>
        /\ IsolationLasts # "statement" /\ (Detected \/ engine = "mysql")
              => force.iso = LevelSent(IsolationForm(engine), ask.iso)
        /\ ask.lock > 0 /\ Detected /\ engine \in {"sqlserver", "mysql", "db2", "sqlite"}
              => force.lock \in ms .. ms + 999 /\ force.lock > 0

\* odbc_transaction_begin_v3: a lock_timeout_ms that is not 0 "is the maximum
\* number of milliseconds a statement inside the transaction will wait", also
\* for a caller who names the savepoint dialect.
LockTimeoutIsApplied ==
    pc = "active" /\ ask.lock > 0 /\ engine \in {"sqlserver", "mysql", "db2", "sqlite"} =>
        force.lock > 0

Abstract == INSTANCE NestedScopes WITH
    Writes <- 1 .. MaxWrites,
    open <- ~autocommit,
    bases <- [i \in DOMAIN scopes |-> scopes[i].base]

\* withSavepoint over any of the servers is a nested scope: "on any thrown
\* exception we rollback to the savepoint", which undoes the work of that scope
\* and of no other, whatever savepoints failed and successful scopes left.
ScopesNest == Abstract!Spec
=============================================================================
