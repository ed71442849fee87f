----------------------------- MODULE XaBranches -----------------------------
(***************************************************************************)
(* XA branches: the three tables of the FFI layer (xa_active,              *)
(* xa_preparing, xa_prepared), the handles XaTransaction, PreparingXa and  *)
(* PreparedXa in them, and the resource manager behind the connections.    *)
(*                                                                         *)
(* Every odbc_xa_* call that changes a table keeps the global mutex from   *)
(* beginning to end, so each is one step.  The answer of a call is its     *)
(* parameter ok.  A call with an unknown id answers no and changes         *)
(* nothing.                                                                *)
(*                                                                         *)
(* The resource manager is external and one of four kinds: "MySQL" stands  *)
(* for MySQL, MariaDB and DB2, which share their XA grammar, "SqlServer"   *)
(* for SQL Server with the coordinator MSDTC, in builds with xa-dtc.       *)
(***************************************************************************)
EXTENDS Integers, FiniteSets, Functions

CONSTANTS
    Conns,          \* connection ids
    Xids,           \* transaction branch identifiers
    MaxXaIds,       \* bound: handles given out
    RmFaults,       \* statements the resource manager may refuse
    None            \* no branch

Engines == {"MySQL", "Postgres", "Oracle", "SqlServer"}

ASSUME MaxXaIdsAssumption == MaxXaIds \in Nat
ASSUME RmFaultsAssumption ==
    RmFaults \subseteq {"start", "end", "prepare", "commit", "rollback", "plain_rollback"}
ASSUME NoneAssumption == None \notin Xids

VARIABLES
    engine,         \* the kind of the resource manager
    rm,             \* xid -> state of the branch at the resource manager
    session,        \* connection -> the branch its session is in
    autocommit,     \* connection -> the driver's autocommit attribute
    connState,      \* connection -> "New", "Open" or "Closed"
    xaActive,       \* xa_active: handle id -> connection and xid
    xaPreparing,    \* xa_preparing
    xaPrepared,     \* xa_prepared
    nextXaId,       \* next_xa_id
    asked,          \* xids somebody asked to commit
    startFailed     \* connections on which an xa_start has failed

rmVars == <<engine, rm, session, autocommit>>
tableVars == <<xaActive, xaPreparing, xaPrepared, nextXaId>>
vars == <<rmVars, tableVars, connState, asked, startFailed>>

XaIds == 1 .. MaxXaIds
Handles == [conn : Conns, xid : Xids]
\* "ReadOnly": completed by Oracle at the prepare, there being nothing to commit.
BranchStates ==
    {"None", "Active", "Idle", "Prepared", "ReadOnly", "Committed", "RolledBack"}

TableTypeOK(table) ==
    DOMAIN table \subseteq XaIds /\ table \in [DOMAIN table -> Handles]

TypeOK ==
    /\ engine \in Engines
    /\ rm \in [Xids -> BranchStates]
    /\ session \in [Conns -> Xids \cup {None}]
    /\ autocommit \in [Conns -> BOOLEAN]
    /\ connState \in [Conns -> {"New", "Open", "Closed"}]
    /\ TableTypeOK(xaActive) /\ TableTypeOK(xaPreparing) /\ TableTypeOK(xaPrepared)
    /\ nextXaId \in 1 .. MaxXaIds + 1
    /\ asked \subseteq Xids
    /\ startFailed \subseteq Conns

NoHandles == [id \in {} |-> None]

Init ==
    /\ engine \in Engines
    /\ rm = [x \in Xids |-> "None"]
    /\ session = [c \in Conns |-> None]
    /\ autocommit = [c \in Conns |-> TRUE]
    /\ connState = [c \in Conns |-> "New"]
    /\ xaActive = NoHandles /\ xaPreparing = NoHandles /\ xaPrepared = NoHandles
    /\ nextXaId = 1
    /\ asked = {} /\ startFailed = {}
-----------------------------------------------------------------------------
(* The resource manager.  A branch seen from a session is a record b: the  *)
(* state st of the branch and the branch in the session is in.  A          *)
(* statement returns the set of its outcomes: the answer and the branch    *)
(* afterwards.                                                             *)

Branch(c, x) == [st |-> rm[x], in |-> session[c]]

Yes(st, in) == {[ok |-> TRUE, b |-> [st |-> st, in |-> in]]}
No(b) == {[ok |-> FALSE, b |-> b]}
MayFail(statement, b) == IF statement \in RmFaults THEN No(b) ELSE {}

\* MSDTC keeps the transaction in the process until it is committed; dropping
\* its handle aborts it.
DtcDropped == [st |-> "RolledBack", in |-> None]
DtcBegin(b) == Yes("Idle", b.in) \cup MayFail("start", b)
DtcEnlist(x) == Yes("Active", x) \cup MayFail("start", DtcDropped)
DtcUnenlist(b) == Yes("Idle", None) \cup MayFail("end", b)
DtcCommit(b) == Yes("Committed", b.in) \cup MayFail("commit", DtcDropped)
DtcAbort == Yes("RolledBack", None) \cup MayFail("rollback", DtcDropped)

RmStart(x, b) ==
    CASE b.in # None -> No(b)
      [] b.in = None /\ engine = "SqlServer" ->
            UNION {IF r.ok THEN DtcEnlist(x) ELSE {r} : r \in DtcBegin(b)}
      [] OTHER -> Yes("Active", x) \cup MayFail("start", b)

\* PostgreSQL has no XA END; Oracle detaches the session from the branch.
RmEnd(x, b) ==
    CASE engine = "Postgres" -> Yes(b.st, b.in)
      [] engine = "SqlServer" -> DtcUnenlist(b)
      [] b.in = x /\ b.st = "Active" /\ engine \in {"MySQL", "Oracle"} ->
            Yes("Idle", IF engine = "Oracle" THEN None ELSE x) \cup MayFail("end", b)
      [] OTHER -> No(b)

\* PREPARE TRANSACTION of PostgreSQL rolls back when it fails.  Nothing is sent
\* to MSDTC, so there the branch is not prepared.
RmPrepare(x, b) ==
    CASE engine = "Postgres" ->
            Yes("Prepared", None) \cup MayFail("prepare", [st |-> "RolledBack", in |-> None])
      [] engine = "MySQL" -> Yes("Prepared", None) \cup MayFail("prepare", b)
      [] engine = "Oracle" ->
            Yes("Prepared", None) \cup Yes("ReadOnly", b.in) \cup MayFail("prepare", b)
      [] engine = "SqlServer" -> Yes(b.st, b.in)

RmCommitOnePhase(x, b) ==
    CASE engine = "Postgres" ->
            Yes("Committed", None) \cup MayFail("commit", [st |-> "RolledBack", in |-> None])
      [] engine = "SqlServer" -> DtcCommit(b)
      [] OTHER -> Yes("Committed", None) \cup MayFail("commit", b)

\* Of an active or idle branch.  The block sent to Oracle begins with XA_END,
\* which Oracle refuses on a session that has been detached.  PostgreSQL, where
\* nothing is prepared yet, is sent a plain ROLLBACK.  The answer of
\* MSDTC is not looked at.
RmRollback(x, b) ==
    CASE engine = "SqlServer" -> UNION {Yes(r.b.st, r.b.in) : r \in DtcAbort}
      [] engine = "Postgres" /\ b.in = x ->
            Yes("RolledBack", None) \cup MayFail("plain_rollback", b)
      [] \/ engine = "MySQL" /\ b.st = "Idle"
         \/ engine = "Oracle" /\ b.st = "Active" /\ b.in = x ->
            Yes("RolledBack", None) \cup MayFail("rollback", b)
      [] OTHER -> No(b)

\* Phase two.  That Oracle no longer knows a read-only branch is not an error.
RmPhaseTwo(statement, st, b) ==
    CASE engine = "SqlServer" -> IF statement = "commit" THEN DtcCommit(b) ELSE DtcAbort
      [] b.st = "Prepared" -> Yes(st, b.in) \cup MayFail(statement, b)
      [] b.st = "ReadOnly" -> Yes(b.st, b.in)
      [] OTHER -> No(b)

\* Turning autocommit on commits an open transaction of PostgreSQL; MySQL
\* refuses it while the session is in a branch.
AutocommitAllowed(b) == engine = "MySQL" => b.in = None

AfterAutocommitOn(b) ==
    IF engine = "Postgres" /\ b.in # None THEN [st |-> "Committed", in |-> None] ELSE b

\* An outcome takes effect: the branch, its session, and (on) autocommit.
TakeEffect(c, x, b, on) ==
    LET a == IF on THEN AfterAutocommitOn(b) ELSE b IN
    /\ rm' = [rm EXCEPT ![x] = a.st]
    /\ session' = [session EXCEPT ![c] = a.in]
    /\ autocommit' = [autocommit EXCEPT ![c] = IF on /\ AutocommitAllowed(b) THEN TRUE ELSE @]
    /\ UNCHANGED engine
-----------------------------------------------------------------------------
(* Tables.                                                                 *)

Put(table, id, h) == [i \in DOMAIN table \cup {id} |-> IF i = id THEN h ELSE table[i]]
Drop(table, id) == Restrict(table, DOMAIN table \ {id})

AllHandles == Range(xaActive) \cup Range(xaPreparing) \cup Range(xaPrepared)

Reachable(h) == connState[h.conn] = "Open"
-----------------------------------------------------------------------------
(* The handles: XaTransaction, PreparingXa, PreparedXa.  A handle answers   *)
(* no and changes nothing when its connection is gone, except that MSDTC    *)
(* is reached without the connection.                                       *)

BranchOf(h) == Branch(h.conn, h.xid)

\* An outcome of a handle's statements, answered with ok.
Outcome(h, outcomes, ok, on) ==
    \E r \in outcomes : r.ok = ok /\ TakeEffect(h.conn, h.xid, r.b, on)

\* XaTransaction::start: autocommit goes off first and stays off when the start
\* is refused.
TransactionStart(c, x, ok) ==
    /\ \E r \in RmStart(x, Branch(c, x)) :
          /\ r.ok = ok
          /\ rm' = [rm EXCEPT ![x] = r.b.st]
          /\ session' = [session EXCEPT ![c] = r.b.in]
    /\ autocommit' = [autocommit EXCEPT ![c] = FALSE]
    /\ UNCHANGED engine

\* Mutant: autocommit is restored before the rollback.
AbortAutocommitFirst(x, b) ==
    UNION {RmRollback(x, AfterAutocommitOn(r.b)) : r \in RmEnd(x, b)}

\* End and roll back, whatever the answer to the end is.
AbortOutcomes(x, b) == UNION {RmRollback(x, r.b) : r \in RmEnd(x, b)}

\* XaTransaction::rollback.
TransactionRollback(h, ok) ==
    IF Reachable(h)
    THEN Outcome(h, AbortOutcomes(h.xid, BranchOf(h)), ok, TRUE)
    ELSE ok = (engine = "SqlServer") /\ UNCHANGED rmVars

\* The drop of an XaTransaction that is still active, branch b: end, roll back,
\* restore autocommit, whatever the resource manager answers.
TransactionDropped(h, b) ==
    \E ok \in BOOLEAN : Outcome(h, AbortOutcomes(h.xid, b), ok, TRUE)

\* XaTransaction::end; if it is refused the handle is dropped while active.
TransactionEnd(h, ok) ==
    IF Reachable(h)
    THEN \E r \in RmEnd(h.xid, BranchOf(h)) :
            /\ r.ok = ok
            /\ IF ok THEN TakeEffect(h.conn, h.xid, r.b, FALSE) ELSE TransactionDropped(h, r.b)
    ELSE ok = FALSE /\ UNCHANGED rmVars

\* XaTransaction::commit_one_phase: end, commit, restore autocommit.
TransactionCommitOnePhase(h, ok) ==
    IF Reachable(h)
    THEN \E r \in RmEnd(h.xid, BranchOf(h)) :
            IF r.ok THEN Outcome(h, RmCommitOnePhase(h.xid, r.b), ok, TRUE)
            ELSE ok = FALSE /\ TransactionDropped(h, r.b)
    ELSE ok = FALSE /\ UNCHANGED rmVars

\* Mutant: autocommit is not restored after a prepare.
PreparingPrepareKeepsManual(h, ok) ==
    IF Reachable(h) \/ engine = "SqlServer"
    THEN Outcome(h, RmPrepare(h.xid, BranchOf(h)), ok, FALSE)
    ELSE ok = FALSE /\ UNCHANGED rmVars

\* PreparingXa::prepare: a branch whose prepare failed is not rolled back.
PreparingPrepare(h, ok) ==
    IF Reachable(h) \/ engine = "SqlServer"
    THEN Outcome(h, RmPrepare(h.xid, BranchOf(h)), ok, TRUE)
    ELSE ok = FALSE /\ UNCHANGED rmVars

\* PreparedXa::commit and PreparedXa::rollback.
PreparedPhaseTwo(h, ok, statement, st) ==
    IF Reachable(h) \/ engine = "SqlServer"
    THEN Outcome(h, RmPhaseTwo(statement, st, BranchOf(h)), ok, FALSE)
    ELSE ok = FALSE /\ UNCHANGED rmVars
-----------------------------------------------------------------------------
(* The calls of the FFI layer.                                             *)

Connect(c) ==
    /\ connState[c] = "New"
    /\ connState' = [connState EXCEPT ![c] = "Open"]
    /\ UNCHANGED <<rmVars, tableVars, asked, startFailed>>

\* The session is gone and with it a branch that is not prepared; the handles
\* stay in their tables.
SessionsEnd(cs) ==
    /\ connState' = [c \in Conns |-> IF c \in cs THEN "Closed" ELSE connState[c]]
    /\ rm' = [x \in Xids |-> IF \E c \in cs : session[c] = x THEN "RolledBack" ELSE rm[x]]
    /\ session' = [c \in Conns |-> IF c \in cs THEN None ELSE session[c]]
    /\ UNCHANGED <<engine, autocommit>>

\* Mutant: odbc_disconnect rolls back the prepared branches of the connection too.
DisconnectRollsBackPrepared(c) ==
    LET mine == {id \in DOMAIN xaPrepared : xaPrepared[id].conn = c} IN
    /\ connState[c] = "Open"
    /\ connState' = [connState EXCEPT ![c] = "Closed"]
    /\ rm' = [x \in Xids |-> IF session[c] = x \/ \E id \in mine : xaPrepared[id].xid = x
                            THEN "RolledBack" ELSE rm[x]]
    /\ session' = [session EXCEPT ![c] = None]
    /\ xaPrepared' = Restrict(xaPrepared, DOMAIN xaPrepared \ mine)
    /\ UNCHANGED <<engine, autocommit, xaActive, xaPreparing, nextXaId, asked, startFailed>>

\* odbc_disconnect.
Disconnect(c) ==
    /\ connState[c] = "Open"
    /\ SessionsEnd({c})
    /\ UNCHANGED <<tableVars, asked, startFailed>>

\* The process dies: no session and no handle is left, and MSDTC aborts what
\* the process had not committed.
Crash ==
    LET open == {c \in Conns : connState[c] = "Open"} IN
    /\ open # {}
    /\ connState' = [c \in Conns |-> IF c \in open THEN "Closed" ELSE connState[c]]
    /\ rm' = [x \in Xids |->
                 IF \/ \E c \in open : session[c] = x
                    \/ engine = "SqlServer" /\ rm[x] = "Idle"
                 THEN "RolledBack" ELSE rm[x]]
    /\ session' = [c \in Conns |-> None]
    /\ xaActive' = NoHandles /\ xaPreparing' = NoHandles /\ xaPrepared' = NoHandles
    /\ UNCHANGED <<engine, autocommit, nextXaId, asked, startFailed>>

\* odbc_xa_start.  Callers use a connection for one branch at a time and an xid
\* once.
XaStart(c, x, ok) ==
    /\ connState[c] = "Open" /\ nextXaId <= MaxXaIds
    /\ rm[x] = "None" /\ \A h \in AllHandles : h.conn # c
    /\ TransactionStart(c, x, ok)
    /\ IF ok
       THEN /\ xaActive' = Put(xaActive, nextXaId, [conn |-> c, xid |-> x])
            /\ nextXaId' = nextXaId + 1
            /\ UNCHANGED startFailed
       ELSE /\ startFailed' = startFailed \cup {c}
            /\ UNCHANGED <<xaActive, nextXaId>>
    /\ UNCHANGED <<xaPreparing, xaPrepared, connState, asked>>

\* Mutant: the handle moves on although the branch was not ended.
XaEndAnyway(id, ok) ==
    /\ id \in DOMAIN xaActive
    /\ xaActive' = Drop(xaActive, id)
    /\ xaPreparing' = Put(xaPreparing, id, xaActive[id])
    /\ TransactionEnd(xaActive[id], ok)
    /\ UNCHANGED <<xaPrepared, nextXaId, connState, asked, startFailed>>

\* odbc_xa_end.
XaEnd(id, ok) ==
    /\ id \in DOMAIN xaActive
    /\ xaActive' = Drop(xaActive, id)
    /\ TransactionEnd(xaActive[id], ok)
    /\ xaPreparing' = IF ok THEN Put(xaPreparing, id, xaActive[id]) ELSE xaPreparing
    /\ UNCHANGED <<xaPrepared, nextXaId, connState, asked, startFailed>>

\* odbc_xa_prepare.
XaPrepare(id, ok) ==
    /\ id \in DOMAIN xaPreparing
    /\ xaPreparing' = Drop(xaPreparing, id)
    /\ PreparingPrepare(xaPreparing[id], ok)
    /\ xaPrepared' = IF ok THEN Put(xaPrepared, id, xaPreparing[id]) ELSE xaPrepared
    /\ UNCHANGED <<xaActive, nextXaId, connState, asked, startFailed>>

\* Phase two.  The handle is spent whatever the answer is.
PhaseTwo(id, ok, statement, st) ==
    /\ id \in DOMAIN xaPrepared
    /\ xaPrepared' = Drop(xaPrepared, id)
    /\ PreparedPhaseTwo(xaPrepared[id], ok, statement, st)
    /\ UNCHANGED <<xaActive, xaPreparing, nextXaId, connState, startFailed>>

\* odbc_xa_commit_prepared.
XaCommitPrepared(id, ok) ==
    /\ PhaseTwo(id, ok, "commit", "Committed")
    /\ asked' = asked \cup {xaPrepared[id].xid}

\* odbc_xa_rollback_prepared.
XaRollbackPrepared(id, ok) ==
    /\ PhaseTwo(id, ok, "rollback", "RolledBack")
    /\ UNCHANGED asked

\* odbc_xa_commit_one_phase.
XaCommitOnePhase(id, ok) ==
    /\ id \in DOMAIN xaActive
    /\ xaActive' = Drop(xaActive, id)
    /\ TransactionCommitOnePhase(xaActive[id], ok)
    /\ asked' = asked \cup {xaActive[id].xid}
    /\ UNCHANGED <<xaPreparing, xaPrepared, nextXaId, connState, startFailed>>

\* odbc_xa_rollback_active.
XaRollbackActive(id, ok) ==
    /\ id \in DOMAIN xaActive
    /\ xaActive' = Drop(xaActive, id)
    /\ TransactionRollback(xaActive[id], ok)
    /\ UNCHANGED <<xaPreparing, xaPrepared, nextXaId, connState, asked, startFailed>>

\* odbc_xa_recover_count and odbc_xa_recover_get list the prepared branches; how
\* they are named and read back is the subject of XaRecovery.
Recovered == {x \in Xids : rm[x] = "Prepared"}

\* odbc_xa_resume_prepared, for a branch no handle is left of.
XaResumePrepared(c, x) ==
    /\ connState[c] = "Open" /\ nextXaId <= MaxXaIds
    /\ x \in Recovered /\ \A h \in AllHandles : h.xid # x /\ h.conn # c
    /\ xaPrepared' = Put(xaPrepared, nextXaId, [conn |-> c, xid |-> x])
    /\ nextXaId' = nextXaId + 1
    /\ UNCHANGED <<rmVars, xaActive, xaPreparing, connState, asked, startFailed>>

XaCall(id, ok) ==
    \/ XaEnd(id, ok) \/ XaPrepare(id, ok) \/ XaCommitPrepared(id, ok)
    \/ XaRollbackPrepared(id, ok) \/ XaCommitOnePhase(id, ok) \/ XaRollbackActive(id, ok)

Next ==
    \/ \E c \in Conns : Connect(c) \/ Disconnect(c)
    \/ Crash
    \/ \E c \in Conns, x \in Xids, ok \in BOOLEAN : XaStart(c, x, ok)
    \/ \E id \in XaIds, ok \in BOOLEAN : XaCall(id, ok)
    \/ \E c \in Conns, x \in Xids : XaResumePrepared(c, x)

Spec == Init /\ [][Next]_vars
-----------------------------------------------------------------------------
(* Properties.                                                             *)

\* A handle knows what its branch is doing: while its connection is open, the
\* table it is in tells the state of the branch at the resource manager, and no
\* branch has two handles.  A connection without a handle and without a branch is
\* back in autocommit, unless an xa_start failed on it.
HandlesTrackBranches ==
    /\ \A id \in DOMAIN xaActive : LET h == xaActive[id] IN
          Reachable(h) => rm[h.xid] = "Active" /\ session[h.conn] = h.xid
    /\ \A id \in DOMAIN xaPreparing : LET h == xaPreparing[id] IN
          Reachable(h) => rm[h.xid] = IF engine = "Postgres" THEN "Active" ELSE "Idle"
    /\ \A id \in DOMAIN xaPrepared : rm[xaPrepared[id].xid] \in
          IF engine = "SqlServer" THEN {"Idle"} ELSE {"Prepared", "ReadOnly"}
    /\ \A i \in DOMAIN xaPrepared, j \in DOMAIN xaPrepared :
          xaPrepared[i].xid = xaPrepared[j].xid => i = j
    /\ \A c \in Conns \ startFailed :
          connState[c] = "Open" /\ session[c] = None /\ (\A h \in AllHandles : h.conn # c)
          => autocommit[c]

\* No branch is committed that nobody asked to commit: not by a rollback, by a
\* dropped handle, by restoring autocommit, by a disconnect or by a crash.
OnlyAskedCommits == \A x \in Xids : rm[x] = "Committed" => x \in asked

\* A prepared branch stays prepared, across disconnects and crashes, until a
\* handle of it is spent on phase two (commit_prepared, rollback_prepared).
PreparedIsStable ==
    [][\A x \in Xids : rm[x] = "Prepared" /\ rm'[x] # "Prepared" =>
          /\ connState' = connState
          /\ \E id \in DOMAIN xaPrepared :
                xaPrepared[id].xid = x /\ id \notin DOMAIN xaPrepared']_vars

=============================================================================
