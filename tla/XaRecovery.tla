----------------------------- MODULE XaRecovery -----------------------------
(***************************************************************************)
(* Recovery of prepared XA branches.  Workers of a transaction manager     *)
(* list the prepared branches of a resource manager, resume those of their *)
(* format id and finish them as the manager's log says, while branches are *)
(* still being prepared, other clients keep prepared branches on the same  *)
(* server, an administrator forces a branch, workers crash and answers are *)
(* lost.                                                                   *)
(*                                                                         *)
(* The life of a branch up to its prepare is the subject of XaBranches.    *)
(* Here a branch appears when it is prepared, its outcome logged.          *)
(***************************************************************************)
EXTENDS XaIdentifiers

CONSTANTS
    Workers,        \* threads that recover
    Inputs,         \* components callers make Xids of, valid or not
    OurFormat,      \* the transaction manager's format id
    Others,         \* engine -> names other clients use at its server
    MaxBranches,    \* bound: branches prepared, others' included
    MaxFaults       \* bound: crashes and lost answers

VARIABLES
    engine,         \* the kind of the resource manager
    rm,             \* name -> "Prepared", "Committed", "RolledBack" or "Forced"
    owner,          \* name -> the Xid it was prepared for, None of another client
    toCommit,       \* the log: Xids to commit; the others are rolled back
    list,           \* worker -> Xids still to be looked at
    handle,         \* worker -> the Xid of its PreparedXa
    told,           \* Xids whose commit was answered with success
    faults          \* crashes and lost answers so far

vars == <<engine, rm, owner, toCommit, list, handle, told, faults>>

Init ==
    /\ engine \in Engines
    /\ rm = <<>> /\ owner = <<>>
    /\ toCommit = {} /\ told = {}
    /\ list = [w \in Workers |-> {}]
    /\ handle = [w \in Workers |-> None]
    /\ faults = 0

\* Every Xid there can be: of the inputs, and read from other clients' names.
Xids ==
    ({XidNew(OurFormat, in.gtrid, in.bqual) : in \in Inputs} \ {None}) \cup
    UNION {apply_xa_recover(e, Others[e]) : e \in Engines}

\* The conversions, tabulated: the name of an Xid, and what is read from a name.
NameTable == [e \in Engines |-> [x \in Xids |-> ServerName(e, x)]]
ListTable == [e \in Engines |->
    [n \in Range(NameTable[e]) \cup Others[e] |-> apply_xa_recover(e, {n})]]

NameOf(x) == NameTable[engine][x]

Names(state) == {n \in DOMAIN rm : rm[n] = state}

Keep(n, x) ==
    /\ n \notin DOMAIN rm /\ Cardinality(DOMAIN rm) < MaxBranches
    /\ rm' = [m \in DOMAIN rm \cup {n} |-> IF m = n THEN "Prepared" ELSE rm[m]]
    /\ owner' = [m \in DOMAIN rm \cup {n} |-> IF m = n THEN x ELSE owner[m]]

\* Components become an Xid, the server takes its name, the branch is prepared
\* and its outcome logged.
Prepare(in, commit) ==
    LET x == XidNew(OurFormat, in.gtrid, in.bqual)
        n == NameOf(x)
    IN  /\ x # None /\ NameFits(engine, n)
        /\ Keep(n, x)
        /\ toCommit' = IF commit THEN toCommit \cup {x} ELSE toCommit
        /\ UNCHANGED <<engine, list, handle, told, faults>>

OtherPrepares(n) ==
    /\ Keep(n, None)
    /\ UNCHANGED <<engine, toCommit, list, handle, told, faults>>

\* An administrator rolls a branch back by force.
Force(n) ==
    /\ rm[n] = "Prepared" /\ owner[n] # None
    /\ rm' = [rm EXCEPT ![n] = "Forced"]
    /\ UNCHANGED <<engine, owner, toCommit, list, handle, told, faults>>
-----------------------------------------------------------------------------
\* Every Xid that apply_xa_recover reads back from the names of the server.
recover_prepared_xids == UNION {ListTable[engine][n] : n \in Names("Prepared")}

\* odbc_xa_recover_count and the calls of odbc_xa_recover_get that follow it.
Recover(w) ==
    /\ list[w] = {} /\ handle[w] = None
    /\ list' = [list EXCEPT ![w] = recover_prepared_xids]
    /\ UNCHANGED <<engine, rm, owner, toCommit, handle, told, faults>>

\* odbc_xa_resume_prepared asks the server nothing.
resume_prepared(w, x) ==
    /\ x \in list[w] /\ handle[w] = None
    /\ handle' = [handle EXCEPT ![w] =
           IF x.format = OurFormat THEN XidNew(x.format, x.gtrid, x.bqual) ELSE None]
    /\ list' = [list EXCEPT ![w] = @ \ {x}]
    /\ UNCHANGED <<engine, rm, owner, toCommit, told, faults>>

\* The return code of the server for phase two of a branch.  Only Oracle
\* remembers that a branch was forced.
PhaseTwoCode(n) ==
    CASE n \in Names("Prepared") -> "XA_OK"
      [] engine = "Oracle" /\ n \in Names("Forced") -> "XA_HEURRB"
      [] OTHER -> "XAER_NOTA"

\* Mutant: the block sent to Oracle forgives heuristic outcomes as well.
AllowedHeuristics == {"XA_OK"} \cup IF engine = "Oracle" THEN {"XAER_NOTA", "XA_HEURRB"} ELSE {}

\* oracle_xa_block lets XAER_NOTA pass; the other engines' statements fail.
AllowedCodes == {"XA_OK"} \cup IF engine = "Oracle" THEN {"XAER_NOTA"} ELSE {}

\* PreparedXa::commit and PreparedXa::rollback; the answer may get lost.
PhaseTwo(w, answered) ==
    LET x == handle[w]
        n == NameOf(x)
        code == PhaseTwoCode(n)
        commit == x \in toCommit
    IN  /\ x # None
        /\ answered \/ faults < MaxFaults
        /\ handle' = [handle EXCEPT ![w] = None]
        /\ rm' = IF code = "XA_OK"
                 THEN [rm EXCEPT ![n] = IF commit THEN "Committed" ELSE "RolledBack"]
                 ELSE rm
        /\ told' = IF commit /\ answered /\ code \in AllowedCodes THEN told \cup {x} ELSE told
        /\ faults' = IF answered THEN faults ELSE faults + 1
        /\ UNCHANGED <<engine, owner, toCommit, list>>

\* A worker's process dies and is started again.
Crash(w) ==
    /\ faults < MaxFaults
    /\ list' = [list EXCEPT ![w] = {}]
    /\ handle' = [handle EXCEPT ![w] = None]
    /\ faults' = faults + 1
    /\ UNCHANGED <<engine, rm, owner, toCommit, told>>

WorkerStep(w) ==
    Recover(w) \/ (\E x \in list[w] : resume_prepared(w, x)) \/ PhaseTwo(w, TRUE)

Next ==
    \/ \E in \in Inputs, commit \in BOOLEAN : Prepare(in, commit)
    \/ \E n \in Others[engine] : OtherPrepares(n)
    \/ \E n \in DOMAIN rm : Force(n)
    \/ \E w \in Workers : WorkerStep(w) \/ PhaseTwo(w, FALSE) \/ Crash(w)

\* A transaction manager keeps recovering as long as it is up.
Spec == Init /\ [][Next]_vars /\ \A w \in Workers : WF_vars(WorkerStep(w))
-----------------------------------------------------------------------------
(* Properties.                                                             *)

\* Recovery finishes a branch as the log says of that branch, whatever other
\* branch shares its global id and whatever workers overlap, and it leaves
\* other clients' branches alone: what is read from the list (decode_*) and
\* named in phase two (encode_*) is the branch that was prepared.
ResolvedAsDecided ==
    \A n \in DOMAIN rm :
        /\ owner[n] = None => rm[n] = "Prepared"
        /\ rm[n] = "Committed" => owner[n] \in toCommit
        /\ rm[n] = "RolledBack" => owner[n] \notin toCommit

\* A commit that is answered with success has committed the branch, although a
\* worker may come second, after another worker or an administrator
\* (PreparedXa::commit: "Returns success only when the engine confirmed").
CommitAnswerIsTrue ==
    \A x \in told : NameOf(x) \in Names("Committed")

\* No branch stays in doubt: every branch that was prepared is found by a sweep
\* and finished, or has been forced (recover_prepared_xids lists "every XID
\* currently in the Prepared state").
InDoubtResolved ==
    \A x \in Xids : NameOf(x) \in Names("Prepared") ~> NameOf(x) \notin Names("Prepared")
=============================================================================
