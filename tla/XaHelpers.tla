------------------------------ MODULE XaHelpers ------------------------------
(***************************************************************************)
(* The Dart helpers that drive an XA branch from start to phase two:       *)
(* XaTransactionHandle.runWithStart, runWithStartOnePhase and the          *)
(* service's runInXaTransaction, over the native tables of XaBranches.     *)
(* One helper runs beside callers that use the native calls themselves on  *)
(* handles of their own; a disconnect or a crash may come between any two  *)
(* of its steps.                                                           *)
(***************************************************************************)
EXTENDS XaBranches

VARIABLE helper     \* the run of the helper: kind, phase, handle and cached state

Kinds == {"runWithStart", "runWithStartOnePhase",
          "runInXaTransaction", "runInXaTransactionOnePhase"}
Phases == {"Action", "End", "Prepare", "CommitPrepared", "CommitOnePhase",
           "Abort", "Undo", "Success", "Failure"}
DartStates == {"active", "idle", "prepared", "committed", "rolledBack", "failed"}
Runs == [kind : Kinds, phase : Phases, id : XaIds, xid : Xids, state : DartStates]

XTypeOK == TypeOK /\ (helper = None \/ helper \in Runs)

XInit == Init /\ helper = None

Running == helper # None /\ helper.phase \notin {"Success", "Failure"}

HelpersHandle == IF helper = None THEN {} ELSE {helper.id}

\* Whether a failed step of the native lifecycle ends in the abort path:
\* runInXaTransaction returns its Failure without it.
AbortsOnRefusal(kind) == kind \in {"runWithStart", "runWithStartOnePhase"}

OnePhase(kind) == kind \in {"runWithStartOnePhase", "runInXaTransactionOnePhase"}

Goes(phase, state) == helper' = [helper EXCEPT !.phase = phase, !.state = state]

\* A native call with the helper's id: refused if the id is not in the table.
Calls(table, Op(_, _), ok) ==
    IF helper.id \in DOMAIN table THEN Op(helper.id, ok) ELSE ok = FALSE /\ UNCHANGED vars

AfterRefusal == IF AbortsOnRefusal(helper.kind) THEN "Abort" ELSE "Failure"

\* startFn: a helper whose xa_start fails has nothing to drive.
HStart(kind, c, x) ==
    /\ helper = None
    /\ \/ /\ XaStart(c, x, TRUE)
          /\ helper' = [kind |-> kind, phase |-> "Action", id |-> nextXaId, xid |-> x, state |-> "active"]
       \/ XaStart(c, x, FALSE) /\ UNCHANGED helper

\* The action returns, or it throws or returns a Failure.
HActionEnds(succeeds) ==
    /\ Running /\ helper.phase = "Action"
    /\ Goes(CASE ~succeeds -> "Abort"
              [] succeeds /\ OnePhase(helper.kind) -> "CommitOnePhase"
              [] OTHER -> "End", helper.state)
    /\ UNCHANGED vars

\* One step of the lifecycle: if the call is refused the helper aborts or fails.
HStep(phase, table, Op(_, _), next, state) ==
    /\ Running /\ helper.phase = phase
    /\ \E ok \in BOOLEAN :
          /\ Calls(table, Op, ok)
          /\ IF ok THEN Goes(next, state) ELSE Goes(AfterRefusal, "failed")

HEnd == HStep("End", xaActive, XaEnd, "Prepare", "idle")

HPrepare == HStep("Prepare", xaPreparing, XaPrepare, "CommitPrepared", "prepared")

\* Mutant: the answer of xa_commit_prepared is not looked at.
HCommitPreparedUnchecked ==
    /\ Running /\ helper.phase = "CommitPrepared"
    /\ \E ok \in BOOLEAN : Calls(xaPrepared, XaCommitPrepared, ok)
    /\ Goes("Success", "committed")

HCommitPrepared ==
    HStep("CommitPrepared", xaPrepared, XaCommitPrepared, "Success", "committed")

HCommitOnePhase ==
    HStep("CommitOnePhase", xaActive, XaCommitOnePhase, "Success", "committed")

\* The abort path: end the branch if it is still active ...
HAbort ==
    /\ Running /\ helper.phase = "Abort"
    /\ IF helper.state = "active"
       THEN \E ok \in BOOLEAN :
               Calls(xaActive, XaEnd, ok) /\ Goes("Undo", IF ok THEN "idle" ELSE "failed")
       ELSE Goes("Undo", helper.state) /\ UNCHANGED vars

\* ... then roll it back according to the cached state, which is idle or failed
\* by now: xa.rollback() is odbc_xa_rollback_active.
HUndo ==
    /\ Running /\ helper.phase = "Undo"
    /\ \E ok \in BOOLEAN :
          /\ IF helper.state = "prepared"
             THEN Calls(xaPrepared, XaRollbackPrepared, ok)
             ELSE Calls(xaActive, XaRollbackActive, ok)
          /\ Goes("Failure", IF ok THEN "rolledBack" ELSE "failed")

HelperNext ==
    \/ \E kind \in Kinds, c \in Conns, x \in Xids : HStart(kind, c, x)
    \/ \E succeeds \in BOOLEAN : HActionEnds(succeeds)
    \/ HEnd \/ HPrepare \/ HCommitPrepared \/ HCommitOnePhase
    \/ HAbort \/ HUndo

\* The other callers keep to handles of their own; a crash ends the helper.
Others ==
    \/ /\ \/ \E c \in Conns : Connect(c) \/ Disconnect(c)
          \/ \E c \in Conns, x \in Xids, ok \in BOOLEAN : XaStart(c, x, ok)
          \/ \E id \in XaIds \ HelpersHandle, ok \in BOOLEAN : XaCall(id, ok)
          \/ \E c \in Conns, x \in Xids : XaResumePrepared(c, x)
       /\ UNCHANGED helper
    \/ Crash /\ helper' = None

XNext == HelperNext \/ Others

XSpec == XInit /\ [][XNext]_<<vars, helper>>
-----------------------------------------------------------------------------
\* A helper that reports success has committed the branch (or had nothing to
\* commit): runWithStart, runWithStartOnePhase and runInXaTransaction never
\* return the action's value for a branch that can still be rolled back.
XaSuccessIsCommitted ==
    helper # None /\ helper.phase = "Success" => rm[helper.xid] \in {"Committed", "ReadOnly"}

\* A helper that has returned leaves no branch behind in the native tables
\* (runWithStart: "without leaking branches on early returns / exceptions").
NoBranchLeaked ==
    helper # None /\ ~Running =>
        helper.id \notin DOMAIN xaActive \cup DOMAIN xaPreparing \cup DOMAIN xaPrepared
=============================================================================
