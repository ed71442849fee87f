----------------------------- MODULE XaInvariant -----------------------------
(***************************************************************************)
(* The inductive invariant of XaBranches, and that the calls with a handle *)
(* keep it, for any number of connections, branches and handles and        *)
(* whatever the resource manager refuses.                                  *)
(***************************************************************************)
EXTENDS XaBranches, TLAPS

Ids == DOMAIN xaActive \cup DOMAIN xaPreparing \cup DOMAIN xaPrepared

\* The handle with an id, in whichever table it is.
Handle(id) ==
    CASE id \in DOMAIN xaActive -> xaActive[id]
      [] id \in DOMAIN xaPreparing -> xaPreparing[id]
      [] OTHER -> xaPrepared[id]

\* An id is in one table; no two handles share a branch or a connection.
IdInv ==
    /\ \A id \in Ids : id < nextXaId
    /\ DOMAIN xaActive \cap DOMAIN xaPreparing = {}
    /\ DOMAIN xaActive \cap DOMAIN xaPrepared = {}
    /\ DOMAIN xaPreparing \cap DOMAIN xaPrepared = {}
    /\ \A i, j \in Ids :
          Handle(i).xid = Handle(j).xid \/ Handle(i).conn = Handle(j).conn => i = j

\* What branch x is doing while a handle on connection c is in xa_active, in
\* xa_preparing and in xa_prepared.
ActiveBranch(c, x) ==
    IF connState[c] = "Open" THEN rm[x] = "Active" /\ session[c] = x
                             ELSE rm[x] = "RolledBack"

PreparingBranch(c, x) ==
    IF connState[c] = "Open"
    THEN /\ rm[x] = IF engine = "Postgres" THEN "Active" ELSE "Idle"
         /\ session[c] = IF engine \in {"MySQL", "Postgres"} THEN x ELSE None
    ELSE rm[x] \in IF engine = "SqlServer" THEN {"Idle"} ELSE {"Idle", "RolledBack"}

PreparedBranch(x) ==
    rm[x] \in IF engine = "SqlServer" THEN {"Idle"} ELSE {"Prepared", "ReadOnly"}

HandleInv(id) ==
    LET h == Handle(id) IN
    /\ connState[h.conn] # "New"
    /\ id \in DOMAIN xaActive => ActiveBranch(h.conn, h.xid)
    /\ id \in DOMAIN xaPreparing => PreparingBranch(h.conn, h.xid)
    /\ id \in DOMAIN xaPrepared => PreparedBranch(h.xid)

\* A session in a branch is open, the branch is neither prepared nor over, and
\* a handle of the branch is on that connection.
SessionInv(c) ==
    /\ session[c] # None =>
          /\ connState[c] = "Open"
          /\ rm[session[c]] \in {"Active", "Idle"}
          /\ \A d \in Conns : session[d] = session[c] => d = c
          /\ \A id \in Ids : Handle(id).xid = session[c] => Handle(id).conn = c
          /\ engine = "SqlServer" => \E id \in DOMAIN xaActive : xaActive[id].conn = c
    /\ /\ c \notin startFailed /\ connState[c] # "Closed" /\ session[c] = None
       /\ \A id \in DOMAIN xaActive \cup DOMAIN xaPreparing : Handle(id).conn # c
       => autocommit[c]

\* MSDTC is not told to prepare.
DtcInv == engine = "SqlServer" => \A x \in Xids : rm[x] # "Prepared"

IInv ==
    /\ TypeOK /\ IdInv /\ DtcInv
    /\ \A id \in Ids : HandleInv(id)
    /\ \A c \in Conns : SessionInv(c)
-----------------------------------------------------------------------------
LEMMA InitIInv == Init => IInv
<1> SUFFICES ASSUME Init PROVE IInv
  OBVIOUS
<1>1. Ids = {} /\ DOMAIN NoHandles = {} /\ NoHandles \in [{} -> Handles]
  BY DEF Ids, Init, NoHandles
<1>2. TypeOK
  BY <1>1, MaxXaIdsAssumption DEF Init, TypeOK, TableTypeOK, BranchStates
<1>3. IdInv
  BY <1>1 DEF Init, IdInv
<1>4. \A c \in Conns : SessionInv(c)
  BY <1>1 DEF Init, SessionInv
<1>5. DtcInv
  BY DEF Init, DtcInv
<1> QED
  BY <1>1, <1>2, <1>3, <1>4, <1>5 DEF IInv

\* The handles in the tables.
LEMMA HandleTypes ==
  ASSUME IInv, NEW id \in Ids
  PROVE  /\ id \in XaIds /\ Handle(id) \in Handles
         /\ Handle(id).conn \in Conns /\ Handle(id).xid \in Xids
         /\ id \in DOMAIN xaActive => Handle(id) = xaActive[id]
         /\ id \in DOMAIN xaPreparing => Handle(id) = xaPreparing[id]
         /\ id \in DOMAIN xaPrepared => Handle(id) = xaPrepared[id]
<1>1. /\ id \in DOMAIN xaActive => Handle(id) = xaActive[id]
      /\ id \in DOMAIN xaPreparing => Handle(id) = xaPreparing[id]
      /\ id \in DOMAIN xaPrepared => Handle(id) = xaPrepared[id]
  BY DEF IInv, IdInv, Handle
<1>2. id \in XaIds /\ Handle(id) \in Handles
  BY <1>1 DEF IInv, TypeOK, TableTypeOK, Ids
<1> QED
  BY <1>1, <1>2 DEF Handles

\* Handle id moves to another table or out of the tables; the others stay.
TableStep(id) ==
    /\ Ids' \subseteq Ids
    /\ \A i \in Ids \ {id} :
          /\ i \in DOMAIN xaActive' <=> i \in DOMAIN xaActive
          /\ i \in DOMAIN xaPreparing' <=> i \in DOMAIN xaPreparing
          /\ i \in DOMAIN xaPrepared' <=> i \in DOMAIN xaPrepared
    /\ ~(id \in DOMAIN xaActive' /\ id \in DOMAIN xaPreparing')
    /\ ~(id \in DOMAIN xaActive' /\ id \in DOMAIN xaPrepared')
    /\ ~(id \in DOMAIN xaPreparing' /\ id \in DOMAIN xaPrepared')
    /\ \A i \in DOMAIN xaActive' : xaActive'[i] = Handle(i)
    /\ \A i \in DOMAIN xaPreparing' : xaPreparing'[i] = Handle(i)
    /\ \A i \in DOMAIN xaPrepared' : xaPrepared'[i] = Handle(i)
    /\ nextXaId' = nextXaId
    /\ TableTypeOK(xaActive)' /\ TableTypeOK(xaPreparing)' /\ TableTypeOK(xaPrepared)'

\* Nothing else than branch x and connection c changes.
RmStep(c, x) ==
    /\ engine' = engine /\ connState' = connState /\ startFailed' = startFailed
    /\ rm' \in [Xids -> BranchStates] /\ \A y \in Xids \ {x} : rm'[y] = rm[y]
    /\ session' \in [Conns -> Xids \cup {None}]
    /\ autocommit' \in [Conns -> BOOLEAN]
    /\ \A d \in Conns \ {c} : session'[d] = session[d] /\ autocommit'[d] = autocommit[d]
    /\ session'[c] \in {None, x, session[c]}
    /\ engine = "SqlServer" => rm'[x] # "Prepared"

LEMMA TableStepKeeps ==
  ASSUME IInv, NEW id \in Ids, TableStep(id)
  PROVE  IdInv' /\ \A i \in Ids' : Handle(i)' = Handle(i)
<1>1. \A i \in Ids' : Handle(i)' = Handle(i)
  BY DEF TableStep, Handle, Ids
<1>2. /\ (DOMAIN xaActive \cap DOMAIN xaPreparing)' = {}
      /\ (DOMAIN xaActive \cap DOMAIN xaPrepared)' = {}
      /\ (DOMAIN xaPreparing \cap DOMAIN xaPrepared)' = {}
  BY DEF TableStep, IInv, IdInv, Ids
<1>3. \A i, j \in Ids' :
         Handle(i)'.xid = Handle(j)'.xid \/ Handle(i)'.conn = Handle(j)'.conn => i = j
  BY <1>1 DEF TableStep, IInv, IdInv
<1>4. \A i \in Ids' : i < nextXaId'
  BY DEF TableStep, IInv, IdInv
<1> QED
  BY <1>1, <1>2, <1>3, <1>4 DEF IdInv

\* A call with handle id keeps the invariant if it leaves the handle, if any,
\* and its connection as they must be.
LEMMA HandleStep ==
  ASSUME IInv, NEW id \in Ids, TableStep(id), asked' \subseteq Xids,
         NEW c \in Conns, NEW x \in Xids, Handle(id).conn = c, Handle(id).xid = x,
         RmStep(c, x), id \in Ids' => HandleInv(id)', SessionInv(c)'
  PROVE  IInv'
<1>1. TypeOK' /\ IdInv' /\ \A i \in Ids' : Handle(i)' = Handle(i) /\ i \in Ids
  BY TableStepKeeps DEF TableStep, RmStep, IInv, TypeOK
<1>2. ASSUME NEW i \in Ids', i # id PROVE HandleInv(i)'
  <2>1. /\ Handle(i)' = Handle(i) /\ HandleInv(i) /\ i \in Ids
        /\ i \in DOMAIN xaActive' <=> i \in DOMAIN xaActive
        /\ i \in DOMAIN xaPreparing' <=> i \in DOMAIN xaPreparing
        /\ i \in DOMAIN xaPrepared' <=> i \in DOMAIN xaPrepared
    BY <1>1, <1>2 DEF IInv, TableStep
  <2>2. PICK d \in Conns, y \in Xids : Handle(i).conn = d /\ Handle(i).xid = y
    BY <2>1, HandleTypes
  <2>3. d # c /\ y # x
    BY <1>2, <2>1, <2>2 DEF IInv, IdInv
  <2>4. /\ rm'[y] = rm[y] /\ session'[d] = session[d]
        /\ engine' = engine /\ connState' = connState
    BY <2>3 DEF RmStep
  <2> QED
    BY <2>1, <2>2, <2>4 DEF HandleInv, ActiveBranch, PreparingBranch, PreparedBranch
<1>3. ASSUME NEW d \in Conns, d # c PROVE SessionInv(d)'
  <2>1. SessionInv(d) /\ SessionInv(c) /\ session'[d] = session[d]
        /\ autocommit'[d] = autocommit[d] /\ session'[c] \in {None, x, session[c]}
        /\ engine' = engine /\ connState' = connState /\ startFailed' = startFailed
        /\ \A y \in Xids \ {x} : rm'[y] = rm[y]
        /\ \A e \in Conns \ {c} : session'[e] = session[e]
    BY <1>3 DEF IInv, RmStep
  <2>2. session[d] # x
    BY <1>3, <2>1, NoneAssumption DEF SessionInv
  <2>3. session[d] # None => session[d] \in Xids
    BY DEF IInv, TypeOK
  <2>4. ASSUME session'[d] # None
        PROVE  /\ connState'[d] = "Open" /\ rm'[session'[d]] \in {"Active", "Idle"}
               /\ \A e \in Conns : session'[e] = session'[d] => e = d
               /\ \A i \in Ids' : Handle(i)'.xid = session'[d] => Handle(i)'.conn = d
    BY <1>1, <1>3, <2>1, <2>2, <2>3, <2>4 DEF SessionInv
  <2>5. ASSUME session'[d] # None, engine' = "SqlServer"
        PROVE  \E i \in DOMAIN xaActive' : xaActive'[i].conn = d
    <3>1. PICK i \in DOMAIN xaActive : xaActive[i].conn = d
      BY <2>1, <2>5 DEF SessionInv
    <3>2. i \in Ids /\ Handle(i) = xaActive[i]
      BY HandleTypes DEF Ids
    <3> QED
      BY <1>3, <3>1, <3>2 DEF TableStep
  <2>6. ASSUME d \notin startFailed', connState'[d] # "Closed", session'[d] = None,
               \A i \in (DOMAIN xaActive \cup DOMAIN xaPreparing)' : Handle(i)'.conn # d
        PROVE  autocommit'[d]
    <3>1. ASSUME NEW i \in DOMAIN xaActive \cup DOMAIN xaPreparing PROVE Handle(i).conn # d
      BY <1>1, <1>3, <2>6 DEF TableStep, Ids
    <3> QED
      BY <2>1, <2>6, <3>1 DEF SessionInv
  <2> QED
    BY <2>4, <2>5, <2>6 DEF SessionInv
<1>4. DtcInv'
  BY DEF IInv, DtcInv, RmStep
<1> QED
  BY <1>1, <1>2, <1>3, <1>4 DEF IInv
-----------------------------------------------------------------------------
(* What the resource manager can answer.                                   *)

LEMMA YesIs ==
  \A st, in : \A r \in Yes(st, in) : r.ok = TRUE /\ r.b.st = st /\ r.b.in = in
BY DEF Yes

LEMMA NoIs ==
  \A b : \A r \in No(b) : r.ok = FALSE /\ r.b = b
BY DEF No

LEMMA MayFailIs ==
  \A statement, b : \A r \in MayFail(statement, b) :
     r.ok = FALSE /\ r.b = b /\ statement \in RmFaults
BY DEF MayFail, No

\* The end of an active branch b.
Ended(x, b, r) ==
    \/ /\ r.ok = TRUE
       /\ r.b.st = IF engine = "Postgres" THEN "Active" ELSE "Idle"
       /\ r.b.in = IF engine \in {"MySQL", "Postgres"} THEN x ELSE None
    \/ r.ok = FALSE /\ r.b = b /\ engine # "Postgres"

LEMMA EndIs ==
  ASSUME TypeOK, NEW x \in Xids, NEW b, b.st = "Active", b.in = x, NEW r \in RmEnd(x, b)
  PROVE  Ended(x, b, r)
<1> USE DEF Ended
<1>1. CASE engine = "Postgres"
  <2>1. r \in Yes(b.st, b.in)
    BY <1>1 DEF RmEnd
  <2> QED
    BY <1>1, <2>1, YesIs
<1>2. CASE engine = "SqlServer"
  <2>1. r \in Yes("Idle", None) \/ r \in MayFail("end", b)
    BY <1>2 DEF RmEnd, DtcUnenlist
  <2> QED
    BY <1>2, <2>1, YesIs, MayFailIs
<1>3. CASE engine \in {"MySQL", "Oracle"}
  <2>1. r \in Yes("Idle", IF engine = "Oracle" THEN None ELSE x) \/ r \in MayFail("end", b)
    BY <1>3 DEF RmEnd
  <2> QED
    BY <1>3, <2>1, YesIs, MayFailIs
<1> QED
  BY Zenon, <1>1, <1>2, <1>3 DEF TypeOK, Engines

\* The rollback of a branch that was not prepared: it is over, or left idle and
\* detached, or the session is still in it.
Undone(x, r) ==
    \/ r.b.in = None /\ r.b.st \in {"RolledBack", "Idle"}
    \/ /\ r.b.in = x /\ r.b.st \in {"Active", "Idle"} /\ engine # "SqlServer"
       /\ engine = "Postgres" => "plain_rollback" \in RmFaults

LEMMA RollbackIs ==
  ASSUME TypeOK, NEW x \in Xids, NEW b, b.st \in {"Active", "Idle"}, b.in \in {x, None},
         engine = "Postgres" => b.in = x,
         b.in = None => b.st = "Idle" /\ engine \in {"Oracle", "SqlServer"},
         NEW r \in RmRollback(x, b)
  PROVE  Undone(x, r)
<1> USE DEF Undone
<1>1. CASE engine = "SqlServer"
  <2>1. r \in Yes("RolledBack", None)
    <3>1. PICK a \in DtcAbort : r \in Yes(a.b.st, a.b.in)
      BY <1>1 DEF RmRollback
    <3>2. a \in Yes("RolledBack", None) \/ a \in MayFail("rollback", DtcDropped)
      BY DEF DtcAbort
    <3>3. a.b.st = "RolledBack" /\ a.b.in = None
      BY <3>2, YesIs, MayFailIs DEF DtcDropped
    <3> QED
      BY <3>1, <3>3
  <2> QED
    BY <1>1, <2>1, YesIs
<1>2. CASE engine = "Postgres"
  <2>1. r \in Yes("RolledBack", None) \/ r \in MayFail("plain_rollback", b)
    BY <1>2 DEF RmRollback
  <2> QED
    BY <1>2, <2>1, YesIs, MayFailIs
<1>3. CASE engine \in {"MySQL", "Oracle"}
  <2>1. r \in Yes("RolledBack", None) \/ r \in MayFail("rollback", b) \/ r \in No(b)
    BY <1>3 DEF RmRollback
  <2> QED
    BY <1>3, <2>1, YesIs, MayFailIs, NoIs
<1> QED
  BY <1>1, <1>2, <1>3 DEF TypeOK, Engines

\* End and rollback of an active branch.
LEMMA AbortIs ==
  ASSUME TypeOK, NEW x \in Xids, NEW b, b.st = "Active", b.in = x,
         NEW r \in AbortOutcomes(x, b)
  PROVE  Undone(x, r)
<1>1. PICK e \in RmEnd(x, b) : r \in RmRollback(x, e.b)
  BY DEF AbortOutcomes
<1>2. PICK a : a = e.b
  OBVIOUS
<1>3. \/ /\ a.st = IF engine = "Postgres" THEN "Active" ELSE "Idle"
         /\ a.in = IF engine \in {"MySQL", "Postgres"} THEN x ELSE None
      \/ a = b /\ engine # "Postgres"
  <2>1. Ended(x, b, e)
    BY <1>1, EndIs
  <2> QED
    BY <1>2, <2>1 DEF Ended
<1>4. /\ a.st \in {"Active", "Idle"} /\ a.in \in {x, None}
      /\ engine = "Postgres" => a.in = x
      /\ a.in = None => a.st = "Idle" /\ engine \in {"Oracle", "SqlServer"}
  BY <1>3, NoneAssumption DEF TypeOK, Engines
<1> QED
  BY <1>1, <1>2, <1>4, RollbackIs

\* The commit in one phase of a branch that was ended.
OnePhased(x, r) ==
    \/ r.ok = TRUE /\ r.b.in = None /\ r.b.st = "Committed"
    \/ r.ok = FALSE /\ r.b.in = None /\ r.b.st \in {"RolledBack", "Idle"}
    \/ r.ok = FALSE /\ r.b.in = x /\ r.b.st = "Idle" /\ engine = "MySQL"

LEMMA OnePhaseIs ==
  ASSUME TypeOK, NEW x \in Xids, NEW b,
         b.st = IF engine = "Postgres" THEN "Active" ELSE "Idle",
         b.in = IF engine \in {"MySQL", "Postgres"} THEN x ELSE None,
         NEW r \in RmCommitOnePhase(x, b)
  PROVE  OnePhased(x, r)
<1> USE DEF OnePhased
<1>1. CASE engine = "Postgres"
  <2>1. \/ r \in Yes("Committed", None)
        \/ r \in MayFail("commit", [st |-> "RolledBack", in |-> None])
    BY <1>1 DEF RmCommitOnePhase
  <2> QED
    BY <1>1, <2>1, YesIs, MayFailIs
<1>2. CASE engine = "SqlServer"
  <2>1. r \in Yes("Committed", b.in) \/ r \in MayFail("commit", DtcDropped)
    BY <1>2 DEF RmCommitOnePhase, DtcCommit
  <2> QED
    BY <1>2, <2>1, YesIs, MayFailIs DEF DtcDropped
<1>3. CASE engine \in {"MySQL", "Oracle"}
  <2>1. r \in Yes("Committed", None) \/ r \in MayFail("commit", b)
    BY <1>3 DEF RmCommitOnePhase
  <2> QED
    BY <1>3, <2>1, YesIs, MayFailIs
<1> QED
  BY Zenon, <1>1, <1>2, <1>3 DEF TypeOK, Engines

\* The prepare of a branch that was ended.
PrepareTried(x, r) ==
    \/ /\ r.ok = TRUE /\ r.b.in = None
       /\ r.b.st \in IF engine = "SqlServer" THEN {"Idle"} ELSE {"Prepared", "ReadOnly"}
    \/ r.ok = FALSE /\ r.b.in = None /\ r.b.st \in {"RolledBack", "Idle"}
    \/ r.ok = FALSE /\ r.b.in = x /\ r.b.st = "Idle" /\ engine = "MySQL"

LEMMA PrepareIs ==
  ASSUME TypeOK, NEW x \in Xids, NEW b,
         b.st = IF engine = "Postgres" THEN "Active" ELSE "Idle",
         b.in = IF engine \in {"MySQL", "Postgres"} THEN x ELSE None,
         NEW r \in RmPrepare(x, b)
  PROVE  PrepareTried(x, r)
<1> USE DEF PrepareTried
<1>1. CASE engine = "Postgres"
  <2>1. \/ r \in Yes("Prepared", None)
        \/ r \in MayFail("prepare", [st |-> "RolledBack", in |-> None])
    BY <1>1 DEF RmPrepare
  <2> QED
    BY <1>1, <2>1, YesIs, MayFailIs
<1>2. CASE engine = "SqlServer"
  <2>1. r \in Yes(b.st, b.in)
    BY <1>2 DEF RmPrepare
  <2> QED
    BY <1>2, <2>1, YesIs
<1>3. CASE engine \in {"MySQL", "Oracle"}
  <2>1. \/ r \in Yes("Prepared", None) \/ r \in MayFail("prepare", b)
        \/ engine = "Oracle" /\ r \in Yes("ReadOnly", b.in)
    BY <1>3 DEF RmPrepare
  <2> QED
    BY <1>3, <2>1, YesIs, MayFailIs
<1> QED
  BY Zenon, <1>1, <1>2, <1>3 DEF TypeOK, Engines

\* Phase two of branch b, statement commit or rollback; after a success it is in
\* state st.
Decided(st, b, r) ==
    /\ r.b.in = b.in /\ (b.st = "ReadOnly" => r.b.st = "ReadOnly")
    /\ engine = "SqlServer" => r.b.st # "Prepared"
    /\ \/ r.ok = TRUE /\ (r.b.st = st \/ (b.st = "ReadOnly" /\ r.b.st = "ReadOnly"))
       \/ r.ok = FALSE /\ r.b.st \in {"RolledBack", "Prepared"}

LEMMA PhaseTwoIs ==
  ASSUME TypeOK, NEW st, NEW b, NEW statement,
         <<statement, st>> \in {<<"commit", "Committed">>, <<"rollback", "RolledBack">>},
         b.st \in IF engine = "SqlServer" THEN {"Idle"} ELSE {"Prepared", "ReadOnly"},
         engine = "SqlServer" => b.in = None,
         NEW r \in RmPhaseTwo(statement, st, b)
  PROVE  Decided(st, b, r)
<1> USE DEF Decided
<1>1. CASE engine = "SqlServer"
  <2>1. \/ statement = "commit" /\ r \in Yes("Committed", b.in)
        \/ r \in MayFail(statement, DtcDropped)
        \/ statement # "commit" /\ r \in Yes("RolledBack", None)
    BY <1>1 DEF RmPhaseTwo, DtcCommit, DtcAbort
  <2> QED
    BY <1>1, <2>1, YesIs, MayFailIs DEF DtcDropped
<1>2. CASE engine # "SqlServer" /\ b.st = "Prepared"
  <2>1. r \in Yes(st, b.in) \/ r \in MayFail(statement, b)
    BY <1>2 DEF RmPhaseTwo
  <2> QED
    BY <1>2, <2>1, YesIs, MayFailIs
<1>3. CASE engine # "SqlServer" /\ b.st = "ReadOnly"
  <2>1. r \in Yes(b.st, b.in)
    BY <1>3 DEF RmPhaseTwo
  <2> QED
    BY <1>3, <2>1, YesIs
<1> QED
  BY Zenon, <1>1, <1>2, <1>3

\* The start of a branch.
Started(x, b, r) ==
    \/ r.ok = TRUE /\ b.in = None /\ r.b.st = "Active" /\ r.b.in = x
    \/ r.ok = FALSE /\ r.b.in = b.in /\ r.b.st \in {b.st, "RolledBack"}

LEMMA StartIs ==
  ASSUME NEW x \in Xids, NEW b, NEW r \in RmStart(x, b)
  PROVE  Started(x, b, r)
<1> USE DEF Started
<1>1. CASE b.in # None
  <2>1. r \in No(b)
    BY <1>1 DEF RmStart
  <2> QED
    BY <2>1, NoIs
<1>2. CASE b.in = None /\ engine = "SqlServer"
  <2>1. PICK d \in DtcBegin(b) : r \in IF d.ok THEN DtcEnlist(x) ELSE {d}
    BY <1>2 DEF RmStart
  <2>2. d \in Yes("Idle", b.in) \/ d \in MayFail("start", b)
    BY <2>1 DEF DtcBegin
  <2>3. d.ok = TRUE \/ (d.ok = FALSE /\ d.b = b)
    BY <2>2, YesIs, MayFailIs
  <2>4. CASE d.ok = TRUE
    <3>1. r \in Yes("Active", x) \/ r \in MayFail("start", DtcDropped)
      BY <2>1, <2>4 DEF DtcEnlist
    <3> QED
      BY <1>2, <3>1, YesIs, MayFailIs DEF DtcDropped
  <2>5. CASE d.ok = FALSE /\ d.b = b
    BY <2>1, <2>5
  <2> QED
    BY Zenon, <2>3, <2>4, <2>5
<1>3. CASE b.in = None /\ engine # "SqlServer"
  <2>1. r \in Yes("Active", x) \/ r \in MayFail("start", b)
    BY <1>3 DEF RmStart
  <2> QED
    BY <1>3, <2>1, YesIs, MayFailIs
<1> QED
  BY Zenon, <1>1, <1>2, <1>3
-----------------------------------------------------------------------------
(* What the calls do to the tables.                                        *)

LEMMA ActiveDropped ==
  ASSUME IInv, NEW id \in DOMAIN xaActive, xaActive' = Drop(xaActive, id),
         UNCHANGED <<xaPreparing, xaPrepared, nextXaId>>
  PROVE  TableStep(id) /\ id \in Ids /\ id \notin Ids'
<1>1. /\ DOMAIN xaActive' = DOMAIN xaActive \ {id} /\ TableTypeOK(xaActive)'
      /\ \A i \in DOMAIN xaActive \ {id} : xaActive'[i] = xaActive[i]
  BY DEF Drop, Restrict, TableTypeOK, IInv, TypeOK
<1> QED
  BY <1>1, HandleTypes DEF TableStep, Ids, IInv, IdInv, TypeOK

LEMMA PreparingDropped ==
  ASSUME IInv, NEW id \in DOMAIN xaPreparing, xaPreparing' = Drop(xaPreparing, id),
         UNCHANGED <<xaActive, xaPrepared, nextXaId>>
  PROVE  TableStep(id) /\ id \in Ids /\ id \notin Ids'
<1>1. /\ DOMAIN xaPreparing' = DOMAIN xaPreparing \ {id} /\ TableTypeOK(xaPreparing)'
      /\ \A i \in DOMAIN xaPreparing \ {id} : xaPreparing'[i] = xaPreparing[i]
  BY DEF Drop, Restrict, TableTypeOK, IInv, TypeOK
<1> QED
  BY <1>1, HandleTypes DEF TableStep, Ids, IInv, IdInv, TypeOK

LEMMA PreparedDropped ==
  ASSUME IInv, NEW id \in DOMAIN xaPrepared, xaPrepared' = Drop(xaPrepared, id),
         UNCHANGED <<xaActive, xaPreparing, nextXaId>>
  PROVE  TableStep(id) /\ id \in Ids /\ id \notin Ids'
<1>1. /\ DOMAIN xaPrepared' = DOMAIN xaPrepared \ {id} /\ TableTypeOK(xaPrepared)'
      /\ \A i \in DOMAIN xaPrepared \ {id} : xaPrepared'[i] = xaPrepared[i]
  BY DEF Drop, Restrict, TableTypeOK, IInv, TypeOK
<1> QED
  BY <1>1, HandleTypes DEF TableStep, Ids, IInv, IdInv, TypeOK

LEMMA MovedToPreparing ==
  ASSUME IInv, NEW id \in DOMAIN xaActive, xaActive' = Drop(xaActive, id),
         xaPreparing' = Put(xaPreparing, id, xaActive[id]),
         UNCHANGED <<xaPrepared, nextXaId>>
  PROVE  /\ TableStep(id) /\ id \in Ids
         /\ id \notin DOMAIN xaActive' /\ id \in DOMAIN xaPreparing'
<1>1. /\ DOMAIN xaActive' = DOMAIN xaActive \ {id} /\ TableTypeOK(xaActive)'
      /\ \A i \in DOMAIN xaActive \ {id} : xaActive'[i] = xaActive[i]
  BY DEF Drop, Restrict, TableTypeOK, IInv, TypeOK
<1>2. id \in Ids /\ id \in XaIds /\ xaActive[id] \in Handles
  BY DEF Ids, IInv, TypeOK, TableTypeOK
<1>3. /\ DOMAIN xaPreparing' = DOMAIN xaPreparing \cup {id} /\ TableTypeOK(xaPreparing)'
      /\ xaPreparing'[id] = xaActive[id]
      /\ \A i \in DOMAIN xaPreparing \ {id} : xaPreparing'[i] = xaPreparing[i]
  BY <1>2 DEF Put, TableTypeOK, IInv, TypeOK
<1> QED
  BY <1>1, <1>2, <1>3, HandleTypes DEF TableStep, Ids, IInv, IdInv, TypeOK

LEMMA MovedToPrepared ==
  ASSUME IInv, NEW id \in DOMAIN xaPreparing, xaPreparing' = Drop(xaPreparing, id),
         xaPrepared' = Put(xaPrepared, id, xaPreparing[id]),
         UNCHANGED <<xaActive, nextXaId>>
  PROVE  /\ TableStep(id) /\ id \in Ids
         /\ id \notin DOMAIN xaPreparing' /\ id \in DOMAIN xaPrepared'
<1>1. /\ DOMAIN xaPreparing' = DOMAIN xaPreparing \ {id} /\ TableTypeOK(xaPreparing)'
      /\ \A i \in DOMAIN xaPreparing \ {id} : xaPreparing'[i] = xaPreparing[i]
  BY DEF Drop, Restrict, TableTypeOK, IInv, TypeOK
<1>2. id \in Ids /\ id \in XaIds /\ xaPreparing[id] \in Handles
  BY DEF Ids, IInv, TypeOK, TableTypeOK
<1>3. /\ DOMAIN xaPrepared' = DOMAIN xaPrepared \cup {id} /\ TableTypeOK(xaPrepared)'
      /\ xaPrepared'[id] = xaPreparing[id]
      /\ \A i \in DOMAIN xaPrepared \ {id} : xaPrepared'[i] = xaPrepared[i]
  BY <1>2 DEF Put, TableTypeOK, IInv, TypeOK
<1> QED
  BY <1>1, <1>2, <1>3, HandleTypes DEF TableStep, Ids, IInv, IdInv, TypeOK

\* An outcome takes effect and leaves autocommit alone, or restores it.
Effected(c, x, b) ==
    rm'[x] = b.st /\ session'[c] = b.in /\ autocommit'[c] = autocommit[c]

LEMMA EffectOff ==
  ASSUME TypeOK, NEW c \in Conns, NEW x \in Xids, NEW b, b.st \in BranchStates,
         b.in \in {None, x, session[c]}, TakeEffect(c, x, b, FALSE),
         engine = "SqlServer" => b.st # "Prepared",
         UNCHANGED <<connState, startFailed>>
  PROVE  RmStep(c, x) /\ Effected(c, x, b)
<1>1. /\ rm' = [rm EXCEPT ![x] = b.st] /\ session' = [session EXCEPT ![c] = b.in]
      /\ autocommit' = [autocommit EXCEPT ![c] = autocommit[c]] /\ UNCHANGED engine
  BY DEF TakeEffect
<1> QED
  BY <1>1 DEF RmStep, Effected, TypeOK

Restored(c, x, b) ==
    /\ IF engine = "Postgres" /\ b.in # None
       THEN rm'[x] = "Committed" /\ session'[c] = None
       ELSE rm'[x] = b.st /\ session'[c] = b.in
    /\ autocommit'[c] = TRUE \/ (engine = "MySQL" /\ session'[c] # None)

LEMMA EffectOn ==
  ASSUME TypeOK, NEW c \in Conns, NEW x \in Xids, NEW b, b.st \in BranchStates,
         b.in \in {None, x, session[c]}, TakeEffect(c, x, b, TRUE),
         engine = "SqlServer" => b.st # "Prepared",
         UNCHANGED <<connState, startFailed>>
  PROVE  RmStep(c, x) /\ Restored(c, x, b)
<1> DEFINE a == AfterAutocommitOn(b)
           v == IF AutocommitAllowed(b) THEN TRUE ELSE autocommit[c]
<1>1. /\ rm' = [rm EXCEPT ![x] = a.st] /\ session' = [session EXCEPT ![c] = a.in]
      /\ autocommit' = [autocommit EXCEPT ![c] = v] /\ UNCHANGED engine
  BY DEF TakeEffect
<1>2. IF engine = "Postgres" /\ b.in # None
      THEN a.st = "Committed" /\ a.in = None
      ELSE a.st = b.st /\ a.in = b.in
  BY DEF AfterAutocommitOn
<1>3. v \in BOOLEAN /\ (v = TRUE \/ (engine = "MySQL" /\ b.in # None))
  BY Zenon DEF AutocommitAllowed, TypeOK
<1> HIDE DEF a, v
<1>4. rm'[x] = a.st /\ session'[c] = a.in /\ autocommit'[c] = v
  BY <1>1 DEF TypeOK
<1>5. RmStep(c, x)
  BY <1>1, <1>2, <1>3, <1>4 DEF RmStep, TypeOK, BranchStates
<1> QED
  BY <1>2, <1>3, <1>4, <1>5 DEF Restored
-----------------------------------------------------------------------------
(* The calls.                                                              *)

\* A handle goes: the session may stay in its branch, or in the branch it was in
\* if the handle was a prepared one; if it is in none autocommit is restored.
LEMMA GoneKeeps ==
  ASSUME IInv, NEW id \in Ids, TableStep(id), id \notin Ids', asked' \subseteq Xids,
         NEW c \in Conns, NEW x \in Xids, Handle(id).conn = c, Handle(id).xid = x,
         RmStep(c, x),
         session'[c] = x => /\ connState[c] = "Open" /\ engine # "SqlServer"
                            /\ rm'[x] \in {"Active", "Idle"},
         session'[c] \notin {None, x} => engine # "SqlServer",
         \/ connState[c] = "Closed" \/ autocommit'[c] = TRUE \/ session'[c] # None
         \/ /\ id \in DOMAIN xaPrepared /\ session[c] = None
            /\ autocommit'[c] = autocommit[c]
  PROVE  IInv'
<1>1. /\ \A i \in Ids' : Handle(i)' = Handle(i) /\ i \in Ids /\ i # id
      /\ \A i \in Ids' : Handle(i)'.xid # x /\ Handle(i)'.conn # c
  BY TableStepKeeps DEF TableStep, IInv, IdInv
<1>2. /\ SessionInv(c) /\ engine' = engine /\ connState' = connState
      /\ startFailed' = startFailed /\ session'[c] \in {None, x, session[c]}
      /\ \A y \in Xids \ {x} : rm'[y] = rm[y]
      /\ \A d \in Conns \ {c} : session'[d] = session[d]
  BY DEF IInv, RmStep
<1>3. CASE session'[c] = x
  <2>1. \A d \in Conns \ {c} : session[d] # x
    BY NoneAssumption DEF IInv, SessionInv
  <2>2. SessionInv(c)'
    BY <1>1, <1>2, <1>3, <2>1, NoneAssumption DEF SessionInv
  <2> QED
    BY <2>2, HandleStep
<1>4. CASE session'[c] \notin {None, x}
  <2>1. session[c] \in Xids \ {x} /\ session'[c] = session[c]
    BY <1>2, <1>4 DEF IInv, TypeOK
  <2>2. SessionInv(c)'
    BY <1>1, <1>2, <1>4, <2>1 DEF SessionInv
  <2> QED
    BY <2>2, HandleStep
<1>5. CASE session'[c] = None
  <2>1. id \in DOMAIN xaPrepared =>
           \A i \in DOMAIN xaActive \cup DOMAIN xaPreparing : Handle(i).conn # c
    BY DEF IInv, IdInv, Ids
  <2>2. SessionInv(c)'
    BY <1>2, <1>5, <2>1 DEF SessionInv
  <2> QED
    BY <2>2, HandleStep
<1> QED
  BY Zenon, <1>3, <1>4, <1>5

\* What a call with handle id does beside keeping the invariant: it touches only
\* the branch and the connection of the handle, it commits only if it was asked
\* to or PostgreSQL refuses a rollback, and a prepared handle is spent.
CallEffect(id) ==
    LET x == Handle(id).xid IN
    /\ TableStep(id) /\ RmStep(Handle(id).conn, x)
    /\ asked \subseteq asked' /\ asked' \subseteq Xids
    /\ rm'[x] = "Committed" => \/ x \in asked'
                               \/ engine = "Postgres" /\ "plain_rollback" \in RmFaults
    /\ rm[x] = "ReadOnly" => rm'[x] = "ReadOnly"
    /\ id \notin DOMAIN xaPrepared \/ id \notin DOMAIN xaPrepared'

\* A call that answers ok has brought the branch of handle id to state st, or
\* found that there was nothing to do.
Delivers(ok, st, id) == ok => rm'[Handle(id).xid] \in {st, "ReadOnly"}

\* The branch of a handle of xa_active, and of one of xa_preparing.
LEMMA ActiveIs ==
  ASSUME IInv, NEW id \in DOMAIN xaActive
  PROVE  /\ id \in Ids /\ Handle(id) = xaActive[id] /\ id \notin DOMAIN xaPrepared
         /\ xaActive[id].conn \in Conns /\ xaActive[id].xid \in Xids
         /\ ActiveBranch(xaActive[id].conn, xaActive[id].xid)
BY HandleTypes DEF Ids, IInv, IdInv, HandleInv

LEMMA PreparingIs ==
  ASSUME IInv, NEW id \in DOMAIN xaPreparing
  PROVE  /\ id \in Ids /\ Handle(id) = xaPreparing[id] /\ id \notin DOMAIN xaPrepared
         /\ connState[xaPreparing[id].conn] # "New"
         /\ xaPreparing[id].conn \in Conns /\ xaPreparing[id].xid \in Xids
         /\ PreparingBranch(xaPreparing[id].conn, xaPreparing[id].xid)
BY HandleTypes DEF Ids, IInv, IdInv, HandleInv

\* The drop of an active handle: end, roll back, restore autocommit.
LEMMA AbortKeeps ==
  ASSUME IInv, NEW id \in DOMAIN xaActive, NEW c \in Conns, NEW x \in Xids,
         xaActive[id].conn = c, xaActive[id].xid = x, connState[c] = "Open",
         TableStep(id), id \notin Ids', asked \subseteq asked', asked' \subseteq Xids,
         NEW b, b.st = "Active", b.in = x,
         NEW r \in AbortOutcomes(x, b), TakeEffect(c, x, r.b, TRUE),
         UNCHANGED <<connState, startFailed>>
  PROVE  IInv' /\ CallEffect(id)
<1>1. /\ id \in Ids /\ Handle(id).conn = c /\ Handle(id).xid = x
      /\ id \notin DOMAIN xaPrepared /\ rm[x] = "Active" /\ session[c] = x
  BY ActiveIs DEF ActiveBranch
<1>2. TypeOK
  BY DEF IInv
<1>3. PICK a : a = r.b
  OBVIOUS
<1>4. Undone(x, r)
  BY <1>2, AbortIs
<1>5. \/ a.in = None /\ a.st \in {"RolledBack", "Idle"}
      \/ /\ a.in = x /\ a.st \in {"Active", "Idle"} /\ engine # "SqlServer"
         /\ engine = "Postgres" => "plain_rollback" \in RmFaults
  BY <1>3, <1>4 DEF Undone
<1>6. /\ RmStep(c, x)
      /\ IF engine = "Postgres" /\ a.in # None
         THEN rm'[x] = "Committed" /\ session'[c] = None
         ELSE rm'[x] = a.st /\ session'[c] = a.in
      /\ autocommit'[c] = TRUE \/ (engine = "MySQL" /\ session'[c] # None)
  <2>1. a.st \in BranchStates /\ a.in \in {None, x, session[c]} /\ a.st # "Prepared"
    BY <1>5 DEF BranchStates
  <2>2. RmStep(c, x) /\ Restored(c, x, a)
    BY Zenon, <1>2, <1>3, <2>1, EffectOn
  <2> QED
    BY <2>2 DEF Restored
<1>7. IInv'
  BY Zenon, <1>1, <1>5, <1>6, GoneKeeps, NoneAssumption
<1>8. CallEffect(id)
  BY <1>1, <1>5, <1>6 DEF CallEffect
<1> QED
  BY <1>7, <1>8

\* A handle whose connection is gone is dropped.
LEMMA UnreachableKeeps ==
  ASSUME IInv, NEW id \in Ids, TableStep(id), id \notin Ids',
         NEW c \in Conns, NEW x \in Xids, Handle(id).conn = c, Handle(id).xid = x,
         connState[c] # "Open", UNCHANGED <<rmVars, connState, startFailed>>,
         asked \subseteq asked', asked' \subseteq Xids, rm[x] # "Committed"
  PROVE  IInv' /\ CallEffect(id)
<1>1. UNCHANGED <<engine, rm, session, autocommit>>
  BY DEF rmVars
<1>2. RmStep(c, x)
  BY <1>1 DEF RmStep, IInv, TypeOK, DtcInv
<1>3. session[c] = None /\ connState[c] = "Closed"
  BY DEF IInv, TypeOK, SessionInv, HandleInv
<1>4. IInv'
  BY Zenon, <1>1, <1>2, <1>3, GoneKeeps, NoneAssumption
<1>5. CallEffect(id)
  BY <1>1, <1>2 DEF CallEffect, Ids
<1> QED
  BY <1>4, <1>5

LEMMA XaEndKeeps ==
  ASSUME IInv, NEW id, NEW ok \in BOOLEAN, XaEnd(id, ok)
  PROVE  id \in Ids /\ IInv' /\ CallEffect(id)
<1>1. /\ id \in DOMAIN xaActive /\ xaActive' = Drop(xaActive, id)
      /\ TransactionEnd(xaActive[id], ok)
      /\ xaPreparing' = IF ok THEN Put(xaPreparing, id, xaActive[id]) ELSE xaPreparing
      /\ UNCHANGED <<xaPrepared, nextXaId, connState, asked, startFailed>>
  BY DEF XaEnd
<1>2. PICK c \in Conns, x \in Xids : xaActive[id].conn = c /\ xaActive[id].xid = x
  BY <1>1, ActiveIs
<1>3. /\ id \in Ids /\ Handle(id).conn = c /\ Handle(id).xid = x
      /\ id \notin DOMAIN xaPrepared /\ ActiveBranch(c, x) /\ TypeOK
      /\ asked \subseteq asked' /\ asked' \subseteq Xids
  BY <1>1, <1>2, ActiveIs DEF IInv, TypeOK
<1>4. ~ok => TableStep(id) /\ id \notin Ids'
  BY Zenon, <1>1, ActiveDropped
<1>5. CASE connState[c] # "Open"
  <2>1. ~ok /\ UNCHANGED rmVars
    BY <1>1, <1>2, <1>5 DEF TransactionEnd, Reachable
  <2>2. rm[x] # "Committed"
    BY <1>3, <1>5 DEF ActiveBranch
  <2> QED
    BY <1>1, <1>3, <1>4, <1>5, <2>1, <2>2, UnreachableKeeps
<1>6. CASE connState[c] = "Open"
  <2>1. rm[x] = "Active" /\ session[c] = x
    BY <1>3, <1>6 DEF ActiveBranch
  <2>2. PICK b : b = BranchOf(xaActive[id])
    OBVIOUS
  <2>3. b.st = "Active" /\ b.in = x
    BY <1>2, <2>1, <2>2 DEF BranchOf, Branch
  <2>4. PICK r \in RmEnd(x, b) :
           /\ r.ok = ok
           /\ IF ok THEN TakeEffect(c, x, r.b, FALSE) ELSE TransactionDropped(xaActive[id], r.b)
    BY Zenon, <1>1, <1>2, <1>6, <2>2 DEF TransactionEnd, Reachable
  <2>5. Ended(x, b, r)
    BY Zenon, <1>3, <2>3, <2>4, EndIs
  <2>6. CASE ok = TRUE
    <3>1. PICK a : a = r.b
      OBVIOUS
    <3>2. /\ TakeEffect(c, x, a, FALSE)
          /\ a.st = IF engine = "Postgres" THEN "Active" ELSE "Idle"
          /\ a.in = IF engine \in {"MySQL", "Postgres"} THEN x ELSE None
      BY Zenon, <2>4, <2>5, <2>6, <3>1 DEF Ended
    <3>3. RmStep(c, x) /\ rm'[x] = a.st /\ session'[c] = a.in
      <4>1. a.st \in BranchStates /\ a.in \in {None, x, session[c]}
        BY <3>2 DEF BranchStates
      <4>2. RmStep(c, x) /\ Effected(c, x, a)
        BY Zenon, <1>1, <1>3, <3>2, <4>1, EffectOff
      <4> QED
        BY <4>2 DEF Effected
    <3>4. /\ TableStep(id) /\ id \notin DOMAIN xaActive' /\ id \in DOMAIN xaPreparing'
      BY <1>1, <2>6, MovedToPreparing
    <3>5. Handle(id)' = Handle(id) /\ id \in Ids' /\ id \notin DOMAIN xaPrepared'
      BY Zenon, <1>1, <1>3, <3>4, TableStepKeeps DEF Ids
    <3>6. HandleInv(id)'
      BY Zenon, <1>1, <1>3, <1>6, <3>2, <3>3, <3>4, <3>5
      DEF HandleInv, PreparingBranch, RmStep
    <3>7. SessionInv(c)'
      <4>1. \A d \in Conns \ {c} : session'[d] = session[d] /\ session[d] # x
        BY <1>3, <3>3, NoneAssumption DEF IInv, SessionInv, RmStep
      <4>2. \A i \in Ids' : i \in Ids /\ Handle(i)' = Handle(i)
        BY Zenon, <1>3, <3>4, TableStepKeeps DEF TableStep
      <4>3. \A i \in Ids : Handle(i).xid = x => i = id
        BY Zenon, <1>3 DEF IInv, IdInv
      <4>4. \A i \in Ids' : Handle(i)'.xid = x => Handle(i)'.conn = c
        BY Zenon, <1>3, <4>2, <4>3
      <4>5. connState'[c] = "Open" /\ engine' = engine
        BY <1>6, <3>3 DEF RmStep
      <4>6. session'[c] # None =>
               session'[c] = x /\ rm'[x] \in {"Active", "Idle"} /\ engine # "SqlServer"
        BY <3>2, <3>3
      <4>7. \A d \in Conns : session'[d] = x => d = c
        BY <4>1
      <4>8. Handle(id)'.conn = c
        BY Zenon, <1>3, <3>5
      <4> QED
        BY Zenon, <3>4, <4>4, <4>5, <4>6, <4>7, <4>8 DEF SessionInv
    <3>8. IInv'
      BY <1>3, <3>3, <3>4, <3>6, <3>7, HandleStep
    <3> QED
      BY <1>3, <2>1, <3>2, <3>3, <3>4, <3>8 DEF CallEffect
  <2>7. CASE ok = FALSE
    <3>1. TransactionDropped(xaActive[id], b)
      BY <2>4, <2>5, <2>7 DEF Ended
    <3>2. PICK e \in AbortOutcomes(x, b) : TakeEffect(c, x, e.b, TRUE)
      BY Zenon, <1>2, <3>1 DEF TransactionDropped, Outcome
    <3> QED
      BY Zenon, <1>1, <1>2, <1>3, <1>4, <1>6, <2>3, <2>7, <3>2, AbortKeeps
  <2> QED
    BY Zenon, <2>6, <2>7
<1> QED
  BY <1>5, <1>6

LEMMA XaRollbackActiveKeeps ==
  ASSUME IInv, NEW id, NEW ok \in BOOLEAN, XaRollbackActive(id, ok)
  PROVE  id \in Ids /\ IInv' /\ CallEffect(id)
<1>1. /\ id \in DOMAIN xaActive /\ xaActive' = Drop(xaActive, id)
      /\ TransactionRollback(xaActive[id], ok)
      /\ UNCHANGED <<xaPreparing, xaPrepared, nextXaId, connState, asked, startFailed>>
  BY DEF XaRollbackActive
<1>2. PICK c \in Conns, x \in Xids : xaActive[id].conn = c /\ xaActive[id].xid = x
  BY <1>1, ActiveIs
<1>3. /\ id \in Ids /\ Handle(id).conn = c /\ Handle(id).xid = x /\ ActiveBranch(c, x)
      /\ asked \subseteq asked' /\ asked' \subseteq Xids
      /\ TableStep(id) /\ id \notin Ids'
  BY Zenon, <1>1, <1>2, ActiveIs, ActiveDropped DEF IInv, TypeOK
<1>4. CASE connState[c] # "Open"
  <2>1. rm[x] # "Committed" /\ UNCHANGED rmVars
    BY Zenon, <1>1, <1>2, <1>3, <1>4 DEF ActiveBranch, TransactionRollback, Reachable
  <2> QED
    BY <1>1, <1>3, <1>4, <2>1, UnreachableKeeps
<1>5. CASE connState[c] = "Open"
  <2>1. PICK b : b = BranchOf(xaActive[id])
    OBVIOUS
  <2>2. b.st = "Active" /\ b.in = x
    BY <1>2, <1>3, <1>5, <2>1 DEF ActiveBranch, BranchOf, Branch
  <2>3. PICK e \in AbortOutcomes(x, b) : TakeEffect(c, x, e.b, TRUE)
    BY Zenon, <1>1, <1>2, <1>5, <2>1 DEF TransactionRollback, Reachable, Outcome
  <2> QED
    BY Zenon, <1>1, <1>2, <1>3, <1>5, <2>2, <2>3, AbortKeeps
<1> QED
  BY <1>4, <1>5

LEMMA XaCommitOnePhaseKeeps ==
  ASSUME IInv, NEW id, NEW ok \in BOOLEAN, XaCommitOnePhase(id, ok)
  PROVE  id \in Ids /\ IInv' /\ CallEffect(id) /\ Delivers(ok, "Committed", id)
<1>1. /\ id \in DOMAIN xaActive /\ xaActive' = Drop(xaActive, id)
      /\ TransactionCommitOnePhase(xaActive[id], ok)
      /\ asked' = asked \cup {xaActive[id].xid}
      /\ UNCHANGED <<xaPreparing, xaPrepared, nextXaId, connState, startFailed>>
  BY DEF XaCommitOnePhase
<1>2. PICK c \in Conns, x \in Xids : xaActive[id].conn = c /\ xaActive[id].xid = x
  BY <1>1, ActiveIs
<1>3. /\ id \in Ids /\ Handle(id).conn = c /\ Handle(id).xid = x /\ ActiveBranch(c, x)
      /\ asked \subseteq asked' /\ asked' \subseteq Xids /\ x \in asked'
      /\ TableStep(id) /\ id \notin Ids' /\ TypeOK
  BY <1>1, <1>2, ActiveIs, ActiveDropped DEF IInv, TypeOK
<1>4. CASE connState[c] # "Open"
  <2>1. rm[x] # "Committed" /\ UNCHANGED rmVars /\ ~ok
    BY Zenon, <1>1, <1>2, <1>3, <1>4 DEF ActiveBranch, TransactionCommitOnePhase, Reachable
  <2> QED
    BY ZenonT(30), <1>1, <1>3, <1>4, <2>1, UnreachableKeeps DEF Delivers
<1>5. CASE connState[c] = "Open"
  <2>1. PICK b : b = BranchOf(xaActive[id])
    OBVIOUS
  <2>2. b.st = "Active" /\ b.in = x /\ rm[x] = "Active" /\ session[c] = x
    BY <1>2, <1>3, <1>5, <2>1 DEF ActiveBranch, BranchOf, Branch
  <2>3. PICK r \in RmEnd(x, b) :
           IF r.ok THEN Outcome(xaActive[id], RmCommitOnePhase(x, r.b), ok, TRUE)
           ELSE ok = FALSE /\ TransactionDropped(xaActive[id], r.b)
    BY Zenon, <1>1, <1>2, <1>5, <2>1 DEF TransactionCommitOnePhase, Reachable
  <2>4. Ended(x, b, r)
    BY <1>3, <2>2, <2>3, EndIs
  <2>5. CASE r.ok = TRUE
    <3>1. PICK a : a = r.b
      OBVIOUS
    <3>2. /\ a.st = IF engine = "Postgres" THEN "Active" ELSE "Idle"
          /\ a.in = IF engine \in {"MySQL", "Postgres"} THEN x ELSE None
      BY <2>4, <2>5, <3>1 DEF Ended
    <3>3. PICK e \in RmCommitOnePhase(x, a) : e.ok = ok /\ TakeEffect(c, x, e.b, TRUE)
      BY Zenon, <1>2, <2>3, <2>5, <3>1 DEF Outcome
    <3>4. OnePhased(x, e)
      BY <1>3, <3>2, <3>3, OnePhaseIs
    <3>5. PICK d : d = e.b
      OBVIOUS
    <3>6. \/ d.in = None /\ d.st = "Committed"
          \/ ~ok /\ d.in = None /\ d.st \in {"RolledBack", "Idle"}
          \/ ~ok /\ d.in = x /\ d.st = "Idle" /\ engine = "MySQL"
      BY <3>3, <3>4, <3>5 DEF OnePhased
    <3>7. /\ d.st \in BranchStates /\ d.in \in {None, x, session[c]}
          /\ engine = "SqlServer" => d.st # "Prepared"
      BY <3>6 DEF BranchStates
    <3>8. RmStep(c, x) /\ Restored(c, x, d)
      BY Zenon, <1>1, <1>3, <3>3, <3>5, <3>7, EffectOn
    <3>9. /\ session'[c] \in {None, x}
          /\ session'[c] = x => engine # "SqlServer" /\ rm'[x] \in {"Active", "Idle"}
          /\ connState[c] = "Closed" \/ autocommit'[c] = TRUE \/ session'[c] # None
      BY <3>6, <3>8, NoneAssumption DEF Restored
    <3>10. IInv'
      BY Zenon, <1>3, <1>5, <3>8, <3>9, GoneKeeps
    <3>11. Delivers(ok, "Committed", id)
      BY <1>3, <3>6, <3>8 DEF Delivers, Restored
    <3> QED
      BY ZenonT(30), <1>1, <1>3, <2>2, <3>8, <3>10, <3>11 DEF CallEffect, Ids
  <2>6. CASE r.ok = FALSE
    <3>1. TransactionDropped(xaActive[id], b) /\ ~ok
      BY Zenon, <2>3, <2>4, <2>6 DEF Ended
    <3>2. PICK e \in AbortOutcomes(x, b) : TakeEffect(c, x, e.b, TRUE)
      BY Zenon, <1>2, <3>1 DEF TransactionDropped, Outcome
    <3> QED
      BY Zenon, <1>1, <1>2, <1>3, <1>5, <2>2, <3>1, <3>2, AbortKeeps DEF Delivers
  <2> QED
    BY Zenon, <2>4, <2>5, <2>6 DEF Ended
<1> QED
  BY <1>4, <1>5

LEMMA XaPrepareKeeps ==
  ASSUME IInv, NEW id, NEW ok \in BOOLEAN, XaPrepare(id, ok)
  PROVE  id \in Ids /\ IInv' /\ CallEffect(id)
<1>1. /\ id \in DOMAIN xaPreparing /\ xaPreparing' = Drop(xaPreparing, id)
      /\ PreparingPrepare(xaPreparing[id], ok)
      /\ xaPrepared' = IF ok THEN Put(xaPrepared, id, xaPreparing[id]) ELSE xaPrepared
      /\ UNCHANGED <<xaActive, nextXaId, connState, asked, startFailed>>
  BY DEF XaPrepare
<1>2. PICK c \in Conns, x \in Xids : xaPreparing[id].conn = c /\ xaPreparing[id].xid = x
  BY <1>1, PreparingIs
<1>3. /\ id \in Ids /\ Handle(id).conn = c /\ Handle(id).xid = x
      /\ id \notin DOMAIN xaPrepared /\ PreparingBranch(c, x) /\ TypeOK /\ SessionInv(c)
      /\ connState[c] # "New"
      /\ asked \subseteq asked' /\ asked' \subseteq Xids
  BY <1>1, <1>2, PreparingIs DEF IInv, TypeOK
<1>4. ~ok => TableStep(id) /\ id \notin Ids'
  BY <1>1, PreparingDropped
<1>5. rm[x] \in {"Active", "Idle", "RolledBack"}
  BY <1>3 DEF PreparingBranch
<1>6. CASE ~(connState[c] = "Open" \/ engine = "SqlServer")
  <2>1. ~ok /\ UNCHANGED rmVars
    BY Zenon, <1>1, <1>2, <1>6 DEF PreparingPrepare, Reachable
  <2> QED
    BY Zenon, <1>1, <1>3, <1>4, <1>5, <1>6, <2>1, UnreachableKeeps
<1>7. CASE connState[c] = "Open" \/ engine = "SqlServer"
  <2>1. PICK b : b = BranchOf(xaPreparing[id])
    OBVIOUS
  <2>2. /\ b.st = IF engine = "Postgres" THEN "Active" ELSE "Idle"
        /\ b.in = IF engine \in {"MySQL", "Postgres"} THEN x ELSE None
    BY <1>2, <1>3, <1>7, <2>1 DEF PreparingBranch, BranchOf, Branch, SessionInv
  <2>3. PICK r \in RmPrepare(x, b) : r.ok = ok /\ TakeEffect(c, x, r.b, TRUE)
    BY Zenon, <1>1, <1>2, <1>7, <2>1 DEF PreparingPrepare, Reachable, Outcome
  <2>4. PrepareTried(x, r)
    BY <1>3, <2>2, <2>3, PrepareIs
  <2>5. PICK d : d = r.b
    OBVIOUS
  <2>6. \/ /\ ok = TRUE /\ d.in = None
           /\ d.st \in IF engine = "SqlServer" THEN {"Idle"} ELSE {"Prepared", "ReadOnly"}
        \/ ok = FALSE /\ d.in = None /\ d.st \in {"RolledBack", "Idle"}
        \/ ok = FALSE /\ d.in = x /\ d.st = "Idle" /\ engine = "MySQL"
    BY <2>3, <2>4, <2>5 DEF PrepareTried
  <2>7. /\ d.st \in BranchStates /\ d.in \in {None, x, session[c]}
        /\ engine = "SqlServer" => d.st # "Prepared"
    BY <2>6 DEF BranchStates
  <2>8. RmStep(c, x) /\ Restored(c, x, d)
    BY Zenon, <1>1, <1>3, <2>3, <2>5, <2>7, EffectOn
  <2>9. /\ session'[c] \in {None, x} /\ rm'[x] # "Committed"
        /\ session'[c] = x => engine = "MySQL" /\ rm'[x] \in {"Active", "Idle"}
        /\ connState[c] = "Closed" \/ autocommit'[c] = TRUE \/ session'[c] # None
    BY Zenon, <2>6, <2>8, NoneAssumption DEF Restored
  <2>10. CASE ok = TRUE
    <3>1. /\ session'[c] = None /\ autocommit'[c] = TRUE
          /\ rm'[x] \in IF engine = "SqlServer" THEN {"Idle"} ELSE {"Prepared", "ReadOnly"}
      BY Zenon, <2>6, <2>8, <2>10 DEF Restored
    <3>2. TableStep(id) /\ id \notin DOMAIN xaPreparing' /\ id \in DOMAIN xaPrepared'
      BY <1>1, <2>10, MovedToPrepared
    <3>3. Handle(id)' = Handle(id) /\ id \notin DOMAIN xaActive'
      BY Zenon, <1>1, <1>3, <3>2, TableStepKeeps DEF Ids, TableStep
    <3>4. HandleInv(id)'
      BY Zenon, <1>3, <2>8, <3>1, <3>2, <3>3 DEF HandleInv, PreparedBranch, RmStep
    <3>5. SessionInv(c)'
      BY <3>1 DEF SessionInv
    <3>6. IInv'
      BY Zenon, <1>3, <2>8, <3>2, <3>4, <3>5, HandleStep
    <3> QED
      BY <1>3, <1>5, <2>8, <2>9, <3>2, <3>6 DEF CallEffect
  <2>11. CASE ok = FALSE
    <3>1. TableStep(id) /\ id \notin Ids'
      BY <1>4, <2>11
    <3>2. session'[c] = x => connState[c] = "Open" /\ engine # "SqlServer"
      BY <1>7, <2>9
    <3>3. IInv'
      BY ZenonT(30), <1>3, <2>8, <2>9, <3>1, <3>2, GoneKeeps
    <3> QED
      BY <1>3, <1>5, <2>8, <2>9, <3>1, <3>3 DEF CallEffect, Ids
  <2> QED
    BY Zenon, <2>10, <2>11
<1> QED
  BY <1>6, <1>7

\* The branch of a handle of xa_prepared.
LEMMA PreparedIs ==
  ASSUME IInv, NEW id \in DOMAIN xaPrepared
  PROVE  /\ id \in Ids /\ Handle(id) = xaPrepared[id] /\ id \notin DOMAIN xaActive
         /\ xaPrepared[id].conn \in Conns /\ xaPrepared[id].xid \in Xids
         /\ PreparedBranch(xaPrepared[id].xid)
BY Zenon, HandleTypes DEF Ids, IInv, IdInv, HandleInv

\* No session is in a prepared branch, and at SQL Server the one that prepared it
\* is in none.
LEMMA PreparedOutside ==
  ASSUME IInv, NEW id \in DOMAIN xaPrepared, NEW d \in Conns
  PROVE  /\ session[d] # xaPrepared[id].xid
         /\ xaPrepared[id].conn = d /\ engine = "SqlServer" => session[d] = None
<1>1. PICK c \in Conns, x \in Xids :
         /\ xaPrepared[id].conn = c /\ xaPrepared[id].xid = x
         /\ id \in Ids /\ Handle(id).conn = c /\ Handle(id).xid = x
         /\ PreparedBranch(x) /\ SessionInv(c) /\ SessionInv(d)
  BY PreparedIs DEF IInv
<1>2. ASSUME engine = "SqlServer", session[c] # None PROVE FALSE
  <2>1. PICK i \in DOMAIN xaActive : xaActive[i].conn = c
    BY <1>1, <1>2 DEF SessionInv
  <2>2. i \in Ids /\ Handle(i).conn = c /\ i # id
    BY <2>1, ActiveIs
  <2> QED
    BY <1>1, <2>2 DEF IInv, IdInv
<1>3. session[d] = x => d = c
  BY <1>1, NoneAssumption DEF SessionInv
<1>4. engine # "SqlServer" => session[d] # x
  BY <1>1, NoneAssumption DEF SessionInv, PreparedBranch
<1> QED
  BY <1>1, <1>2, <1>3, <1>4, NoneAssumption

LEMMA PhaseTwoKeeps ==
  ASSUME IInv, NEW id, NEW ok \in BOOLEAN, NEW statement, NEW st,
         <<statement, st>> \in {<<"commit", "Committed">>, <<"rollback", "RolledBack">>},
         PhaseTwo(id, ok, statement, st), asked \subseteq asked', asked' \subseteq Xids,
         st = "Committed" => xaPrepared[id].xid \in asked'
  PROVE  id \in Ids /\ IInv' /\ CallEffect(id) /\ Delivers(ok, st, id)
<1>1. /\ id \in DOMAIN xaPrepared /\ xaPrepared' = Drop(xaPrepared, id)
      /\ PreparedPhaseTwo(xaPrepared[id], ok, statement, st)
      /\ UNCHANGED <<xaActive, xaPreparing, nextXaId, connState, startFailed>>
  BY DEF PhaseTwo
<1>2. PICK c \in Conns, x \in Xids : xaPrepared[id].conn = c /\ xaPrepared[id].xid = x
  BY <1>1, PreparedIs
<1>3. /\ id \in Ids /\ Handle(id).conn = c /\ Handle(id).xid = x
      /\ PreparedBranch(x) /\ TypeOK /\ SessionInv(c)
      /\ TableStep(id) /\ id \notin Ids'
  BY <1>1, <1>2, PreparedIs, PreparedDropped DEF IInv
<1>4. session[c] # x /\ (engine = "SqlServer" => session[c] = None)
  BY <1>1, <1>2, PreparedOutside
<1>5. CASE ~(connState[c] = "Open" \/ engine = "SqlServer")
  <2>1. UNCHANGED rmVars /\ rm[x] # "Committed" /\ ~ok
    BY Zenon, <1>1, <1>2, <1>3, <1>5 DEF PreparedPhaseTwo, Reachable, PreparedBranch
  <2> QED
    BY Zenon, <1>1, <1>3, <1>5, <2>1, UnreachableKeeps DEF Delivers
<1>6. CASE connState[c] = "Open" \/ engine = "SqlServer"
  <2>1. PICK b : b = BranchOf(xaPrepared[id])
    BY Zenon
  <2>2. b.st = rm[x] /\ b.in = session[c]
    BY <1>2, <2>1 DEF BranchOf, Branch
  <2>3. PICK r \in RmPhaseTwo(statement, st, b) : r.ok = ok /\ TakeEffect(c, x, r.b, FALSE)
    BY Zenon, <1>1, <1>2, <1>6, <2>1 DEF PreparedPhaseTwo, Reachable, Outcome
  <2>4. Decided(st, b, r)
    BY <1>3, <1>4, <2>2, <2>3, PhaseTwoIs DEF PreparedBranch
  <2>5. PICK d : d = r.b
    OBVIOUS
  <2>6. /\ d.in = session[c] /\ (rm[x] = "ReadOnly" => d.st = "ReadOnly")
        /\ engine = "SqlServer" => d.st # "Prepared"
        /\ d.st \in {st, "ReadOnly"} \/ (~ok /\ d.st \in {"RolledBack", "Prepared"})
    BY <2>2, <2>3, <2>4, <2>5 DEF Decided
  <2>7. /\ d.st \in BranchStates /\ d.in \in {None, x, session[c]}
        /\ engine = "SqlServer" => d.st # "Prepared"
    BY <2>6 DEF BranchStates
  <2>8. RmStep(c, x) /\ Effected(c, x, d)
    BY Zenon, <1>1, <1>3, <2>3, <2>5, <2>7, EffectOff
  <2>9. /\ session'[c] = session[c] /\ rm'[x] = d.st /\ autocommit'[c] = autocommit[c]
    BY <2>6, <2>8 DEF Effected
  <2>10. IInv'
    BY Zenon, <1>1, <1>3, <1>4, <2>8, <2>9, GoneKeeps
  <2>11. rm'[x] = "Committed" => x \in asked'
    BY Zenon, <1>2, <2>6, <2>9
  <2>12. Delivers(ok, st, id)
    BY <1>3, <2>6, <2>9 DEF Delivers
  <2> QED
    BY Zenon, <1>3, <2>6, <2>8, <2>9, <2>10, <2>11, <2>12 DEF CallEffect, Ids
<1> QED
  BY <1>5, <1>6
=============================================================================
