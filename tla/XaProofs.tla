------------------------------ MODULE XaProofs ------------------------------
(***************************************************************************)
(* Proofs about XaBranches and XaHelpers: the remaining steps keep the     *)
(* invariant of XaInvariant, and what follows from it.                     *)
(***************************************************************************)
EXTENDS XaInvariant, XaHelpers

\* A handle h is added under id n; the others stay.
Added(n, h) ==
    /\ n \notin Ids /\ Ids' = Ids \cup {n} /\ Handle(n)' = h
    /\ \A i \in Ids :
          /\ Handle(i)' = Handle(i)
          /\ i \in DOMAIN xaActive' <=> i \in DOMAIN xaActive
          /\ i \in DOMAIN xaPreparing' <=> i \in DOMAIN xaPreparing
          /\ i \in DOMAIN xaPrepared' <=> i \in DOMAIN xaPrepared
    /\ IdInv'
    /\ TableTypeOK(xaActive)' /\ TableTypeOK(xaPreparing)' /\ TableTypeOK(xaPrepared)'
    /\ nextXaId' \in 1 .. MaxXaIds + 1

\* No handle is on connection c, or has branch x.
LEMMA NoHandleOn ==
  ASSUME IInv, NEW c, \A h \in AllHandles : h.conn # c
  PROVE  \A id \in Ids : Handle(id).conn # c
<1>1. ASSUME NEW id \in Ids PROVE Handle(id) \in AllHandles
  BY HandleTypes DEF AllHandles, Range, Ids
<1> QED
  BY <1>1

LEMMA NoHandleOf ==
  ASSUME IInv, NEW x, \A h \in AllHandles : h.xid # x
  PROVE  \A id \in Ids : Handle(id).xid # x
<1>1. ASSUME NEW id \in Ids PROVE Handle(id) \in AllHandles
  BY HandleTypes DEF AllHandles, Range, Ids
<1> QED
  BY <1>1

LEMMA AddedActive ==
  ASSUME IInv, NEW h \in Handles, NEW n, n = nextXaId, n <= MaxXaIds,
         \A i \in Ids : Handle(i).conn # h.conn /\ Handle(i).xid # h.xid,
         xaActive' = Put(xaActive, n, h), nextXaId' = n + 1,
         UNCHANGED <<xaPreparing, xaPrepared>>
  PROVE  Added(n, h) /\ n \in DOMAIN xaActive'
<1>1. /\ n \in 1 .. MaxXaIds + 1 /\ n \in XaIds
      /\ \A i \in Ids : i \in XaIds /\ i < n
  BY MaxXaIdsAssumption, HandleTypes DEF IInv, TypeOK, IdInv, XaIds
<1>2. n \notin Ids
  BY <1>1 DEF XaIds
<1>3. /\ DOMAIN xaActive' = DOMAIN xaActive \cup {n} /\ TableTypeOK(xaActive)'
      /\ xaActive'[n] = h
      /\ \A i \in DOMAIN xaActive : i # n => xaActive'[i] = xaActive[i]
  BY <1>1 DEF Put, TableTypeOK, IInv, TypeOK
<1>4. /\ Ids' = Ids \cup {n} /\ Handle(n)' = h
      /\ \A i \in Ids : Handle(i)' = Handle(i)
  BY <1>2, <1>3 DEF Ids, Handle
<1>5. IdInv'
  <2>1. \A i \in Ids' : i < nextXaId'
    BY <1>1, <1>4 DEF XaIds
  <2>2. \A i, j \in Ids' :
           Handle(i)'.xid = Handle(j)'.xid \/ Handle(i)'.conn = Handle(j)'.conn => i = j
    BY <1>2, <1>4 DEF IInv, IdInv
  <2> QED
    BY <1>2, <1>3, <2>1, <2>2 DEF IInv, IdInv, Ids
<1>6. nextXaId' \in 1 .. MaxXaIds + 1
  BY <1>1, MaxXaIdsAssumption
<1> QED
  BY <1>2, <1>3, <1>4, <1>5, <1>6 DEF Added, IInv, TypeOK

LEMMA AddedPrepared ==
  ASSUME IInv, NEW h \in Handles, NEW n, n = nextXaId, n <= MaxXaIds,
         \A i \in Ids : Handle(i).conn # h.conn /\ Handle(i).xid # h.xid,
         xaPrepared' = Put(xaPrepared, n, h), nextXaId' = n + 1,
         UNCHANGED <<xaActive, xaPreparing>>
  PROVE  Added(n, h) /\ n \in DOMAIN xaPrepared'
<1>1. /\ n \in 1 .. MaxXaIds + 1 /\ n \in XaIds
      /\ \A i \in Ids : i \in XaIds /\ i < n
  BY MaxXaIdsAssumption, HandleTypes DEF IInv, TypeOK, IdInv, XaIds
<1>2. n \notin Ids
  BY <1>1 DEF XaIds
<1>3. /\ DOMAIN xaPrepared' = DOMAIN xaPrepared \cup {n} /\ TableTypeOK(xaPrepared)'
      /\ xaPrepared'[n] = h
      /\ \A i \in DOMAIN xaPrepared : i # n => xaPrepared'[i] = xaPrepared[i]
  BY <1>1 DEF Put, TableTypeOK, IInv, TypeOK
<1>4. /\ Ids' = Ids \cup {n} /\ Handle(n)' = h
      /\ \A i \in Ids : Handle(i)' = Handle(i)
  BY <1>2, <1>3 DEF Ids, Handle
<1>5. IdInv'
  <2>1. \A i \in Ids' : i < nextXaId'
    BY <1>1, <1>4 DEF XaIds
  <2>2. \A i, j \in Ids' :
           Handle(i)'.xid = Handle(j)'.xid \/ Handle(i)'.conn = Handle(j)'.conn => i = j
    BY <1>2, <1>4 DEF IInv, IdInv
  <2> QED
    BY <1>2, <1>3, <2>1, <2>2 DEF IInv, IdInv, Ids
<1>6. nextXaId' \in 1 .. MaxXaIds + 1
  BY <1>1, MaxXaIdsAssumption
<1> QED
  BY <1>2, <1>3, <1>4, <1>5, <1>6 DEF Added, IInv, TypeOK
-----------------------------------------------------------------------------
(* Starts, resumes, connects, disconnects and crashes.                     *)

\* The state of the branch of a handle, and of the branch a session is in.
LEMMA HandleBranch ==
  ASSUME IInv, NEW id \in Ids
  PROVE  /\ rm[Handle(id).xid] \in {"Active", "Idle", "Prepared", "ReadOnly", "RolledBack"}
         /\ rm[Handle(id).xid] \in {"Prepared", "ReadOnly"} => id \in DOMAIN xaPrepared
BY DEF IInv, HandleInv, ActiveBranch, PreparingBranch, PreparedBranch, Ids

LEMMA SessionBranch ==
  ASSUME IInv, NEW c \in Conns, session[c] # None
  PROVE  /\ session[c] \in Xids /\ connState[c] = "Open"
         /\ rm[session[c]] \in {"Active", "Idle"}
BY DEF IInv, TypeOK, SessionInv

\* A started branch is new: no handle has it and no session is in it.
LEMMA NewBranch ==
  ASSUME IInv, NEW x \in Xids, rm[x] = "None"
  PROVE  /\ \A id \in Ids : Handle(id).xid # x
         /\ \A c \in Conns : session[c] # x
BY HandleBranch, SessionBranch, NoneAssumption

\* What a step that is no call with a handle does beside keeping the invariant:
\* it decides no branch that is prepared or over, and touches no handle.
Quiet ==
    /\ \A y \in Xids :
          \/ rm'[y] = rm[y]
          \/ rm[y] \in {"None", "Active", "Idle"} /\ rm'[y] \in {"Active", "RolledBack"}
    /\ engine' = engine /\ asked' = asked
    /\ nextXaId \in Nat /\ nextXaId' \in Nat /\ nextXaId <= nextXaId'
    /\ \A i \in Ids' : i < nextXaId => i \in Ids /\ Handle(i)' = Handle(i)

LEMMA TablesKept ==
  ASSUME IInv, UNCHANGED tableVars
  PROVE  /\ Ids' = Ids /\ \A i \in Ids : Handle(i)' = Handle(i)
         /\ UNCHANGED <<xaActive, xaPreparing, xaPrepared, nextXaId>>
         /\ IdInv' /\ TableTypeOK(xaActive)' /\ TableTypeOK(xaPreparing)'
         /\ TableTypeOK(xaPrepared)' /\ nextXaId' \in 1 .. MaxXaIds + 1
<1>1. UNCHANGED <<xaActive, xaPreparing, xaPrepared, nextXaId>>
  BY DEF tableVars
<1>2. Ids' = Ids /\ \A i : Handle(i)' = Handle(i)
  BY <1>1 DEF Ids, Handle
<1>3. /\ TableTypeOK(xaActive)' /\ TableTypeOK(xaPreparing)' /\ TableTypeOK(xaPrepared)'
      /\ nextXaId' \in 1 .. MaxXaIds + 1
  BY <1>1 DEF IInv, TypeOK, TableTypeOK
<1>4. IdInv'
  BY <1>1, <1>2 DEF IInv, IdInv
<1> QED
  BY <1>1, <1>2, <1>3, <1>4

LEMMA NextIdNat == IInv => nextXaId \in Nat
BY MaxXaIdsAssumption DEF IInv, TypeOK

\* A start that is answered ok.
LEMMA XaStartOkKeeps ==
  ASSUME IInv, NEW c \in Conns, NEW x \in Xids, XaStart(c, x, TRUE)
  PROVE  IInv' /\ Quiet /\ \E n : n = nextXaId /\ Added(n, [conn |-> c, xid |-> x])
<1>1. PICK n, h : n = nextXaId /\ h = [conn |-> c, xid |-> x]
  BY Zenon
<1>2. /\ connState[c] = "Open" /\ n <= MaxXaIds /\ rm[x] = "None"
      /\ \A g \in AllHandles : g.conn # c
      /\ TransactionStart(c, x, TRUE)
      /\ xaActive' = Put(xaActive, n, h) /\ nextXaId' = n + 1
      /\ UNCHANGED <<xaPreparing, xaPrepared, connState, asked, startFailed>>
  BY Zenon, <1>1 DEF XaStart
<1>3. h \in Handles /\ h.conn = c /\ h.xid = x
  BY <1>1 DEF Handles
<1>4. /\ \A i \in Ids : Handle(i).conn # c /\ Handle(i).xid # x
      /\ \A d \in Conns : session[d] # x
  BY <1>2, NoHandleOn, NewBranch
<1>5. Added(n, h) /\ n \in DOMAIN xaActive'
  BY <1>1, <1>2, <1>3, <1>4, AddedActive
<1>6. PICK r \in RmStart(x, Branch(c, x)) :
         /\ r.ok = TRUE /\ rm' = [rm EXCEPT ![x] = r.b.st]
         /\ session' = [session EXCEPT ![c] = r.b.in]
  BY Zenon, <1>2 DEF TransactionStart
<1>7. r.b.st = "Active" /\ r.b.in = x
  BY Zenon, <1>6, StartIs DEF Started
<1>8. /\ rm' = [rm EXCEPT ![x] = "Active"] /\ session' = [session EXCEPT ![c] = x]
      /\ autocommit' = [autocommit EXCEPT ![c] = FALSE] /\ engine' = engine
  BY Zenon, <1>2, <1>6, <1>7 DEF TransactionStart
<1>9. /\ rm'[x] = "Active" /\ session'[c] = x
      /\ \A y \in Xids \ {x} : rm'[y] = rm[y]
      /\ \A d \in Conns \ {c} : session'[d] = session[d] /\ autocommit'[d] = autocommit[d]
  BY <1>8 DEF IInv, TypeOK
<1>10. TypeOK'
  BY <1>2, <1>5, <1>8 DEF IInv, TypeOK, Added, BranchStates
<1>11. ASSUME NEW i \in Ids' PROVE HandleInv(i)'
  <2>1. CASE i = n
    <3>1. Handle(i)' = h /\ connState' = connState
      BY <1>2, <1>5, <2>1 DEF Added
    <3>2. i \notin DOMAIN xaPreparing' /\ i \notin DOMAIN xaPrepared'
      BY <1>5, <2>1 DEF Added, IdInv
    <3> QED
      BY <1>2, <1>3, <1>9, <3>1, <3>2 DEF HandleInv, ActiveBranch
  <2>2. CASE i \in Ids
    <3>1. PICK d \in Conns, y \in Xids : Handle(i).conn = d /\ Handle(i).xid = y
      BY <2>2, HandleTypes
    <3>2. d # c /\ y # x /\ HandleInv(i) /\ Handle(i)' = Handle(i)
      BY <1>4, <1>5, <2>2, <3>1 DEF IInv, Added
    <3>3. /\ i \in DOMAIN xaActive' <=> i \in DOMAIN xaActive
          /\ i \in DOMAIN xaPreparing' <=> i \in DOMAIN xaPreparing
          /\ i \in DOMAIN xaPrepared' <=> i \in DOMAIN xaPrepared
      BY <1>5, <2>2 DEF Added
    <3> QED
      BY <1>2, <1>8, <1>9, <3>1, <3>2, <3>3
      DEF HandleInv, ActiveBranch, PreparingBranch, PreparedBranch
  <2> QED
    BY <1>5, <2>1, <2>2 DEF Added
<1>12. ASSUME NEW d \in Conns PROVE SessionInv(d)'
  <2>1. \A i \in Ids' : (i = n /\ Handle(i)' = h) \/ (i \in Ids /\ Handle(i)' = Handle(i))
    BY <1>5 DEF Added
  <2>2. CASE d = c
    <3>1. \A e \in Conns : session'[e] = x => e = c
      BY <1>4, <1>9
    <3>2. \A i \in Ids' : Handle(i)'.xid = x => Handle(i)'.conn = c
      BY <1>3, <1>4, <2>1
    <3>3. xaActive'[n].conn = c
      BY <1>3, <1>5 DEF Added, Handle, IdInv
    <3> QED
      BY <1>2, <1>5, <1>9, <2>2, <3>1, <3>2, <3>3, NoneAssumption DEF SessionInv
  <2>3. CASE d # c
    <3>1. /\ SessionInv(d) /\ session[d] # x /\ session'[d] = session[d]
          /\ autocommit'[d] = autocommit[d] /\ session[d] \in Xids \cup {None}
      BY <1>4, <1>9, <2>3 DEF IInv, TypeOK
    <3>2. ASSUME session[d] # None
          PROVE  /\ connState'[d] = "Open" /\ rm'[session[d]] \in {"Active", "Idle"}
                 /\ \A e \in Conns : session'[e] = session[d] => e = d
                 /\ \A i \in Ids' : Handle(i)'.xid = session[d] => Handle(i)'.conn = d
      BY <1>2, <1>3, <1>9, <2>1, <3>1, <3>2 DEF SessionInv
    <3>3. ASSUME session[d] # None, engine = "SqlServer"
          PROVE  \E i \in DOMAIN xaActive' : xaActive'[i].conn = d
      <4>1. PICK i \in DOMAIN xaActive : xaActive[i].conn = d
        BY <3>1, <3>3 DEF SessionInv
      <4>2. i \in DOMAIN xaActive' /\ Handle(i)' = Handle(i) /\ Handle(i) = xaActive[i]
        BY <1>5, <4>1, ActiveIs DEF Added
      <4> QED
        BY <1>5, <4>1, <4>2 DEF Handle, Added, IdInv
    <3>4. ASSUME \A i \in (DOMAIN xaActive \cup DOMAIN xaPreparing)' : Handle(i)'.conn # d
          PROVE  \A i \in DOMAIN xaActive \cup DOMAIN xaPreparing : Handle(i).conn # d
      BY <1>5, <3>4 DEF Added, Ids
    <3> QED
      BY Zenon, <1>2, <1>8, <3>1, <3>2, <3>3, <3>4 DEF SessionInv
  <2> QED
    BY <2>2, <2>3
<1>13. DtcInv'
  BY <1>8, <1>9 DEF IInv, DtcInv
<1>14. Quiet
  BY <1>1, <1>2, <1>5, <1>8, <1>9, NextIdNat DEF Quiet, Added
<1> QED
  BY <1>1, <1>5, <1>10, <1>11, <1>12, <1>13, <1>14 DEF IInv, Added

\* A start that is refused.
LEMMA XaStartRefusedKeeps ==
  ASSUME IInv, NEW c \in Conns, NEW x \in Xids, XaStart(c, x, FALSE)
  PROVE  IInv' /\ Quiet
<1>1. /\ connState[c] = "Open" /\ rm[x] = "None" /\ TransactionStart(c, x, FALSE)
      /\ startFailed' = startFailed \cup {c} /\ UNCHANGED tableVars
      /\ UNCHANGED <<connState, asked>>
  BY Zenon DEF XaStart, tableVars
<1>2. /\ \A i \in Ids : Handle(i).xid # x
      /\ \A d \in Conns : session[d] # x
  BY <1>1, NewBranch
<1>3. /\ Ids' = Ids /\ \A i \in Ids : Handle(i)' = Handle(i)
      /\ UNCHANGED <<xaActive, xaPreparing, xaPrepared, nextXaId>>
      /\ IdInv' /\ TableTypeOK(xaActive)' /\ TableTypeOK(xaPreparing)'
      /\ TableTypeOK(xaPrepared)' /\ nextXaId' \in 1 .. MaxXaIds + 1
  BY <1>1, TablesKept
<1>4. PICK b : b = Branch(c, x)
  OBVIOUS
<1>5. PICK r \in RmStart(x, b) :
         /\ r.ok = FALSE /\ rm' = [rm EXCEPT ![x] = r.b.st]
         /\ session' = [session EXCEPT ![c] = r.b.in]
  BY Zenon, <1>1, <1>4 DEF TransactionStart
<1>6. b.st = "None" /\ b.in = session[c]
  BY <1>1, <1>4 DEF Branch
<1>7. PICK a : a = r.b
  OBVIOUS
<1>8. a.st \in {"None", "RolledBack"} /\ a.in = session[c]
  BY Zenon, <1>5, <1>6, <1>7, StartIs DEF Started
<1>9. /\ rm' = [rm EXCEPT ![x] = a.st] /\ session' = session
      /\ autocommit' = [autocommit EXCEPT ![c] = FALSE] /\ engine' = engine
  BY Zenon, <1>1, <1>5, <1>7, <1>8 DEF TransactionStart, IInv, TypeOK
<1>10. /\ rm'[x] \in {"None", "RolledBack"} /\ \A y \in Xids \ {x} : rm'[y] = rm[y]
       /\ \A d \in Conns \ {c} : autocommit'[d] = autocommit[d]
  BY <1>8, <1>9 DEF IInv, TypeOK
<1>11. TypeOK'
  BY <1>1, <1>3, <1>8, <1>9 DEF IInv, TypeOK, BranchStates
<1>12. ASSUME NEW i \in Ids' PROVE HandleInv(i)'
  <2>1. PICK d \in Conns, y \in Xids : Handle(i).conn = d /\ Handle(i).xid = y
    BY <1>3, HandleTypes
  <2>2. y # x /\ HandleInv(i) /\ Handle(i)' = Handle(i)
    BY <1>2, <1>3, <2>1 DEF IInv
  <2> QED
    BY <1>1, <1>3, <1>9, <1>10, <2>1, <2>2
    DEF HandleInv, ActiveBranch, PreparingBranch, PreparedBranch
<1>13. ASSUME NEW d \in Conns PROVE SessionInv(d)'
  <2>1. /\ SessionInv(d) /\ session[d] \in Xids \cup {None} /\ session[d] # x
        /\ d # c => autocommit'[d] = autocommit[d]
    BY <1>2, <1>10 DEF IInv, TypeOK
  <2>2. session[d] # None => rm'[session[d]] = rm[session[d]]
    BY <1>10, <2>1
  <2>3. d \notin startFailed' => d # c /\ d \notin startFailed
    BY <1>1
  <2>4. \A i \in DOMAIN xaActive \cup DOMAIN xaPreparing : Handle(i)' = Handle(i)
    BY <1>3 DEF Ids
  <2> QED
    BY <1>1, <1>3, <1>9, <2>1, <2>2, <2>3, <2>4 DEF SessionInv
<1>14. DtcInv'
  BY <1>9, <1>10 DEF IInv, DtcInv
<1>15. Quiet
  BY <1>1, <1>3, <1>9, <1>10, NextIdNat DEF Quiet
<1> QED
  BY <1>3, <1>11, <1>12, <1>13, <1>14, <1>15 DEF IInv

LEMMA XaResumePreparedKeeps ==
  ASSUME IInv, NEW c \in Conns, NEW x \in Xids, XaResumePrepared(c, x)
  PROVE  IInv' /\ Quiet
<1>1. PICK n, h : n = nextXaId /\ h = [conn |-> c, xid |-> x]
  BY Zenon
<1>2. /\ connState[c] = "Open" /\ n <= MaxXaIds /\ rm[x] = "Prepared"
      /\ \A g \in AllHandles : g.xid # x /\ g.conn # c
      /\ xaPrepared' = Put(xaPrepared, n, h) /\ nextXaId' = n + 1
      /\ UNCHANGED <<engine, rm, session, autocommit>>
      /\ UNCHANGED <<xaActive, xaPreparing, connState, asked, startFailed>>
  BY <1>1 DEF XaResumePrepared, Recovered, rmVars
<1>3. h \in Handles /\ h.conn = c /\ h.xid = x
  BY <1>1 DEF Handles
<1>4. /\ \A i \in Ids : Handle(i).conn # c /\ Handle(i).xid # x
      /\ \A d \in Conns : session[d] # x
  BY Zenon, <1>2, NoHandleOn, NoHandleOf, SessionBranch, NoneAssumption
<1>5. Added(n, h) /\ n \in DOMAIN xaPrepared'
  BY <1>1, <1>2, <1>3, <1>4, AddedPrepared
<1>6. TypeOK'
  BY <1>2, <1>5 DEF IInv, TypeOK, Added
<1>7. ASSUME NEW i \in Ids' PROVE HandleInv(i)'
  <2>1. CASE i = n
    <3>1. Handle(i)' = h /\ i \notin DOMAIN xaPreparing' /\ i \notin DOMAIN xaActive'
      BY <1>5, <2>1 DEF Added, IdInv
    <3>2. engine # "SqlServer"
      BY Zenon, <1>2 DEF IInv, DtcInv
    <3> QED
      BY <1>2, <1>3, <3>1, <3>2 DEF HandleInv, PreparedBranch
  <2>2. CASE i \in Ids
    <3>1. /\ HandleInv(i) /\ Handle(i)' = Handle(i)
          /\ i \in DOMAIN xaActive' <=> i \in DOMAIN xaActive
          /\ i \in DOMAIN xaPreparing' <=> i \in DOMAIN xaPreparing
          /\ i \in DOMAIN xaPrepared' <=> i \in DOMAIN xaPrepared
      BY Zenon, <1>5, <2>2 DEF IInv, Added
    <3> QED
      BY <1>2, <3>1 DEF HandleInv, ActiveBranch, PreparingBranch, PreparedBranch
  <2> QED
    BY <1>5, <2>1, <2>2 DEF Added
<1>8. ASSUME NEW d \in Conns PROVE SessionInv(d)'
  <2>1. \A i \in Ids' : (i = n /\ Handle(i)' = h) \/ (i \in Ids /\ Handle(i)' = Handle(i))
    BY <1>5 DEF Added
  <2>2. SessionInv(d) /\ session[d] # x
    BY <1>4 DEF IInv
  <2>3. \A i \in DOMAIN xaActive \cup DOMAIN xaPreparing : Handle(i)' = Handle(i)
    BY <1>5 DEF Added, Ids
  <2>4. ASSUME session[d] # None
        PROVE  \A i \in Ids' : Handle(i)'.xid = session[d] => Handle(i)'.conn = d
    BY <1>3, <2>1, <2>2, <2>4 DEF SessionInv
  <2> QED
    BY <1>2, <2>2, <2>3, <2>4 DEF SessionInv
<1>9. DtcInv'
  BY <1>2 DEF IInv, DtcInv
<1>10. Quiet
  BY <1>1, <1>2, <1>5, NextIdNat DEF Quiet, Added
<1> QED
  BY <1>5, <1>6, <1>7, <1>8, <1>9, <1>10 DEF IInv, Added

LEMMA ConnectKeeps ==
  ASSUME IInv, NEW c \in Conns, Connect(c)
  PROVE  IInv' /\ Quiet
<1>1. /\ connState[c] = "New" /\ connState' = [connState EXCEPT ![c] = "Open"]
      /\ UNCHANGED <<engine, rm, session, autocommit, asked, startFailed>>
      /\ UNCHANGED tableVars
  BY DEF Connect, rmVars
<1>2. /\ Ids' = Ids /\ \A i \in Ids : Handle(i)' = Handle(i)
      /\ UNCHANGED <<xaActive, xaPreparing, xaPrepared, nextXaId>>
      /\ IdInv' /\ TableTypeOK(xaActive)' /\ TableTypeOK(xaPreparing)'
      /\ TableTypeOK(xaPrepared)' /\ nextXaId' \in 1 .. MaxXaIds + 1
  BY <1>1, TablesKept
<1>3. connState'[c] = "Open" /\ \A d \in Conns \ {c} : connState'[d] = connState[d]
  BY <1>1 DEF IInv, TypeOK
<1>4. TypeOK'
  BY Zenon, <1>1, <1>2 DEF IInv, TypeOK
<1>5. ASSUME NEW i \in Ids' PROVE HandleInv(i)'
  <2>1. PICK d \in Conns : Handle(i).conn = d
    BY <1>2, HandleTypes
  <2>2. HandleInv(i) /\ Handle(i)' = Handle(i)
    BY <1>2 DEF IInv
  <2>3. d # c /\ connState'[d] = connState[d]
    BY <1>1, <1>3, <2>1, <2>2 DEF HandleInv
  <2> QED
    BY <1>1, <1>2, <2>1, <2>2, <2>3
    DEF HandleInv, ActiveBranch, PreparingBranch, PreparedBranch
<1>6. ASSUME NEW d \in Conns PROVE SessionInv(d)'
  <2>1. SessionInv(d) /\ \A i \in DOMAIN xaActive \cup DOMAIN xaPreparing : Handle(i)' = Handle(i)
    BY <1>2 DEF IInv, Ids
  <2>2. /\ connState'[d] = "Closed" <=> connState[d] = "Closed"
        /\ connState[d] = "Open" => connState'[d] = "Open"
    BY <1>1, <1>3
  <2> QED
    BY <1>1, <1>2, <2>1, <2>2 DEF SessionInv
<1>7. DtcInv'
  BY <1>1 DEF IInv, DtcInv
<1>8. Quiet
  BY <1>1, <1>2, NextIdNat DEF Quiet
<1> QED
  BY <1>2, <1>4, <1>5, <1>6, <1>7, <1>8 DEF IInv

LEMMA DisconnectIs ==
  ASSUME IInv, NEW c \in Conns, Disconnect(c)
  PROVE  /\ connState[c] = "Open" /\ connState'[c] = "Closed" /\ session'[c] = None
         /\ \A d \in Conns \ {c} : connState'[d] = connState[d] /\ session'[d] = session[d]
         /\ \A x \in Xids : \/ session[c] = x /\ rm'[x] = "RolledBack"
                            \/ session[c] # x /\ rm'[x] = rm[x]
         /\ UNCHANGED <<engine, autocommit, asked, startFailed>> /\ UNCHANGED tableVars
         /\ connState' \in [Conns -> {"New", "Open", "Closed"}]
         /\ session' \in [Conns -> Xids \cup {None}]
         /\ rm' \in [Xids -> BranchStates]
<1>1. /\ connState[c] = "Open"
      /\ connState' = [d \in Conns |-> IF d = c THEN "Closed" ELSE connState[d]]
      /\ rm' = [x \in Xids |-> IF session[c] = x THEN "RolledBack" ELSE rm[x]]
      /\ session' = [d \in Conns |-> IF d = c THEN None ELSE session[d]]
      /\ UNCHANGED <<engine, autocommit, asked, startFailed>>
      /\ UNCHANGED tableVars
  BY DEF Disconnect, SessionsEnd
<1> QED
  BY <1>1 DEF IInv, TypeOK, BranchStates

LEMMA DisconnectHandle ==
  ASSUME IInv, NEW c \in Conns, Disconnect(c), NEW i \in Ids, Handle(i)' = Handle(i),
         UNCHANGED <<xaActive, xaPreparing, xaPrepared>>
  PROVE  HandleInv(i)'
<1>1. PICK d \in Conns, y \in Xids : Handle(i).conn = d /\ Handle(i).xid = y
  BY HandleTypes
<1>2. HandleInv(i) /\ SessionInv(c)
  BY DEF IInv
<1>3. session[c] = y => d = c /\ i \notin DOMAIN xaPrepared
  <2>1. session[c] = y => d = c
    BY Zenon, <1>1, <1>2, NoneAssumption DEF SessionInv
  <2>2. i \in DOMAIN xaPrepared => xaPrepared[i].xid = y
    BY Zenon, <1>1, PreparedIs
  <2> QED
    BY Zenon, <2>1, <2>2, PreparedOutside
<1>4. engine' = engine /\ connState'[d] # "New"
  BY Zenon, <1>1, <1>2, DisconnectIs DEF HandleInv
<1>5. CASE session[c] = y
  <2>1. connState[d] = "Open" /\ connState'[d] = "Closed" /\ rm'[y] = "RolledBack"
    BY <1>3, <1>5, DisconnectIs
  <2>2. i \in DOMAIN xaActive => ActiveBranch(d, y)'
    BY <2>1 DEF ActiveBranch
  <2>3. i \in DOMAIN xaPreparing => PreparingBranch(d, y)'
    BY Zenon, <1>1, <1>2, <1>3, <1>4, <1>5, <2>1, NoneAssumption DEF HandleInv, PreparingBranch
  <2> QED
    BY <1>1, <1>3, <1>4, <1>5, <2>2, <2>3 DEF HandleInv
<1>6. CASE session[c] # y
  <2>1. rm'[y] = rm[y]
    BY <1>6, DisconnectIs
  <2>2. \/ connState'[d] = connState[d] /\ session'[d] = session[d]
        \/ d = c /\ connState[d] = "Open" /\ connState'[d] = "Closed"
    BY DisconnectIs
  <2>3. i \in DOMAIN xaActive => ActiveBranch(d, y)'
    BY Zenon, <1>1, <1>2, <1>6, <2>1, <2>2 DEF HandleInv, ActiveBranch
  <2>4. i \in DOMAIN xaPreparing => PreparingBranch(d, y)'
    BY Zenon, <1>1, <1>2, <1>4, <1>6, <2>1, <2>2 DEF HandleInv, PreparingBranch
  <2>5. i \in DOMAIN xaPrepared => PreparedBranch(y)'
    BY <1>1, <1>2, <1>4, <2>1 DEF HandleInv, PreparedBranch
  <2> QED
    BY <1>1, <1>4, <2>3, <2>4, <2>5 DEF HandleInv
<1> QED
  BY <1>5, <1>6

LEMMA DisconnectSession ==
  ASSUME IInv, NEW c \in Conns, Disconnect(c), NEW d \in Conns,
         Ids' = Ids, \A i \in Ids : Handle(i)' = Handle(i),
         UNCHANGED <<xaActive, xaPreparing, xaPrepared>>
  PROVE  SessionInv(d)'
<1>1. CASE d = c
  BY Zenon, <1>1, DisconnectIs DEF SessionInv
<1>2. CASE d # c
  <2>1. /\ session'[d] = session[d] /\ connState'[d] = connState[d]
        /\ UNCHANGED <<engine, autocommit, startFailed>>
    BY <1>2, DisconnectIs
  <2>2. SessionInv(d) /\ session[d] \in Xids \cup {None}
    BY Zenon DEF IInv, TypeOK
  <2>3. session[d] # None => session[c] # session[d] /\ rm'[session[d]] = rm[session[d]]
    BY Zenon, <1>2, <2>2, DisconnectIs DEF SessionInv
  <2>4. \A e \in Conns : session'[e] = session[e] \/ session'[e] = None
    BY Zenon, DisconnectIs
  <2>5. \A i \in DOMAIN xaActive \cup DOMAIN xaPreparing : Handle(i)' = Handle(i)
    BY DEF Ids
  <2> QED
    BY Zenon, <2>1, <2>2, <2>3, <2>4, <2>5 DEF SessionInv
<1> QED
  BY <1>1, <1>2

LEMMA DisconnectKeeps ==
  ASSUME IInv, NEW c \in Conns, Disconnect(c)
  PROVE  IInv' /\ Quiet
<1>1. UNCHANGED tableVars /\ engine' = engine /\ asked' = asked
  BY DisconnectIs
<1>2. /\ Ids' = Ids /\ \A i \in Ids : Handle(i)' = Handle(i)
      /\ UNCHANGED <<xaActive, xaPreparing, xaPrepared, nextXaId>>
      /\ IdInv' /\ TableTypeOK(xaActive)' /\ TableTypeOK(xaPreparing)'
      /\ TableTypeOK(xaPrepared)' /\ nextXaId' \in 1 .. MaxXaIds + 1
  BY Zenon, <1>1, TablesKept
<1>3. TypeOK'
  BY <1>2, DisconnectIs DEF IInv, TypeOK
<1>4. \A i \in Ids' : HandleInv(i)'
  BY <1>2, DisconnectHandle
<1>5. \A d \in Conns : SessionInv(d)'
  BY <1>2, DisconnectSession
<1>6. \A x \in Xids : \/ rm'[x] = rm[x]
                      \/ rm[x] \in {"Active", "Idle"} /\ rm'[x] = "RolledBack"
  BY DisconnectIs, SessionBranch, NoneAssumption
<1>7. DtcInv'
  BY Zenon, <1>1, <1>6 DEF IInv, DtcInv
<1>8. Quiet
  BY <1>1, <1>2, <1>6, NextIdNat DEF Quiet
<1> QED
  BY Zenon, <1>2, <1>3, <1>4, <1>5, <1>7, <1>8 DEF IInv

LEMMA CrashKeeps ==
  ASSUME IInv, Crash
  PROVE  IInv' /\ Quiet
<1>1. PICK open : open = {c \in Conns : connState[c] = "Open"}
  BY Zenon
<1>2. /\ connState' = [c \in Conns |-> IF c \in open THEN "Closed" ELSE connState[c]]
      /\ rm' = [x \in Xids |->
                  IF \/ \E c \in open : session[c] = x
                     \/ engine = "SqlServer" /\ rm[x] = "Idle"
                  THEN "RolledBack" ELSE rm[x]]
      /\ session' = [c \in Conns |-> None]
      /\ xaActive' = NoHandles /\ xaPreparing' = NoHandles /\ xaPrepared' = NoHandles
      /\ UNCHANGED <<engine, autocommit, nextXaId, asked, startFailed>>
  BY <1>1 DEF Crash
<1>3. Ids' = {} /\ DOMAIN NoHandles = {} /\ NoHandles \in [{} -> Handles]
  BY <1>2 DEF Ids, NoHandles
<1>4. TypeOK'
  BY Zenon, <1>2, <1>3 DEF IInv, TypeOK, TableTypeOK, BranchStates
<1>5. IdInv'
  BY Zenon, <1>2, <1>3 DEF IdInv
<1>6. ASSUME NEW d \in Conns PROVE SessionInv(d)'
  <2>1. connState'[d] # "Closed" => connState[d] = "New"
    BY <1>1, <1>2 DEF IInv, TypeOK
  <2>2. connState[d] = "New" => \A i \in Ids : Handle(i).conn # d
    BY Zenon DEF IInv, HandleInv
  <2>3. connState[d] = "New" /\ d \notin startFailed => autocommit[d]
    BY Zenon, <2>2 DEF IInv, SessionInv, Ids
  <2>4. session'[d] = None
    BY <1>2
  <2> QED
    BY <1>2, <2>1, <2>3, <2>4 DEF SessionInv
<1>7. \A x \in Xids : \/ rm'[x] = rm[x]
                      \/ rm[x] \in {"Active", "Idle"} /\ rm'[x] = "RolledBack"
  <2>1. \A c \in Conns, x \in Xids : session[c] = x => rm[x] \in {"Active", "Idle"}
    BY Zenon, SessionBranch, NoneAssumption
  <2> QED
    BY <1>1, <1>2, <2>1
<1>8. DtcInv'
  BY <1>2, <1>7 DEF IInv, DtcInv
<1>9. Quiet
  BY <1>2, <1>3, <1>7, NextIdNat DEF Quiet
<1> QED
  BY <1>3, <1>4, <1>5, <1>6, <1>8, <1>9 DEF IInv
-----------------------------------------------------------------------------
LEMMA CallKeeps ==
  ASSUME IInv, NEW id, NEW ok \in BOOLEAN, XaCall(id, ok)
  PROVE  id \in Ids /\ IInv' /\ CallEffect(id)
<1>1. CASE XaEnd(id, ok)
  BY <1>1, XaEndKeeps
<1>2. CASE XaPrepare(id, ok)
  BY <1>2, XaPrepareKeeps
<1>3. CASE XaCommitPrepared(id, ok)
  <2>1. /\ PhaseTwo(id, ok, "commit", "Committed") /\ id \in DOMAIN xaPrepared
        /\ asked' = asked \cup {xaPrepared[id].xid}
    BY <1>3 DEF XaCommitPrepared, PhaseTwo
  <2>2. asked \subseteq Xids /\ xaPrepared[id].xid \in Xids
    BY <2>1, PreparedIs DEF IInv, TypeOK
  <2> QED
    BY <2>1, <2>2, PhaseTwoKeeps
<1>4. CASE XaRollbackPrepared(id, ok)
  <2>1. PhaseTwo(id, ok, "rollback", "RolledBack") /\ asked' = asked /\ asked \subseteq Xids
    BY <1>4 DEF XaRollbackPrepared, IInv, TypeOK
  <2> QED
    BY <2>1, PhaseTwoKeeps
<1>5. CASE XaCommitOnePhase(id, ok)
  BY <1>5, XaCommitOnePhaseKeeps
<1>6. CASE XaRollbackActive(id, ok)
  BY <1>6, XaRollbackActiveKeeps
<1> QED
  BY <1>1, <1>2, <1>3, <1>4, <1>5, <1>6 DEF XaCall

LEMMA StutterKeeps ==
  ASSUME IInv, UNCHANGED vars
  PROVE  IInv' /\ Quiet
<1>1. /\ UNCHANGED <<engine, rm, session, autocommit, connState, asked, startFailed>>
      /\ UNCHANGED tableVars
  BY DEF vars, rmVars
<1>2. /\ Ids' = Ids /\ \A i \in Ids : Handle(i)' = Handle(i)
      /\ UNCHANGED <<xaActive, xaPreparing, xaPrepared, nextXaId>>
      /\ IdInv' /\ TableTypeOK(xaActive)' /\ TableTypeOK(xaPreparing)'
      /\ TableTypeOK(xaPrepared)' /\ nextXaId' \in 1 .. MaxXaIds + 1
  BY <1>1, TablesKept
<1>3. TypeOK' /\ DtcInv'
  BY Zenon, <1>1, <1>2 DEF IInv, TypeOK, DtcInv
<1>4. \A i \in Ids' : HandleInv(i)'
  BY Zenon, <1>1, <1>2 DEF IInv, HandleInv, ActiveBranch, PreparingBranch, PreparedBranch
<1>5. ASSUME NEW c \in Conns PROVE SessionInv(c)'
  <2>1. \A i \in DOMAIN xaActive \cup DOMAIN xaPreparing : Handle(i)' = Handle(i)
    BY <1>2 DEF Ids
  <2> QED
    BY <1>1, <1>2, <2>1 DEF IInv, SessionInv
<1> QED
  BY <1>1, <1>2, <1>3, <1>4, <1>5, NextIdNat DEF IInv, Quiet

LEMMA StepKeeps ==
  ASSUME IInv, [Next]_vars
  PROVE  IInv' /\ (Quiet \/ \E id \in Ids : CallEffect(id))
<1>1. CASE \E c \in Conns : Connect(c) \/ Disconnect(c)
  BY <1>1, ConnectKeeps, DisconnectKeeps
<1>2. CASE Crash
  BY <1>2, CrashKeeps
<1>3. CASE \E c \in Conns, x \in Xids, ok \in BOOLEAN : XaStart(c, x, ok)
  <2>1. PICK c \in Conns, x \in Xids : XaStart(c, x, TRUE) \/ XaStart(c, x, FALSE)
    BY Zenon, <1>3
  <2> QED
    BY Zenon, <2>1, XaStartOkKeeps, XaStartRefusedKeeps
<1>4. CASE \E id \in XaIds, ok \in BOOLEAN : XaCall(id, ok)
  BY <1>4, CallKeeps
<1>5. CASE \E c \in Conns, x \in Xids : XaResumePrepared(c, x)
  BY <1>5, XaResumePreparedKeeps
<1>6. CASE UNCHANGED vars
  BY <1>6, StutterKeeps
<1> QED
  BY <1>1, <1>2, <1>3, <1>4, <1>5, <1>6 DEF Next

LEMMA Invariance == Spec => []IInv
BY InitIInv, StepKeeps, PTL DEF Spec

\* The invariant says where the branch of every handle is.
LEMMA TracksBranches == IInv => HandlesTrackBranches
<1> SUFFICES ASSUME IInv PROVE HandlesTrackBranches
  OBVIOUS
<1>1. ASSUME NEW id \in DOMAIN xaActive, Reachable(xaActive[id])
      PROVE  rm[xaActive[id].xid] = "Active" /\ session[xaActive[id].conn] = xaActive[id].xid
  BY Zenon, <1>1, ActiveIs DEF ActiveBranch, Reachable
<1>2. ASSUME NEW id \in DOMAIN xaPreparing, Reachable(xaPreparing[id])
      PROVE  rm[xaPreparing[id].xid] = IF engine = "Postgres" THEN "Active" ELSE "Idle"
  BY <1>2, PreparingIs DEF PreparingBranch, Reachable
<1>3. ASSUME NEW id \in DOMAIN xaPrepared
      PROVE  rm[xaPrepared[id].xid] \in
                IF engine = "SqlServer" THEN {"Idle"} ELSE {"Prepared", "ReadOnly"}
  BY PreparedIs DEF PreparedBranch
<1>4. ASSUME NEW i \in DOMAIN xaPrepared, NEW j \in DOMAIN xaPrepared,
             xaPrepared[i].xid = xaPrepared[j].xid
      PROVE  i = j
  BY <1>4, PreparedIs DEF IInv, IdInv
<1>5. ASSUME NEW c \in Conns \ startFailed, connState[c] = "Open", session[c] = None,
             \A h \in AllHandles : h.conn # c
      PROVE  autocommit[c]
  <2>1. \A id \in Ids : Handle(id).conn # c
    BY <1>5, NoHandleOn
  <2> QED
    BY <1>5, <2>1 DEF IInv, SessionInv, Ids
<1> QED
  BY <1>1, <1>2, <1>3, <1>4, <1>5 DEF HandlesTrackBranches

\* A handle knows what its branch is doing, whatever the resource manager refuses
\* and whenever connections close or the process dies: every odbc_xa_* call moves
\* the handle to the table that tells the state of the branch, or drops it.
THEOREM HandlesTrack == Spec => []HandlesTrackBranches
BY Invariance, TracksBranches, PTL

\* The step that PreparedIsStable speaks of.
PreparedStep ==
    \A x \in Xids : rm[x] = "Prepared" /\ rm'[x] # "Prepared" =>
          /\ connState' = connState
          /\ \E id \in DOMAIN xaPrepared :
                xaPrepared[id].xid = x /\ id \notin DOMAIN xaPrepared'

LEMMA PreparedStays ==
  ASSUME IInv, [Next]_vars
  PROVE  PreparedStep
<1> SUFFICES ASSUME NEW x \in Xids, rm[x] = "Prepared", rm'[x] # "Prepared"
             PROVE  /\ connState' = connState
                    /\ \E id \in DOMAIN xaPrepared :
                          xaPrepared[id].xid = x /\ id \notin DOMAIN xaPrepared'
  BY DEF PreparedStep
<1>1. ~Quiet
  BY DEF Quiet
<1>2. PICK id \in Ids : CallEffect(id)
  BY Zenon, <1>1, StepKeeps
<1>3. Handle(id).xid = x /\ connState' = connState
  BY <1>2 DEF CallEffect, RmStep
<1>4. id \in DOMAIN xaPrepared /\ xaPrepared[id].xid = x
  BY <1>3, HandleBranch, PreparedIs
<1> QED
  BY <1>2, <1>3, <1>4 DEF CallEffect

\* A prepared branch survives disconnects and crashes, and no call touches it but
\* one that spends a handle of it in xa_prepared.
THEOREM PreparedStable == Spec => PreparedIsStable
<1>1. IInv /\ [Next]_vars => [PreparedStep]_vars
  BY PreparedStays
<1>2. Spec => [][PreparedStep]_vars
  BY <1>1, Invariance, PTL DEF Spec
<1> QED
  BY <1>2 DEF PreparedIsStable, PreparedStep

LEMMA CommitsAsked ==
  ASSUME IInv, [Next]_vars, engine = "Postgres" => "plain_rollback" \notin RmFaults,
         OnlyAskedCommits
  PROVE  OnlyAskedCommits'
<1> SUFFICES ASSUME NEW x \in Xids, rm'[x] = "Committed" PROVE x \in asked'
  BY DEF OnlyAskedCommits
<1>1. CASE Quiet
  BY <1>1 DEF Quiet, OnlyAskedCommits
<1>2. CASE \E id \in Ids : CallEffect(id)
  <2>1. PICK id \in Ids : CallEffect(id)
    BY <1>2
  <2>2. CASE x = Handle(id).xid
    BY Zenon, <2>1, <2>2 DEF CallEffect
  <2>3. CASE x # Handle(id).xid
    BY Zenon, <2>1, <2>3 DEF CallEffect, RmStep, OnlyAskedCommits
  <2> QED
    BY <2>2, <2>3
<1> QED
  BY <1>1, <1>2, StepKeeps

LEMMA EngineStays ==
  ASSUME IInv, [Next]_vars
  PROVE  engine' = engine
BY StepKeeps DEF Quiet, CallEffect, RmStep

\* No branch is committed that nobody asked to commit, unless PostgreSQL refuses a
\* rollback: XaTransaction then restores autocommit in an open transaction, which
\* commits it.  At the other engines nothing has to be assumed.
THEOREM CommitsOnlyAsked ==
  Spec => []((engine = "Postgres" => "plain_rollback" \notin RmFaults) => OnlyAskedCommits)
<1> DEFINE A == (engine = "Postgres" => "plain_rollback" \notin RmFaults) => OnlyAskedCommits
<1>1. Init => A
  BY DEF Init, OnlyAskedCommits
<1>2. IInv /\ A /\ [Next]_vars => A'
  BY CommitsAsked, EngineStays
<1> QED
  BY <1>1, <1>2, Invariance, PTL DEF Spec
-----------------------------------------------------------------------------
(* The helpers.                                                            *)

\* A helper's branch is that of its handle, while there is one; a helper that
\* has reported success has committed it.
HelperOK(h) ==
    /\ h \in Runs /\ h.id < nextXaId
    /\ h.id \in Ids => Handle(h.id).xid = h.xid
    /\ h.phase = "Success" => rm[h.xid] \in {"Committed", "ReadOnly"}

HelperInv == helper # None => HelperOK(helper)

\* Whoever takes a native step, it keeps what a helper relies on.
LEMMA NativeStepKeeps ==
  ASSUME IInv, [Next]_vars, NEW h, HelperOK(h)
  PROVE  HelperOK(h)'
<1>1. h \in Runs /\ h.id \in Nat /\ h.xid \in Xids /\ nextXaId \in Nat
  BY NextIdNat DEF HelperOK, Runs, XaIds
<1>2. CASE Quiet
  <2>1. h.id < nextXaId'
    BY <1>1, <1>2 DEF Quiet, HelperOK
  <2>2. h.id \in Ids' => Handle(h.id)'.xid = h.xid
    BY <1>2 DEF Quiet, HelperOK
  <2>3. h.phase = "Success" => rm'[h.xid] \in {"Committed", "ReadOnly"}
    BY <1>1, <1>2 DEF Quiet, HelperOK
  <2> QED
    BY <1>1, <2>1, <2>2, <2>3 DEF HelperOK
<1>3. CASE \E id \in Ids : CallEffect(id)
  <2>1. PICK id \in Ids : CallEffect(id)
    BY Zenon, <1>3
  <2>2. /\ Ids' \subseteq Ids /\ nextXaId' = nextXaId
        /\ \A i \in Ids' : Handle(i)' = Handle(i)
    BY <2>1, TableStepKeeps DEF CallEffect, TableStep
  <2>3. h.phase = "Success" => rm'[h.xid] \in {"Committed", "ReadOnly"}
    <3>1. CASE h.xid = Handle(id).xid
      BY Zenon, <2>1, <3>1, HandleBranch DEF CallEffect, HelperOK
    <3>2. CASE h.xid # Handle(id).xid
      BY <1>1, <2>1, <3>2 DEF CallEffect, RmStep, HelperOK
    <3> QED
      BY Zenon, <3>1, <3>2
  <2> QED
    BY <1>1, <2>2, <2>3 DEF HelperOK
<1> QED
  BY <1>2, <1>3, StepKeeps

\* A helper that goes to a phase other than Success, or has delivered.
LEMMA GoesKeeps ==
  ASSUME NEW h, HelperOK(h)', NEW p \in Phases, NEW s \in DartStates,
         p = "Success" => rm'[h.xid] \in {"Committed", "ReadOnly"},
         helper' = [h EXCEPT !.phase = p, !.state = s]
  PROVE  HelperInv'
<1>1. h \in Runs
  BY DEF HelperOK
<1>2. PICK a : a = [h EXCEPT !.phase = p]
  BY Zenon
<1>3. a \in Runs /\ a.id = h.id /\ a.xid = h.xid /\ a.phase = p
  BY <1>1, <1>2 DEF Runs
<1>4. helper' = [a EXCEPT !.state = s]
  BY <1>1, <1>2 DEF Runs
<1>5. helper' \in Runs /\ helper'.id = h.id /\ helper'.xid = h.xid /\ helper'.phase = p
  BY <1>3, <1>4 DEF Runs
<1>6. PICK g : g = helper'
  OBVIOUS
<1>7. HelperOK(g)'
  BY <1>5, <1>6 DEF HelperOK
<1> QED
  BY <1>6, <1>7 DEF HelperInv, HelperOK

\* A call made with the helper's id is one of the native calls, or none.
LEMMA CallsAreNative ==
  ASSUME IInv, NEW id, NEW ok \in BOOLEAN,
         \/ XaEnd(id, ok) \/ XaPrepare(id, ok) \/ XaCommitPrepared(id, ok)
         \/ XaRollbackPrepared(id, ok) \/ XaCommitOnePhase(id, ok)
         \/ XaRollbackActive(id, ok) \/ UNCHANGED vars
  PROVE  [Next]_vars
<1>1. CASE XaCall(id, ok)
  <2>1. id \in XaIds
    BY <1>1, CallKeeps, HandleTypes
  <2> QED
    BY Zenon, <1>1, <2>1 DEF Next
<1> QED
  BY <1>1 DEF XaCall

\* A step of the lifecycle that the helper's next phase depends on.
LEMMA StepGoes ==
  ASSUME IInv, NEW h, h = helper, HelperOK(h), [Next]_vars,
         NEW p \in Phases \ {"Success"}, NEW s \in DartStates, Goes(p, s)
  PROVE  HelperInv'
BY Zenon, NativeStepKeeps, GoesKeeps DEF Goes

LEMMA LifecycleKeeps ==
  ASSUME IInv, HelperInv,
         \/ HEnd \/ HPrepare \/ HAbort \/ HUndo \/ \E succeeds \in BOOLEAN : HActionEnds(succeeds)
  PROVE  [Next]_vars /\ HelperInv'
<1>1. PICK h : h = helper
  OBVIOUS
<1>2. HelperOK(h) /\ h.state \in DartStates /\ AfterRefusal \in Phases \ {"Success"}
  BY <1>1 DEF HelperInv, HelperOK, Runs, AfterRefusal, Phases, Running,
     HEnd, HPrepare, HAbort, HUndo, HActionEnds, HStep
<1>3. PICK ok \in BOOLEAN, p \in Phases \ {"Success"}, s \in DartStates :
         /\ Goes(p, s)
         /\ \/ XaEnd(h.id, ok) \/ XaPrepare(h.id, ok) \/ XaRollbackPrepared(h.id, ok)
            \/ XaRollbackActive(h.id, ok) \/ UNCHANGED vars
  <2>1. CASE HEnd
    BY <1>1, <1>2, <2>1 DEF HEnd, HStep, Calls, Phases, DartStates
  <2>2. CASE HPrepare
    BY <1>1, <1>2, <2>2 DEF HPrepare, HStep, Calls, Phases, DartStates
  <2>3. CASE HAbort
    BY Zenon, <1>1, <1>2, <2>3 DEF HAbort, Calls, Phases, DartStates
  <2>4. CASE HUndo
    BY <1>1, <1>2, <2>4 DEF HUndo, Calls, Phases, DartStates
  <2>5. CASE \E succeeds \in BOOLEAN : HActionEnds(succeeds)
    BY <1>1, <1>2, <2>5 DEF HActionEnds, Phases
  <2> QED
    BY Zenon, <2>1, <2>2, <2>3, <2>4, <2>5
<1>4. [Next]_vars
  BY <1>3, CallsAreNative
<1> QED
  BY <1>1, <1>2, <1>3, <1>4, StepGoes

\* The commit of a branch: success is reported when the answer was ok.
LEMMA CommitKeeps ==
  ASSUME IInv, HelperInv, HCommitPrepared \/ HCommitOnePhase
  PROVE  [Next]_vars /\ HelperInv'
<1>1. PICK h : h = helper
  OBVIOUS
<1>2. HelperOK(h) /\ AfterRefusal \in Phases \ {"Success"}
  BY <1>1 DEF HelperInv, AfterRefusal, Phases, Running, HCommitPrepared, HCommitOnePhase, HStep
<1>3. PICK ok \in BOOLEAN :
         /\ IF ok THEN Goes("Success", "committed") ELSE Goes(AfterRefusal, "failed")
         /\ \/ XaCommitPrepared(h.id, ok) \/ XaCommitOnePhase(h.id, ok)
            \/ ~ok /\ UNCHANGED vars
  BY <1>1 DEF HCommitPrepared, HCommitOnePhase, HStep, Calls
<1>4. [Next]_vars
  BY <1>3, CallsAreNative
<1>5. CASE ~ok
  BY <1>1, <1>2, <1>3, <1>4, <1>5, StepGoes DEF DartStates
<1>6. CASE ok
  <2>1. h.id \in Ids /\ Delivers(ok, "Committed", h.id)
    <3>1. CASE XaCommitPrepared(h.id, ok)
      <4>1. /\ PhaseTwo(h.id, ok, "commit", "Committed") /\ h.id \in DOMAIN xaPrepared
            /\ asked' = asked \cup {xaPrepared[h.id].xid}
        BY Zenon, <3>1 DEF XaCommitPrepared, PhaseTwo
      <4>2. asked \subseteq Xids /\ xaPrepared[h.id].xid \in Xids
        BY Zenon, <4>1, PreparedIs DEF IInv, TypeOK
      <4>3. /\ asked \subseteq asked' /\ asked' \subseteq Xids
            /\ xaPrepared[h.id].xid \in asked'
        BY <4>1, <4>2
      <4> QED
        BY <4>1, <4>3, PhaseTwoKeeps
    <3>2. CASE XaCommitOnePhase(h.id, ok)
      BY <3>2, XaCommitOnePhaseKeeps
    <3> QED
      BY Zenon, <1>3, <1>6, <3>1, <3>2
  <2>2. rm'[h.xid] \in {"Committed", "ReadOnly"}
    BY <1>2, <1>6, <2>1 DEF Delivers, HelperOK
  <2>3. HelperOK(h)'
    BY <1>2, <1>4, NativeStepKeeps
  <2>4. helper' = [h EXCEPT !.phase = "Success", !.state = "committed"]
    BY <1>1, <1>3, <1>6 DEF Goes
  <2> QED
    BY Zenon, <1>4, <2>2, <2>3, <2>4, GoesKeeps DEF Phases, DartStates
<1> QED
  BY <1>5, <1>6

LEMMA HStartKeeps ==
  ASSUME IInv, HelperInv, NEW kind \in Kinds, NEW c \in Conns, NEW x \in Xids,
         HStart(kind, c, x)
  PROVE  [Next]_vars /\ HelperInv'
<1>1. CASE XaStart(c, x, FALSE) /\ UNCHANGED helper
  BY ZenonT(30), <1>1 DEF HStart, HelperInv, Next
<1>2. CASE /\ XaStart(c, x, TRUE)
           /\ helper' = [kind |-> kind, phase |-> "Action", id |-> nextXaId, xid |-> x,
                         state |-> "active"]
  <2>1. [Next]_vars
    BY Zenon, <1>2 DEF Next
  <2>2. PICK n : n = nextXaId /\ Added(n, [conn |-> c, xid |-> x])
    BY Zenon, <1>2, XaStartOkKeeps
  <2>3. PICK g : g = helper'
    BY Zenon
  <2>4. /\ g.id = n /\ g.xid = x /\ g.phase = "Action" /\ n \in Nat /\ n \in XaIds
        /\ nextXaId' = n + 1
    <3>1. n <= MaxXaIds /\ nextXaId' = n + 1
      BY Zenon, <1>2, <2>2 DEF XaStart
    <3>2. n \in Nat /\ n >= 1
      BY <2>2, NextIdNat DEF IInv, TypeOK
    <3>3. n \in XaIds
      BY <3>1, <3>2, MaxXaIdsAssumption DEF XaIds
    <3> QED
      BY <1>2, <2>2, <2>3, <3>1, <3>2, <3>3
  <2>5. g \in Runs
    BY Zenon, <1>2, <2>2, <2>3, <2>4 DEF Runs, Phases, DartStates
  <2>6. Handle(n)'.xid = x
    BY <2>2 DEF Added
  <2>7. HelperOK(g)'
    BY <2>4, <2>5, <2>6 DEF HelperOK
  <2> QED
    BY Zenon, <2>1, <2>3, <2>7 DEF HelperInv, HelperOK
<1> QED
  BY Zenon, <1>1, <1>2 DEF HStart

LEMMA OthersKeep ==
  ASSUME IInv, HelperInv, Others
  PROVE  [Next]_vars /\ HelperInv'
<1>1. [Next]_vars
  BY Zenon DEF Others, Next
<1>2. CASE helper' = helper
  <2>1. PICK h : h = helper
    OBVIOUS
  <2>2. h # None => HelperOK(h)'
    BY <1>1, <2>1, NativeStepKeeps DEF HelperInv
  <2> QED
    BY <1>1, <1>2, <2>1, <2>2 DEF HelperInv, HelperOK
<1>3. CASE helper' = None
  BY <1>1, <1>3 DEF HelperInv
<1> QED
  BY <1>2, <1>3 DEF Others

LEMMA XStepKeeps ==
  ASSUME IInv, HelperInv, [XNext]_<<vars, helper>>
  PROVE  [Next]_vars /\ IInv' /\ HelperInv'
<1>1. CASE HelperNext
  BY <1>1, HStartKeeps, LifecycleKeeps, CommitKeeps, StepKeeps DEF HelperNext
<1>2. CASE Others
  BY Zenon, <1>2, OthersKeep, StepKeeps
<1>3. CASE UNCHANGED <<vars, helper>>
  <2>1. [Next]_vars /\ helper' = helper
    BY <1>3
  <2>2. PICK h : h = helper
    OBVIOUS
  <2>3. h # None => HelperOK(h)'
    BY <2>1, <2>2, NativeStepKeeps DEF HelperInv
  <2> QED
    BY <2>1, <2>2, <2>3, StepKeeps DEF HelperInv, HelperOK
<1> QED
  BY <1>1, <1>2, <1>3 DEF XNext

LEMMA XInvariance == XSpec => [](IInv /\ HelperInv)
<1>1. XInit => IInv /\ HelperInv
  BY InitIInv DEF XInit, HelperInv
<1>2. IInv /\ HelperInv /\ [XNext]_<<vars, helper>> => (IInv /\ HelperInv)'
  BY XStepKeeps
<1> QED
  BY <1>1, <1>2, PTL DEF XSpec

\* The helpers of XaTransactionHandle and of the service reach the native tables
\* through the odbc_xa_* calls only, so what is proved of the calls holds with a
\* helper at work.
THEOREM HelpersUseTheCalls == XSpec => Spec
<1>1. XInit => Init
  BY DEF XInit
<1>2. IInv /\ HelperInv /\ [XNext]_<<vars, helper>> => [Next]_vars
  BY XStepKeeps
<1> QED
  BY <1>1, <1>2, XInvariance, PTL DEF XSpec, Spec

\* A helper that reports success has committed its branch, whatever the resource
\* manager refuses, and no other caller, disconnect or crash undoes it:
\* runWithStart, runWithStartOnePhase and runInXaTransaction.
THEOREM SuccessIsCommitted == XSpec => []XaSuccessIsCommitted
<1>1. HelperInv => XaSuccessIsCommitted
  BY DEF HelperInv, HelperOK, XaSuccessIsCommitted
<1> QED
  BY <1>1, XInvariance, PTL
=============================================================================
