------------------------ MODULE AsyncRequestsProofs ------------------------
(***************************************************************************)
(* Proofs about AsyncRequests, for any number of connections, slots and    *)
(* ids: the table never outlives its connections, data is delivered at     *)
(* most once, a cancel the task has seen is final, an id is found below    *)
(* the cap, and the whole implements RequestTable.                         *)
(***************************************************************************)
EXTENDS AsyncRequests, TLAPS, FiniteSetTheorems

\* What ties the outcome of a slot to the progress of its task.  Data can be
\* there only once the task is over and had not seen the flag; the task
\* stores once, so data that was consumed does not come back.
SlotInv(k) ==
    /\ slot[k].outcome \in {"ReadyOk", "ReadyErr"} =>
           slot[k].task = "Finished" /\ ~slot[k].seen
    /\ slot[k].seen => slot[k].task \in {"Loaded", "Finished"}
    /\ \/ delivered[k] = 0
       \/ /\ delivered[k] = 1
          /\ slot[k].outcome = "Consumed"
          /\ slot[k].task = "Finished"
          /\ ~slot[k].seen

\* What ties the table to the connections: a listed slot has been started on
\* a connection that is still open.
TableInv ==
    \A i \in DOMAIN requests :
        /\ slot[requests[i]].task # "Unborn"
        /\ slot[requests[i]].conn \in Conns
        /\ connState[slot[requests[i]].conn] = "Open"

IInv == TypeOK /\ (\A k \in Tickets : SlotInv(k)) /\ TableInv
-----------------------------------------------------------------------------
LEMMA ModInIds == ASSUME NEW n \in Nat PROVE n % IdModulus \in Ids
BY IdModulusAssumption DEF Ids

LEMMA IdsAreNat == Ids \subseteq Nat
BY IdModulusAssumption DEF Ids

\* The initial state satisfies the invariant: the table is empty and no task
\* exists.
LEMMA InitIInv == Init => IInv
<1> SUFFICES ASSUME Init PROVE IInv
  OBVIOUS
<1>1. nextRequestId \in Ids
  BY ModInIds DEF Init
<1>2. slot \in [Tickets -> Slots]
  BY DEF Init, Slots, Outcomes, TaskStates
<1> QED
  BY Zenon, <1>1, <1>2 DEF Init, IInv, TypeOK, SlotInv, TableInv

\* Removing entries and aborting queued tasks preserves types, slots and the
\* table; the connections that lose their last entry may close.
LEMMA FreeAllKeeps ==
  ASSUME IInv, NEW ids \in SUBSET DOMAIN requests, FreeAll(ids),
         UNCHANGED delivered
  PROVE  /\ DOMAIN requests' = DOMAIN requests \ ids
         /\ \A i \in DOMAIN requests' : requests'[i] = requests[i]
         /\ requests' \in [DOMAIN requests' -> Tickets]
         /\ slot' \in [Tickets -> Slots]
         /\ \A k \in Tickets : SlotInv(k)'
         /\ \A k \in Tickets : /\ slot'[k].conn = slot[k].conn
                               /\ slot[k].task # "Unborn" => slot'[k].task # "Unborn"
<1>1. /\ DOMAIN requests' = DOMAIN requests \ ids
      /\ \A i \in DOMAIN requests' : requests'[i] = requests[i]
      /\ requests' \in [DOMAIN requests' -> Tickets]
  BY DEF IInv, TypeOK, FreeAll, Restrict
<1>2. ASSUME NEW k \in Tickets
      PROVE  /\ slot'[k] \in Slots
             /\ SlotInv(k)'
             /\ slot'[k].conn = slot[k].conn
             /\ slot[k].task # "Unborn" => slot'[k].task # "Unborn"
  <2>1. slot'[k] = slot[k] \/ slot'[k] = AbortQueued(slot[k])
    BY DEF FreeAll
  <2>2. slot[k] \in Slots /\ SlotInv(k)
    BY DEF IInv, TypeOK
  <2>3. CASE slot'[k] = slot[k]
    BY <2>2, <2>3 DEF SlotInv
  <2>4. CASE slot'[k] = [slot[k] EXCEPT !.task = "Aborted"] /\ slot[k].task = "Queued"
    BY <2>2, <2>4 DEF SlotInv, Slots, TaskStates
  <2> QED
    BY <2>1, <2>3, <2>4 DEF AbortQueued
<1>3. slot' \in [Tickets -> Slots]
  BY <1>2 DEF FreeAll
<1> QED
  BY <1>1, <1>2, <1>3

\* A step that changes one slot only, and not its connection, preserves the
\* table's invariant.
LEMMA OneSlotKeepsTable ==
  ASSUME IInv, NEW k \in Tickets, NEW s \in Slots,
         slot' = [slot EXCEPT ![k] = s],
         s.conn = slot[k].conn,
         slot[k].task # "Unborn" => s.task # "Unborn",
         UNCHANGED <<connState, requests>>
  PROVE  TableInv'
BY DEF IInv, TypeOK, TableInv

\* Every step preserves the invariant.
LEMMA NextIInv == IInv /\ [Next]_vars => IInv'
<1> SUFFICES ASSUME IInv, [Next]_vars PROVE IInv'
  OBVIOUS
<1> USE NoneAssumption
<1>1. ASSUME NEW c \in Conns, Connect(c) PROVE IInv'
  BY <1>1 DEF IInv, TypeOK, SlotInv, TableInv, Connect
<1>2. ASSUME NEW c \in Conns, Disconnect(c) PROVE IInv'
  <2> DEFINE ids == {i \in DOMAIN requests : slot[requests[i]].conn = c}
  <2>1. FreeAll(ids) /\ UNCHANGED <<nextRequestId, cancelling, delivered>>
    BY <1>2 DEF Disconnect
  <2>2. /\ DOMAIN requests' = DOMAIN requests \ ids
        /\ \A i \in DOMAIN requests' : requests'[i] = requests[i]
        /\ requests' \in [DOMAIN requests' -> Tickets]
        /\ slot' \in [Tickets -> Slots]
        /\ \A k \in Tickets : SlotInv(k)'
        /\ \A k \in Tickets : /\ slot'[k].conn = slot[k].conn
                              /\ slot[k].task # "Unborn" => slot'[k].task # "Unborn"
    BY Zenon, <2>1, FreeAllKeeps
  <2>3. TypeOK'
    BY <1>2, <2>1, <2>2 DEF IInv, TypeOK, Disconnect
  <2>4. TableInv'
    BY <1>2, <2>2 DEF IInv, TypeOK, TableInv, Disconnect
  <2> QED
    BY <2>2, <2>3, <2>4 DEF IInv
<1>3. ASSUME NEW c \in Conns, NEW k \in Tickets, ExecuteAsync(c, k) PROVE IInv'
  <2>1. PICK n \in 0 .. MaxAttempts - 1 :
           LET id == (nextRequestId + n) % IdModulus IN
           /\ nextRequestId' = Succ(id)
           /\ requests' = [i \in DOMAIN requests \cup {id} |->
                              IF i = id THEN k ELSE requests[i]]
    BY <1>3 DEF ExecuteAsync
  <2> DEFINE id == (nextRequestId + n) % IdModulus
  <2>2. n \in Nat /\ nextRequestId \in Nat
    BY MaxAttemptsAssumption, IdsAreNat DEF IInv, TypeOK
  <2>3. id \in Ids
    BY <2>2, ModInIds
  <2>4. nextRequestId' \in Ids
    <3> HIDE DEF id
    <3>1. id + 1 \in Nat
      BY <2>3, IdsAreNat
    <3> QED
      BY <2>1, <3>1, ModInIds DEF Succ, id
  <2>5. /\ slot' = [slot EXCEPT ![k].conn = c, ![k].task = "Queued"]
        /\ slot[k].task = "Unborn" /\ connState[c] = "Open"
        /\ UNCHANGED <<connState, cancelling, delivered>>
    BY <1>3 DEF ExecuteAsync
  <2>6. slot' \in [Tickets -> Slots]
    BY <2>5 DEF IInv, TypeOK, Slots, TaskStates
  <2> HIDE DEF id
  <2>7. requests' = [i \in DOMAIN requests \cup {id} |->
                        IF i = id THEN k ELSE requests[i]]
    BY <2>1 DEF id
  <2>8. TypeOK'
    BY <2>3, <2>4, <2>5, <2>6, <2>7 DEF IInv, TypeOK
  <2>9. \A j \in Tickets : SlotInv(j)'
    BY <2>5 DEF IInv, TypeOK, SlotInv, Slots
  <2>10. \A i \in DOMAIN requests : requests[i] # k
    BY <2>5 DEF IInv, TableInv
  <2>11. TableInv'
    BY <2>5, <2>7, <2>10 DEF IInv, TypeOK, TableInv, Slots
  <2> QED
    BY <2>8, <2>9, <2>11 DEF IInv
<1>4. ASSUME NEW i \in DOMAIN requests, CancelFlag(i) PROVE IInv'
  <2> DEFINE k == requests[i]
             s == [slot[k] EXCEPT !.cancelled = TRUE]
  <2>1. k \in Tickets /\ slot[k] \in Slots /\ SlotInv(k)
    BY DEF IInv, TypeOK
  <2>2. /\ s \in Slots /\ s.conn = slot[k].conn /\ s.task = slot[k].task
        /\ s.outcome = slot[k].outcome /\ s.seen = slot[k].seen
    BY Zenon, <2>1 DEF Slots
  <2>3. /\ slot' = [slot EXCEPT ![k] = s] /\ cancelling' = k
        /\ UNCHANGED <<connState, nextRequestId, requests, delivered>>
    BY <1>4 DEF CancelFlag
  <2> HIDE DEF s, k
  <2>4. TypeOK'
    BY <2>1, <2>2, <2>3 DEF IInv, TypeOK
  <2>5. \A j \in Tickets : SlotInv(j)'
    BY <2>1, <2>2, <2>3 DEF IInv, TypeOK, SlotInv
  <2>6. TableInv'
    BY Zenon, <2>1, <2>2, <2>3, OneSlotKeepsTable
  <2> QED
    BY <2>4, <2>5, <2>6 DEF IInv
<1>5. ASSUME NEW i \in DOMAIN requests, Free(i) PROVE IInv'
  <2>1. FreeAll({i}) /\ UNCHANGED <<connState, nextRequestId, cancelling, delivered>>
    BY <1>5 DEF Free
  <2>2. /\ DOMAIN requests' = DOMAIN requests \ {i}
        /\ \A j \in DOMAIN requests' : requests'[j] = requests[j]
        /\ requests' \in [DOMAIN requests' -> Tickets]
        /\ slot' \in [Tickets -> Slots]
        /\ \A k \in Tickets : SlotInv(k)'
        /\ \A k \in Tickets : /\ slot'[k].conn = slot[k].conn
                              /\ slot[k].task # "Unborn" => slot'[k].task # "Unborn"
    BY <2>1, FreeAllKeeps
  <2> QED
    BY <2>1, <2>2 DEF IInv, TypeOK, TableInv
<1>6. ASSUME NEW i \in DOMAIN requests, NEW fits \in BOOLEAN, GetResult(i, fits)
      PROVE  IInv'
  <2> DEFINE k == requests[i]
             o == IF slot[k].outcome = "ReadyOk" /\ ~fits
                  THEN slot[k].outcome ELSE "Consumed"
             s == [slot[k] EXCEPT !.outcome = o]
  <2>1. k \in Tickets /\ slot[k] \in Slots /\ SlotInv(k)
    BY DEF IInv, TypeOK
  <2>2. /\ s \in Slots /\ s.conn = slot[k].conn /\ s.task = slot[k].task
        /\ s.outcome = o /\ s.seen = slot[k].seen
    BY <2>1 DEF Slots, Outcomes
  <2>3. /\ slot' = [slot EXCEPT ![k] = s]
        /\ delivered' = [delivered EXCEPT ![k] =
                            IF slot[k].outcome = "ReadyOk" /\ fits THEN @ + 1 ELSE @]
        /\ UNCHANGED <<connState, nextRequestId, requests, cancelling>>
    BY <1>6 DEF GetResult
  <2> HIDE DEF s, k
  <2>4. TypeOK'
    BY <2>1, <2>2, <2>3 DEF IInv, TypeOK
  <2>5. \A j \in Tickets : SlotInv(j)'
    <3> TAKE j \in Tickets
    <3>1. CASE j # k
      BY <2>1, <2>3, <3>1 DEF IInv, TypeOK, SlotInv
    <3>2. CASE j = k
      BY <2>1, <2>2, <2>3, <3>2 DEF IInv, TypeOK, SlotInv
    <3> QED
      BY <3>1, <3>2
  <2>6. TableInv'
    BY Zenon, <2>1, <2>2, <2>3, OneSlotKeepsTable
  <2> QED
    BY <2>4, <2>5, <2>6 DEF IInv
<1>7. CASE CancelOutcome
  <2> DEFINE k == cancelling
             a == AbortQueued(slot[k])
             s == IF a.outcome = "Pending" THEN [a EXCEPT !.outcome = "Cancelled"]
                                           ELSE a
  <2>1. k \in Tickets /\ slot[k] \in Slots /\ SlotInv(k)
    BY <1>7 DEF IInv, TypeOK, CancelOutcome
  <2>2. /\ a \in Slots /\ a.conn = slot[k].conn /\ a.seen = slot[k].seen
        /\ a.outcome = slot[k].outcome
        /\ a.task = IF slot[k].task = "Queued" THEN "Aborted" ELSE slot[k].task
    BY <2>1 DEF AbortQueued, Slots, TaskStates
  <2> HIDE DEF a
  <2>3. /\ s \in Slots /\ s.conn = slot[k].conn /\ s.seen = slot[k].seen
        /\ s.outcome = IF slot[k].outcome = "Pending" THEN "Cancelled"
                       ELSE slot[k].outcome
        /\ s.task = IF slot[k].task = "Queued" THEN "Aborted" ELSE slot[k].task
    BY <2>2 DEF Slots, Outcomes
  <2>4. /\ slot' = [slot EXCEPT ![k] = s] /\ cancelling' = None
        /\ UNCHANGED <<connState, nextRequestId, requests, delivered>>
    BY <1>7 DEF CancelOutcome, a
  <2> HIDE DEF s, k
  <2>5. TypeOK'
    BY <2>1, <2>3, <2>4 DEF IInv, TypeOK
  <2>6. \A j \in Tickets : SlotInv(j)'
    BY <2>1, <2>3, <2>4 DEF IInv, TypeOK, SlotInv
  <2>7. TableInv'
    BY Zenon, <2>1, <2>3, <2>4, OneSlotKeepsTable
  <2> QED
    BY <2>5, <2>6, <2>7 DEF IInv
<1>8. ASSUME NEW k \in Tickets, Task(k) PROVE IInv'
  <2>1. slot[k] \in Slots /\ SlotInv(k)
    BY DEF IInv, TypeOK
  <2>2. PICK s \in Slots :
           /\ slot' = [slot EXCEPT ![k] = s]
           /\ s.conn = slot[k].conn /\ s.task # "Unborn"
           /\ UNCHANGED <<connState, nextRequestId, requests, cancelling, delivered>>
           /\ \/ /\ slot[k].task = "Queued" /\ s.task = "Running"
                 /\ s.outcome = slot[k].outcome /\ s.seen = slot[k].seen
              \/ /\ slot[k].task = "Running" /\ s.task = "Loaded"
                 /\ s.outcome = slot[k].outcome
              \/ /\ slot[k].task = "Loaded" /\ s.task = "Finished"
                 /\ s.seen = slot[k].seen
                 /\ s.seen => s.outcome = "Cancelled"
    <3>1. CASE TaskBegin(k)
      <4>1. PICK r \in {"ReadyOk", "ReadyErr"} :
               slot' = [slot EXCEPT ![k].task = "Running", ![k].result = r]
        BY Zenon, <3>1 DEF TaskBegin
      <4> DEFINE s == [slot[k] EXCEPT !.task = "Running", !.result = r]
      <4>2. slot' = [slot EXCEPT ![k] = s]
        BY Zenon, <4>1 DEF IInv, TypeOK
      <4>3. /\ s \in Slots /\ s.conn = slot[k].conn /\ s.task = "Running"
            /\ s.outcome = slot[k].outcome /\ s.seen = slot[k].seen
        BY Zenon, <2>1 DEF Slots, TaskStates
      <4> HIDE DEF s
      <4> QED
        BY Zenon, <3>1, <4>2, <4>3 DEF TaskBegin
    <3>2. CASE TaskLoad(k)
      <4> DEFINE s == [slot[k] EXCEPT !.task = "Loaded", !.seen = slot[k].cancelled]
      <4>1. slot' = [slot EXCEPT ![k] = s]
        BY Zenon, <3>2 DEF IInv, TypeOK, TaskLoad
      <4>2. /\ s \in Slots /\ s.conn = slot[k].conn /\ s.task = "Loaded"
            /\ s.outcome = slot[k].outcome
        BY Zenon, <2>1 DEF Slots, TaskStates
      <4> HIDE DEF s
      <4> QED
        BY Zenon, <3>2, <4>1, <4>2 DEF TaskLoad
    <3>3. CASE TaskStore(k)
      <4> DEFINE o == IF slot[k].seen THEN "Cancelled" ELSE slot[k].result
                 s == [slot[k] EXCEPT !.task = "Finished", !.outcome = o]
      <4>1. slot' = [slot EXCEPT ![k] = s]
        BY Zenon, <3>3 DEF IInv, TypeOK, TaskStore
      <4>2. /\ s \in Slots /\ s.conn = slot[k].conn /\ s.task = "Finished"
            /\ s.outcome = o /\ s.seen = slot[k].seen
        BY Zenon, <2>1 DEF Slots, TaskStates, Outcomes
      <4> HIDE DEF s
      <4> QED
        BY Zenon, <3>3, <4>1, <4>2 DEF TaskStore
    <3> QED
      BY <1>8, <3>1, <3>2, <3>3 DEF Task
  <2>3. TypeOK'
    BY <2>2 DEF IInv, TypeOK
  <2>4. \A j \in Tickets : SlotInv(j)'
    <3> TAKE j \in Tickets
    <3>1. CASE j # k
      BY <2>2, <3>1 DEF IInv, TypeOK, SlotInv
    <3>2. CASE j = k
      BY <2>1, <2>2, <3>2 DEF IInv, TypeOK, SlotInv, Slots
    <3> QED
      BY <3>1, <3>2
  <2>5. TableInv'
    BY Zenon, <2>2, OneSlotKeepsTable
  <2> QED
    BY <2>3, <2>4, <2>5 DEF IInv
<1>9. CASE UNCHANGED vars
  BY <1>9 DEF IInv, TypeOK, SlotInv, TableInv, vars
<1> QED
  BY <1>1, <1>2, <1>3, <1>4, <1>5, <1>6, <1>7, <1>8, <1>9 DEF Next

\* The strengthened invariant holds in every reachable state.
THEOREM Invariance == Spec => []IInv
BY InitIInv, NextIInv, PTL DEF Spec

\* Type correctness of the request table, the slots and the counter.
THEOREM TypeCorrect == Spec => []TypeOK
BY Invariance, PTL DEF IInv

\* Data of a request reaches a caller at most once (odbc_async_get_result).
THEOREM AtMostOnce == Spec => []DeliveredAtMostOnce
<1>1. IInv => DeliveredAtMostOnce
  BY DEF IInv, SlotInv, DeliveredAtMostOnce
<1> QED
  BY <1>1, Invariance, PTL

\* A cancel the task has seen leaves the request without data for good.
THEOREM HonouredCancel == Spec => []HonouredCancelGivesNoData
<1>1. IInv => HonouredCancelGivesNoData
  BY DEF IInv, SlotInv, HonouredCancelGivesNoData
<1> QED
  BY <1>1, Invariance, PTL

\* The table lists requests of open connections only (odbc_disconnect).
THEOREM TableFollowsConnections == Spec => []RequestsHaveConnections
<1>1. IInv => RequestsHaveConnections
  BY DEF IInv, TableInv, RequestsHaveConnections
<1> QED
  BY <1>1, Invariance, PTL

\* No step gives the id of a live request to another slot, whatever the width
\* of the id counter: the allocation skips ids that are in the table.
THEOREM NoHijack == Spec => IdsNeverHijacked
<1> DEFINE Kept == \A i \in DOMAIN requests : i \in DOMAIN requests' =>
                       requests'[i] = requests[i]
<1>1. ASSUME IInv, [Next]_vars PROVE [Kept]_vars
  <2>1. ASSUME NEW c \in Conns, NEW k \in Tickets, ExecuteAsync(c, k) PROVE Kept
    <3>1. PICK n \in 0 .. MaxAttempts - 1 :
             /\ IdUsable((nextRequestId + n) % IdModulus)
             /\ requests' = [i \in DOMAIN requests \cup {(nextRequestId + n) % IdModulus} |->
                               IF i = (nextRequestId + n) % IdModulus
                               THEN k ELSE requests[i]]
      BY <2>1 DEF ExecuteAsync, Skips
    <3> DEFINE id == (nextRequestId + n) % IdModulus
    <3>2. id \notin DOMAIN requests
      BY <3>1 DEF IdUsable
    <3>3. requests' = [i \in DOMAIN requests \cup {id} |->
                          IF i = id THEN k ELSE requests[i]]
      BY <3>1
    <3> HIDE DEF id
    <3> QED
      BY <3>2, <3>3
  <2>2. ASSUME NEW ids \in SUBSET DOMAIN requests, FreeAll(ids) PROVE Kept
    BY <2>2 DEF FreeAll, Restrict
  <2>3. ASSUME NEW c \in Conns, Disconnect(c) PROVE Kept
    <3> DEFINE ids == {i \in DOMAIN requests : slot[requests[i]].conn = c}
    <3>1. ids \in SUBSET DOMAIN requests /\ FreeAll(ids)
      BY <2>3 DEF Disconnect
    <3> HIDE DEF ids
    <3> QED
      BY <2>2, <3>1
  <2>4. ASSUME NEW i \in DOMAIN requests, Free(i) PROVE Kept
    BY <2>2, <2>4 DEF Free
  <2>5. CASE UNCHANGED requests
    BY <2>5
  <2> QED
    BY Zenon, <1>1, <2>1, <2>3, <2>4, <2>5
       DEF Next, Connect, CancelFlag, GetResult, CancelOutcome, Task,
           TaskBegin, TaskLoad, TaskStore, vars
<1>2. Spec => [][Kept]_vars
  BY <1>1, Invariance, PTL DEF Spec
<1> QED
  BY <1>2 DEF IdsNeverHijacked
-----------------------------------------------------------------------------
(* Allocation of request ids.                                              *)

\* A nonempty set of natural numbers has a least element.
LEMMA LeastNatural ==
  ASSUME NEW S \in SUBSET Nat, S # {}
  PROVE  \E n \in S : \A m \in S : n <= m
<1>1. PICK n \in S : \A m \in S : <<m, n>> \notin OpToRel(<, Nat)
  BY NatLessThanWellFounded, WFMin, Zenon
<1>2. \A m \in S : ~(m < n)
  BY Zenon, <1>1 DEF OpToRel
<1> QED
  BY <1>2

\* One turn of the id space: within it wrapping_add meets no id twice.
LEMMA Wrapped ==
  ASSUME NEW a \in Nat, a < IdModulus + IdModulus
  PROVE  a % IdModulus = IF a < IdModulus THEN a ELSE a - IdModulus
BY IdModulusAssumption

LEMMA DistinctIds ==
  ASSUME NEW i \in Ids, NEW m \in Nat, NEW n \in Nat, m < IdModulus, n < IdModulus,
         (i + m) % IdModulus = (i + n) % IdModulus
  PROVE  m = n
BY IdModulusAssumption, Wrapped DEF Ids

\* Of MaxRequests + 1 consecutive ids one is usable while the table is below the
\* cap: the table and 0 take up at most MaxRequests.
LEMMA SomeUsable ==
  ASSUME TypeOK, BelowCap, MaxRequests < IdModulus
  PROVE  \E n \in 0 .. MaxRequests : IdUsable((nextRequestId + n) % IdModulus)
<1> SUFFICES ASSUME \A n \in 0 .. MaxRequests : ~IdUsable((nextRequestId + n) % IdModulus)
             PROVE  FALSE
  OBVIOUS
<1> DEFINE Taken == DOMAIN requests \cup {0}
           Tried == 0 .. MaxRequests
           f == [n \in Tried |-> (nextRequestId + n) % IdModulus]
<1>1. IsFiniteSet(Ids)
  BY FS_Interval, IdModulusAssumption DEF Ids
<1>2. IsFiniteSet(DOMAIN requests) /\ Cardinality(DOMAIN requests) \in Nat
  BY <1>1, FS_Subset, FS_CardinalityType DEF TypeOK
<1>3. /\ IsFiniteSet(Taken) /\ Cardinality(Taken) \in Nat
      /\ Cardinality(Taken) <= Cardinality(DOMAIN requests) + 1
  <2>1. /\ IsFiniteSet(Taken)
        /\ Cardinality(Taken) = IF 0 \in DOMAIN requests THEN Cardinality(DOMAIN requests)
                                ELSE Cardinality(DOMAIN requests) + 1
    BY Zenon, <1>2, FS_AddElement
  <2> QED
    BY <1>2, <2>1
<1>4. IsFiniteSet(Tried) /\ Cardinality(Tried) = MaxRequests + 1
  BY FS_Interval, MaxRequestsAssumption
<1>5. f \in [Tried -> Taken]
  BY DEF IdUsable
<1>6. Cardinality(Taken) < Cardinality(Tried)
  BY <1>2, <1>3, <1>4, MaxRequestsAssumption DEF BelowCap
<1> HIDE DEF Taken, Tried, f
<1>7. PICK m, n \in Tried : m # n /\ f[m] = f[n]
  BY Zenon, <1>3, <1>4, <1>5, <1>6, FS_PigeonHole
<1>8. nextRequestId \in Ids
  BY DEF TypeOK
<1>9. /\ m \in Nat /\ n \in Nat /\ m < IdModulus /\ n < IdModulus
      /\ (nextRequestId + m) % IdModulus = (nextRequestId + n) % IdModulus
  BY <1>7, MaxRequestsAssumption, IdModulusAssumption DEF f, Tried
<1> QED
  BY <1>7, <1>8, <1>9, DistinctIds

\* An id is always found: with more attempts than the table may have requests and
\* a larger id space than that (1000 and 2^32 against 64), allocate_request_id
\* finds an unused id whenever the cap admits the request, wherever the counter
\* has wrapped to and whichever requests are still listed.
THEOREM IdAvailable ==
  ASSUME MaxRequests < MaxAttempts, MaxRequests < IdModulus
  PROVE  Spec => []IdAvailableBelowCap
<1>1. IInv => IdAvailableBelowCap
  <2> SUFFICES ASSUME IInv, BelowCap
               PROVE  \E n \in 0 .. MaxAttempts - 1 : Skips(n)
    BY DEF IdAvailableBelowCap
  <2>1. PICK k \in 0 .. MaxRequests : IdUsable((nextRequestId + k) % IdModulus)
    BY SomeUsable DEF IInv
  <2> DEFINE S == {n \in Nat : IdUsable((nextRequestId + n) % IdModulus)}
  <2>2. k \in S /\ S \subseteq Nat
    BY <2>1, MaxRequestsAssumption
  <2>3. PICK n \in S : \A m \in S : n <= m
    <3> HIDE DEF S
    <3> QED
      BY Zenon, <2>2, LeastNatural
  <2>4. n \in 0 .. MaxAttempts - 1
    BY <2>2, <2>3, MaxAttemptsAssumption, MaxRequestsAssumption
  <2>5. Skips(n)
    BY <2>3 DEF Skips
  <2> QED
    BY <2>4, <2>5
<1> QED
  BY <1>1, Invariance, PTL
-----------------------------------------------------------------------------
(* AsyncRequests implements RequestTable.                                  *)

\* A slot is listed under one id only, and nothing has happened to a slot that
\* was not started.
Distinct == \A i, j \in DOMAIN requests : requests[i] = requests[j] => i = j

Untouched ==
    \A k \in Tickets :
        slot[k].task = "Unborn" => slot[k].outcome = "Pending" /\ cancelling # k

RInv == IInv /\ Distinct /\ Untouched

\* The variables of RequestTable, and the entry of slot k once it has become s.
TableOf == [i \in DOMAIN requests |-> Entry(requests[i])]
UsedOf == {k \in Tickets : slot[k].task # "Unborn"}
EntryOf(k, s) == [ticket |-> k, outcome |-> s.outcome,
                  live |-> s.task \notin {"Finished", "Aborted"}]
-----------------------------------------------------------------------------
LEMMA ListedAreTickets ==
  ASSUME IInv, NEW i \in DOMAIN requests
  PROVE  /\ requests[i] \in Tickets
         /\ slot[requests[i]] \in Slots
         /\ slot[requests[i]].task # "Unborn"
BY DEF IInv, TypeOK, TableInv

\* A start lists a slot that was in no table under an id that was not in use.
LEMMA StartSimulates ==
  ASSUME RInv, NEW c \in Conns, NEW k \in Tickets, ExecuteAsync(c, k)
  PROVE  Abstract!TNext /\ Distinct' /\ Untouched'
<1>1. PICK n \in 0 .. MaxAttempts - 1 :
         /\ IdUsable((nextRequestId + n) % IdModulus)
         /\ requests' = [i \in DOMAIN requests \cup {(nextRequestId + n) % IdModulus} |->
                           IF i = (nextRequestId + n) % IdModulus THEN k ELSE requests[i]]
  BY DEF ExecuteAsync, Skips
<1> DEFINE id == (nextRequestId + n) % IdModulus
<1>2. n \in Nat /\ nextRequestId \in Nat
  BY MaxAttemptsAssumption, IdsAreNat DEF RInv, IInv, TypeOK
<1>3. id \in Ids /\ id # 0 /\ id \notin DOMAIN requests
  BY <1>1, <1>2, ModInIds DEF IdUsable
<1>4. requests' = [i \in DOMAIN requests \cup {id} |-> IF i = id THEN k ELSE requests[i]]
  BY <1>1
<1> HIDE DEF id
<1>5. id \in (1 .. IdModulus - 1) \ DOMAIN requests
  BY <1>3, IdModulusAssumption DEF Ids
<1>6. /\ slot' = [slot EXCEPT ![k].conn = c, ![k].task = "Queued"]
      /\ cancelling' = cancelling
      /\ slot[k].task = "Unborn" /\ slot[k].outcome = "Pending"
      /\ slot \in [Tickets -> Slots]
  BY DEF ExecuteAsync, RInv, IInv, TypeOK, Untouched
<1>7. /\ slot'[k].task = "Queued" /\ slot'[k].outcome = "Pending"
      /\ \A j \in Tickets : j # k => slot'[j] = slot[j]
  BY <1>6 DEF Slots
<1>8. \A i \in DOMAIN requests : requests[i] # k /\ requests[i] \in Tickets
  BY <1>6, ListedAreTickets DEF RInv
<1>9. k \in Tickets \ UsedOf /\ UsedOf' = UsedOf \cup {k}
  BY <1>6, <1>7 DEF UsedOf
<1>10. TableOf' = [j \in DOMAIN TableOf \cup {id} |->
                     IF j = id THEN [ticket |-> k, outcome |-> "Pending", live |-> TRUE]
                               ELSE TableOf[j]]
  BY Zenon, <1>4, <1>5, <1>7, <1>8 DEF TableOf, Entry
<1>11. Abstract!TNext
  BY <1>5, <1>9, <1>10 DEF Abstract!TNext, Abstract!Start, TableOf, UsedOf
<1>12. Distinct'
  BY <1>4, <1>5, <1>8 DEF RInv, Distinct
<1>13. Untouched'
  BY <1>6, <1>7 DEF RInv, Untouched
<1> QED
  BY <1>11, <1>12, <1>13
-----------------------------------------------------------------------------
\* Entries that go take their aborted tasks with them.
LEMMA DropSimulates ==
  ASSUME RInv, NEW ids \in SUBSET DOMAIN requests, FreeAll(ids), UNCHANGED cancelling
  PROVE  Abstract!TNext /\ Distinct' /\ Untouched'
<1>1. /\ requests' = [i \in DOMAIN requests \ ids |-> requests[i]]
      /\ slot' = [k \in Tickets |-> IF \E i \in ids : requests[i] = k
                                    THEN AbortQueued(slot[k]) ELSE slot[k]]
  BY DEF FreeAll, Restrict
<1>2. \A k \in Tickets : slot[k] \in Slots
  BY DEF RInv, IInv, TypeOK
<1>3. \A k \in Tickets :
         /\ slot'[k].outcome = slot[k].outcome
         /\ slot'[k].task = "Unborn" <=> slot[k].task = "Unborn"
  BY <1>1, <1>2 DEF AbortQueued, Slots
<1>4. \A i \in DOMAIN requests' : slot'[requests[i]] = slot[requests[i]] /\ requests'[i] = requests[i]
  BY <1>1, ListedAreTickets DEF RInv, Distinct
<1>5. UsedOf' = UsedOf
  BY <1>3 DEF UsedOf
<1>6. TableOf' = Restrict(TableOf, DOMAIN TableOf \ ids)
  BY <1>1, <1>4 DEF TableOf, Entry, Restrict
<1>7. Abstract!TNext
  BY <1>5, <1>6 DEF Abstract!TNext, Abstract!Drop, Abstract!Restrict, Restrict, TableOf, UsedOf
<1>8. Distinct'
  BY <1>1 DEF RInv, Distinct
<1>9. Untouched'
  BY <1>3 DEF RInv, Untouched
<1> QED
  BY <1>7, <1>8, <1>9
-----------------------------------------------------------------------------
\* A step that changes slot k alone changes no entry but that of k, and leaves
\* the other conjuncts of the invariant as they are.
LEMMA OneSlot ==
  ASSUME RInv, NEW k \in Tickets, NEW s \in Slots,
         slot' = [slot EXCEPT ![k] = s], UNCHANGED requests,
         slot[k].task # "Unborn", s.task # "Unborn",
         cancelling' \in {cancelling, k, None}
  PROVE  /\ UsedOf' = UsedOf
         /\ TableOf' = [i \in DOMAIN requests |->
                          IF requests[i] = k THEN EntryOf(k, s) ELSE TableOf[i]]
         /\ Distinct' /\ Untouched'
<1> USE NoneAssumption
<1>1. slot \in [Tickets -> Slots] /\ \A i \in DOMAIN requests : requests[i] \in Tickets
  BY ListedAreTickets DEF RInv, IInv, TypeOK
<1>2. slot'[k] = s /\ \A j \in Tickets : j # k => slot'[j] = slot[j]
  BY <1>1
<1>3. UsedOf' = UsedOf
  BY <1>2 DEF UsedOf
<1>4. TableOf' = [i \in DOMAIN requests |->
                    IF requests[i] = k THEN EntryOf(k, s) ELSE TableOf[i]]
  BY <1>1, <1>2 DEF TableOf, Entry, EntryOf
<1>5. Distinct'
  BY DEF RInv, Distinct
<1>6. Untouched'
  BY <1>2 DEF RInv, Untouched
<1> QED
  BY <1>3, <1>4, <1>5, <1>6

\* Such a step stutters if what callers see of k stays the same,
LEMMA HiddenStep ==
  ASSUME RInv, NEW k \in Tickets, NEW s \in Slots,
         slot' = [slot EXCEPT ![k] = s], UNCHANGED requests,
         slot[k].task # "Unborn", s.task # "Unborn",
         cancelling' \in {cancelling, k, None},
         EntryOf(k, s) = EntryOf(k, slot[k])
  PROVE  UNCHANGED Abstract!native /\ Distinct' /\ Untouched'
<1>1. /\ UsedOf' = UsedOf
      /\ TableOf' = [i \in DOMAIN requests |->
                       IF requests[i] = k THEN EntryOf(k, s) ELSE TableOf[i]]
      /\ Distinct' /\ Untouched'
  BY Zenon, OneSlot
<1>2. TableOf' = TableOf
  BY <1>1 DEF TableOf, Entry, EntryOf
<1> QED
  BY <1>1, <1>2 DEF Abstract!native, TableOf, UsedOf

\* if k is not listed,
LEMMA UnlistedStep ==
  ASSUME RInv, NEW k \in Tickets, NEW s \in Slots,
         slot' = [slot EXCEPT ![k] = s], UNCHANGED requests,
         slot[k].task # "Unborn", s.task # "Unborn",
         cancelling' \in {cancelling, k, None},
         \A i \in DOMAIN requests : requests[i] # k
  PROVE  UNCHANGED Abstract!native /\ Distinct' /\ Untouched'
<1>1. /\ UsedOf' = UsedOf
      /\ TableOf' = [i \in DOMAIN requests |->
                       IF requests[i] = k THEN EntryOf(k, s) ELSE TableOf[i]]
      /\ Distinct' /\ Untouched'
  BY Zenon, OneSlot
<1>2. TableOf' = TableOf
  BY <1>1 DEF TableOf
<1> QED
  BY <1>1, <1>2 DEF Abstract!native, TableOf, UsedOf

\* and otherwise replaces one entry.
LEMMA ListedStep ==
  ASSUME RInv, NEW i \in DOMAIN requests, NEW s \in Slots,
         slot' = [slot EXCEPT ![requests[i]] = s], UNCHANGED requests,
         s.task # "Unborn",
         cancelling' \in {cancelling, requests[i], None}
  PROVE  /\ UsedOf' = UsedOf
         /\ TableOf' = [TableOf EXCEPT ![i] = EntryOf(requests[i], s)]
         /\ Distinct' /\ Untouched'
<1> DEFINE k == requests[i]
<1>1. k \in Tickets /\ slot[k].task # "Unborn"
  BY ListedAreTickets DEF RInv
<1>2. /\ UsedOf' = UsedOf
      /\ TableOf' = [j \in DOMAIN requests |->
                       IF requests[j] = k THEN EntryOf(k, s) ELSE TableOf[j]]
      /\ Distinct' /\ Untouched'
  BY Zenon, <1>1, OneSlot
<1>3. \A j \in DOMAIN requests : requests[j] = k <=> j = i
  BY DEF RInv, Distinct
<1>4. TableOf' = [TableOf EXCEPT ![i] = EntryOf(k, s)]
  BY Zenon, <1>2, <1>3 DEF TableOf
<1> QED
  BY Zenon, <1>2, <1>4
-----------------------------------------------------------------------------
\* The second half of a cancel: nobody sees a task aborted and still pending.
LEMMA CancelSimulates ==
  ASSUME RInv, CancelOutcome
  PROVE  [Abstract!TNext]_(Abstract!native) /\ Distinct' /\ Untouched'
<1> DEFINE k == cancelling
           a == AbortQueued(slot[k])
           s == IF a.outcome = "Pending" THEN [a EXCEPT !.outcome = "Cancelled"] ELSE a
<1>1. /\ k \in Tickets /\ slot[k] \in Slots /\ slot[k].task # "Unborn"
      /\ slot' = [slot EXCEPT ![k] = s] /\ cancelling' = None /\ UNCHANGED requests
  BY NoneAssumption DEF CancelOutcome, RInv, IInv, TypeOK, Untouched
<1>2. /\ s \in Slots /\ s.task # "Unborn"
      /\ s.outcome = IF slot[k].outcome = "Pending" THEN "Cancelled" ELSE slot[k].outcome
      /\ s.task = IF slot[k].task = "Queued" THEN "Aborted" ELSE slot[k].task
  BY <1>1 DEF AbortQueued, Slots, Outcomes, TaskStates
<1> HIDE DEF s, a
<1>3. CASE \A i \in DOMAIN requests : requests[i] # k
  BY Zenon, <1>1, <1>2, <1>3, UnlistedStep
<1>4. ASSUME NEW i \in DOMAIN requests, requests[i] = k
      PROVE  Abstract!TNext /\ Distinct' /\ Untouched'
  <2>1. /\ UsedOf' = UsedOf /\ Distinct' /\ Untouched'
        /\ TableOf' = [TableOf EXCEPT ![i] = EntryOf(k, s)]
    BY Zenon, <1>1, <1>2, <1>4, ListedStep
  <2> DEFINE e == TableOf[i]
           before == slot[k].task \notin {"Finished", "Aborted"}
           after == s.task \notin {"Finished", "Aborted"}
           out == IF slot[k].outcome = "Pending" THEN "Cancelled" ELSE slot[k].outcome
  <2>2. /\ i \in DOMAIN TableOf
        /\ e = [ticket |-> k, outcome |-> slot[k].outcome, live |-> before]
        /\ EntryOf(k, s) = [ticket |-> k, outcome |-> out, live |-> after]
    BY <1>2, <1>4 DEF TableOf, Entry, EntryOf
  <2>a. after = FALSE \/ after = before
    BY <1>2
  <2> HIDE DEF before, after
  <2>3. PICK live \in {FALSE, e.live} :
           EntryOf(k, s) = [e EXCEPT !.outcome = IF @ = "Pending" THEN "Cancelled" ELSE @,
                                     !.live = live]
    <3> HIDE DEF e, out, k
    <3>a. e.outcome = slot[k].outcome /\ e.live = before
      BY <2>2
    <3>1. after \in {FALSE, e.live}
      BY <3>a, <2>a, Zenon
    <3>2. [e EXCEPT !.outcome = out, !.live = after]
             = [ticket |-> k, outcome |-> out, live |-> after]
      <4> DEFINE f == [e EXCEPT !.outcome = out]
      <4>1. f = [ticket |-> k, outcome |-> out, live |-> before]
        BY <2>2
      <4> HIDE DEF f
      <4>2. [f EXCEPT !.live = after] = [ticket |-> k, outcome |-> out, live |-> after]
        BY <4>1
      <4> QED
        BY <4>2 DEF f
    <3>3. EntryOf(k, s) = [e EXCEPT !.outcome = IF @ = "Pending" THEN "Cancelled" ELSE @,
                                    !.live = after]
      BY <2>2, <3>a, <3>2, Zenon DEF out
    <3> QED
      BY <3>1, <3>3, Zenon
  <2>4. TableOf' = [TableOf EXCEPT ![i].outcome = IF @ = "Pending" THEN "Cancelled" ELSE @,
                                   ![i].live = live]
    BY Zenon, <2>1, <2>2, <2>3
  <2> QED
    BY Zenon, <2>1, <2>2, <2>4 DEF Abstract!TNext, Abstract!Cancel, TableOf, UsedOf
<1> QED
  BY <1>3, <1>4

\* A fetch takes the outcome or leaves the entry as it is.
LEMMA GetSimulates ==
  ASSUME RInv, NEW i \in DOMAIN requests, NEW fits \in BOOLEAN, GetResult(i, fits)
  PROVE  [Abstract!TNext]_(Abstract!native) /\ Distinct' /\ Untouched'
<1> DEFINE k == requests[i]
           o == IF slot[k].outcome = "ReadyOk" /\ ~fits THEN slot[k].outcome ELSE "Consumed"
           s == [slot[k] EXCEPT !.outcome = o]
<1>1. k \in Tickets /\ slot[k] \in Slots /\ slot[k].task # "Unborn"
  BY ListedAreTickets DEF RInv
<1>2. /\ slot' = [slot EXCEPT ![k] = s] /\ cancelling' = cancelling /\ UNCHANGED requests
      /\ slot[k].outcome # "Pending"
  BY DEF GetResult
<1>3. s \in Slots /\ s.task = slot[k].task /\ s.outcome = o
  BY <1>1 DEF Slots, Outcomes
<1>4. o \in {slot[k].outcome, "Consumed"}
  OBVIOUS
<1> HIDE DEF s, o
<1>5. CASE o = slot[k].outcome
  <2>1. EntryOf(k, s) = EntryOf(k, slot[k])
    BY <1>3, <1>5 DEF EntryOf
  <2> QED
    BY Zenon, <1>1, <1>2, <1>3, <2>1, HiddenStep
<1>6. CASE o = "Consumed"
  <2>1. /\ UsedOf' = UsedOf /\ Distinct' /\ Untouched'
        /\ TableOf' = [TableOf EXCEPT ![i] = EntryOf(k, s)]
    BY Zenon, <1>1, <1>2, <1>3, ListedStep
  <2>2. /\ i \in DOMAIN TableOf /\ TableOf[i].outcome # "Pending"
        /\ EntryOf(k, s) = [TableOf[i] EXCEPT !.outcome = "Consumed"]
    BY <1>2, <1>3, <1>6 DEF TableOf, Entry, EntryOf
  <2>3. TableOf' = [TableOf EXCEPT ![i].outcome = "Consumed"]
    BY <2>1, <2>2
  <2>4. Abstract!TNext
    BY Zenon, <2>1, <2>2, <2>3 DEF Abstract!TNext, Abstract!Take, TableOf, UsedOf
  <2> QED
    BY <2>1, <2>4
<1> QED
  BY <1>4, <1>5, <1>6

\* The end of a task is the end of its query, and its other steps are hidden.
LEMMA TaskSimulates ==
  ASSUME RInv, NEW k \in Tickets, Task(k)
  PROVE  [Abstract!TNext]_(Abstract!native) /\ Distinct' /\ Untouched'
<1>1. slot[k] \in Slots
  BY DEF RInv, IInv, TypeOK
<1>2. UNCHANGED requests /\ cancelling' = cancelling
  BY DEF Task, TaskBegin, TaskLoad, TaskStore
<1>3. CASE TaskBegin(k)
  <2>1. PICK r \in {"ReadyOk", "ReadyErr"} :
           slot' = [slot EXCEPT ![k].task = "Running", ![k].result = r]
    BY Zenon, <1>3 DEF TaskBegin
  <2> DEFINE s == [slot[k] EXCEPT !.task = "Running", !.result = r]
  <2>2. /\ slot' = [slot EXCEPT ![k] = s] /\ slot[k].task = "Queued"
        /\ s \in Slots /\ s.task = "Running" /\ s.outcome = slot[k].outcome
    BY Zenon, <1>1, <1>3, <2>1 DEF TaskBegin, Slots, TaskStates
  <2> HIDE DEF s
  <2>3. EntryOf(k, s) = EntryOf(k, slot[k])
    BY <2>2 DEF EntryOf
  <2> QED
    BY Zenon, <1>2, <2>2, <2>3, HiddenStep
<1>4. CASE TaskLoad(k)
  <2> DEFINE s == [slot[k] EXCEPT !.task = "Loaded", !.seen = slot[k].cancelled]
  <2>1. /\ slot' = [slot EXCEPT ![k] = s] /\ slot[k].task = "Running"
        /\ s \in Slots /\ s.task = "Loaded" /\ s.outcome = slot[k].outcome
    BY Zenon, <1>1, <1>4 DEF TaskLoad, Slots, TaskStates
  <2> HIDE DEF s
  <2>2. EntryOf(k, s) = EntryOf(k, slot[k])
    BY <2>1 DEF EntryOf
  <2> QED
    BY Zenon, <1>2, <2>1, <2>2, HiddenStep
<1>5. CASE TaskStore(k)
  <2> DEFINE o == IF slot[k].seen THEN "Cancelled" ELSE slot[k].result
             s == [slot[k] EXCEPT !.task = "Finished", !.outcome = o]
  <2>1. /\ slot' = [slot EXCEPT ![k] = s] /\ slot[k].task = "Loaded"
        /\ s \in Slots /\ s.task = "Finished" /\ s.outcome = o
        /\ o \in {"ReadyOk", "ReadyErr", "Cancelled"}
    BY Zenon, <1>1, <1>5 DEF TaskStore, Slots, TaskStates, Outcomes
  <2> HIDE DEF s, o
  <2>2. CASE \A i \in DOMAIN requests : requests[i] # k
    BY Zenon, <1>2, <2>1, <2>2, UnlistedStep
  <2>3. ASSUME NEW i \in DOMAIN requests, requests[i] = k
        PROVE  Abstract!TNext /\ Distinct' /\ Untouched'
    <3>1. /\ UsedOf' = UsedOf /\ Distinct' /\ Untouched'
          /\ TableOf' = [TableOf EXCEPT ![i] = EntryOf(k, s)]
      BY Zenon, <1>2, <2>1, <2>3, ListedStep
    <3> DEFINE live == slot[k].task \notin {"Finished", "Aborted"}
               after == s.task \notin {"Finished", "Aborted"}
    <3>a. live = TRUE /\ after = FALSE
      BY <2>1
    <3>b. /\ i \in DOMAIN TableOf
          /\ TableOf[i] = [ticket |-> k, outcome |-> slot[k].outcome, live |-> live]
          /\ EntryOf(k, s) = [ticket |-> k, outcome |-> o, live |-> after]
      BY <2>1, <2>3 DEF TableOf, Entry, EntryOf
    <3> DEFINE f == [TableOf[i] EXCEPT !.outcome = o]
    <3> HIDE DEF live, after
    <3>c. f = [ticket |-> k, outcome |-> o, live |-> live] /\ TableOf[i].live = live
      BY <3>b
    <3> HIDE DEF f
    <3>d. [f EXCEPT !.live = after] = [ticket |-> k, outcome |-> o, live |-> after]
      BY <3>c
    <3>2. /\ i \in DOMAIN TableOf /\ TableOf[i].live
          /\ EntryOf(k, s) = [TableOf[i] EXCEPT !.outcome = o, !.live = FALSE]
      BY <3>a, <3>b, <3>c, <3>d, Zenon DEF f
    <3>3. TableOf' = [TableOf EXCEPT ![i].outcome = o, ![i].live = FALSE]
      BY Zenon, <3>1, <3>2
    <3> QED
      BY Zenon, <2>1, <3>1, <3>2, <3>3 DEF Abstract!TNext, Abstract!Finish, TableOf, UsedOf
  <2> QED
    BY <2>2, <2>3
<1> QED
  BY <1>3, <1>4, <1>5 DEF Task
-----------------------------------------------------------------------------
LEMMA InitSimulates == Init => RInv /\ Abstract!TInit
<1> SUFFICES ASSUME Init
             PROVE  RInv /\ Abstract!TInit
  OBVIOUS
<1>1. IInv
  BY InitIInv
<1>2. /\ DOMAIN requests = {} /\ cancelling = None
      /\ \A k \in Tickets : slot[k].task = "Unborn" /\ slot[k].outcome = "Pending"
  BY DEF Init
<1>3. Distinct /\ Untouched
  BY <1>2, NoneAssumption DEF Distinct, Untouched
<1>4. Abstract!TInit
  BY <1>2 DEF Abstract!TInit
<1> QED
  BY <1>1, <1>3, <1>4 DEF RInv

\* One step per action of AsyncRequests.
LEMMA NextSimulates ==
  ASSUME RInv, [Next]_vars
  PROVE  [Abstract!TNext]_(Abstract!native) /\ RInv'
<1> SUFFICES [Abstract!TNext]_(Abstract!native) /\ Distinct' /\ Untouched'
  BY NextIInv DEF RInv
<1>1. ASSUME UNCHANGED <<requests, slot, cancelling>>
      PROVE  UNCHANGED Abstract!native /\ Distinct' /\ Untouched'
  BY <1>1 DEF RInv, Distinct, Untouched, Abstract!native, Entry
<1>2. CASE UNCHANGED vars
  BY <1>1, <1>2 DEF vars
<1>3. ASSUME NEW c \in Conns, Connect(c)
      PROVE  UNCHANGED Abstract!native /\ Distinct' /\ Untouched'
  BY <1>1, <1>3 DEF Connect
<1>4. ASSUME NEW c \in Conns, Disconnect(c)
      PROVE  Abstract!TNext /\ Distinct' /\ Untouched'
  BY <1>4, DropSimulates DEF Disconnect
<1>5. ASSUME NEW c \in Conns, NEW k \in Tickets, ExecuteAsync(c, k)
      PROVE  Abstract!TNext /\ Distinct' /\ Untouched'
  BY <1>5, StartSimulates
<1>6. ASSUME NEW i \in DOMAIN requests, CancelFlag(i)
      PROVE  [Abstract!TNext]_(Abstract!native) /\ Distinct' /\ Untouched'
  <2> DEFINE k == requests[i]
             s == [slot[k] EXCEPT !.cancelled = TRUE]
  <2>1. k \in Tickets /\ slot[k] \in Slots /\ slot[k].task # "Unborn"
    BY ListedAreTickets DEF RInv
  <2>2. slot' = [slot EXCEPT ![k] = s] /\ cancelling' = k /\ UNCHANGED requests
    BY <1>6 DEF CancelFlag
  <2>3. s \in Slots /\ s.task = slot[k].task /\ s.outcome = slot[k].outcome
    BY Zenon, <2>1 DEF Slots
  <2> HIDE DEF s
  <2>4. EntryOf(k, s) = EntryOf(k, slot[k])
    BY <2>3 DEF EntryOf
  <2> QED
    BY Zenon, <2>1, <2>2, <2>3, <2>4, HiddenStep
<1>7. ASSUME NEW i \in DOMAIN requests, Free(i)
      PROVE  Abstract!TNext /\ Distinct' /\ Untouched'
  BY <1>7, DropSimulates DEF Free
<1> QED
  BY <1>2, <1>3, <1>4, <1>5, <1>6, <1>7, GetSimulates, CancelSimulates, TaskSimulates DEF Next

\* The entry points, their tasks and the id allocation of async_runtime and
\* ffi implement the table of queries that RequestTable describes: whatever a
\* task, a cancel, a fetch and a free do between each other, a caller sees an
\* outcome appear, be cancelled, be taken and disappear, each in one step.
THEOREM Implementation == Spec => ImplementsTable
<1>1. Init => RInv /\ Abstract!TInit
  BY InitSimulates
<1>2. RInv /\ [Next]_vars => [Abstract!TNext]_(Abstract!native) /\ RInv'
  BY NextSimulates
<1> QED
  BY <1>1, <1>2, PTL DEF Spec, ImplementsTable, Abstract!TSpec
=============================================================================
