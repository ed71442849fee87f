----------------------------- MODULE PoolProofs -----------------------------
(***************************************************************************)
(* Proofs about Pool, for any number of threads, pools, r2d2 pools and     *)
(* checkouts, whoever closes and resizes pools and whenever: an id has one *)
(* user at a time, and no transaction reaches the next checkout but one    *)
(* that the driver refused to roll back.  A pool that is closed and        *)
(* resized only while idle never exceeds its size.                         *)
(***************************************************************************)
EXTENDS Pool, TLAPS, FiniteSetTheorems

Free(id) == \E p \in DOMAIN freeIds : \E k \in 1 .. Len(freeIds[p]) : freeIds[p][k] = id

\* The stacks hold ids that were given out, each once.
StackInv ==
    \A p \in DOMAIN freeIds :
        /\ freeIds[p] \in Seq(Nat)
        /\ \A k \in 1 .. Len(freeIds[p]) : freeIds[p][k] < nextPooledId
        /\ \A j, k \in 1 .. Len(freeIds[p]) : freeIds[p][j] = freeIds[p][k] => j = k
        /\ \A q \in DOMAIN freeIds \ {p} :
              \A j \in 1 .. Len(freeIds[p]), k \in 1 .. Len(freeIds[q]) :
                  freeIds[p][j] # freeIds[q][k]

\* An id is on a stack, in the table, or with the one statement that runs on it.
HeldInv ==
    /\ \A id \in DOMAIN pooled : id \in Nat /\ id < nextPooledId /\ ~Free(id)
    /\ \A t \in Threads : call[t].at = "Exec" =>
          /\ call[t].id \in Nat /\ call[t].id < nextPooledId
          /\ ~Free(call[t].id) /\ call[t].id \notin DOMAIN pooled
          /\ \A u \in Threads : call[u].at = "Exec" /\ call[u].id = call[t].id => u = t

\* A statement was prepared on the checkout that has its id now.
StatementInv ==
    \A s \in statements :
        /\ s.id \in Nat /\ s.id < nextPooledId /\ ~Free(s.id)
        /\ s.id \in DOMAIN pooled => pooled[s.id].no = s.no
        /\ \A t \in Threads : call[t].at = "Exec" /\ call[t].id = s.id => call[t].co.no = s.no

\* A checkout is in the table once or with one call.
CheckoutInv ==
    /\ \A id \in DOMAIN pooled : pooled[id].no \in 1 .. checkouts
    /\ \A i, j \in DOMAIN pooled : pooled[i].no = pooled[j].no => i = j
    /\ \A t \in Threads : Holding(t) =>
          /\ call[t].co.no \in 1 .. checkouts
          /\ \A id \in DOMAIN pooled : pooled[id].no # call[t].co.no
          /\ \A u \in Threads : Holding(u) /\ call[u].co.no = call[t].co.no => u = t

\* An idle session is in a transaction only if the driver refused to roll it
\* back, and a session that only answers a health check has not begun one.
SessionInv ==
    /\ \A s \in leftOpen : s.of \in refused
    /\ \A n \in 1 .. MaxCheckouts : txn[n] \in {0, n} \cup refused
    /\ \A t \in Threads : call[t].at = "Health" => txn[call[t].co.no] \in {0} \cup refused

Typed ==
    /\ nextPooledId \in Nat /\ checkouts \in 0 .. MaxCheckouts
    /\ call = [t \in Threads |-> call[t]]
    /\ txn = [n \in 1 .. MaxCheckouts |-> txn[n]]
    /\ \A t \in Threads : call[t].at = "GetWait" => call[t].then \in {"GetInstall", "Health"}

IInv == Typed /\ StackInv /\ HeldInv /\ StatementInv /\ CheckoutInv /\ SessionInv
-----------------------------------------------------------------------------
LEMMA InitIInv == Init => IInv
<1> SUFFICES ASSUME Init PROVE IInv
  OBVIOUS
<1>1. /\ \A t \in Threads : call[t].at = "Idle"
      /\ DOMAIN pooled = {} /\ DOMAIN freeIds = {} /\ statements = {}
  BY DEF Init, IdleCall
<1>2. Typed
  BY <1>1, BoundsAssumption DEF Init, Typed
<1>3. StackInv /\ HeldInv /\ StatementInv
  BY <1>1 DEF StackInv, HeldInv, StatementInv
<1>4. CheckoutInv /\ SessionInv
  BY <1>1 DEF Init, CheckoutInv, SessionInv, Holding
<1> QED
  BY <1>2, <1>3, <1>4 DEF IInv

\* Ids, statements, checkouts and sessions stay where they are, and calls that
\* change hold nothing.
LEMMA NothingMoves ==
  ASSUME IInv, UNCHANGED <<pooled, freeIds, nextPooledId, statements, checkouts, txn, leftOpen, refused>>,
         call' = [t \in Threads |-> call'[t]],
         \A t \in Threads : \/ call'[t] = call[t]
                            \/ call'[t].at = "Idle"
                            \/ call'[t].at = "GetWait" /\ call'[t].then \in {"GetInstall", "Health"}
  PROVE  IInv'
<1>1. \A i : Free(i)' <=> Free(i)
  BY DEF Free
<1>2. Typed' /\ StackInv'
  BY DEF IInv, Typed, StackInv
<1>3. HeldInv' /\ StatementInv'
  BY <1>1 DEF IInv, HeldInv, StatementInv
<1>4. CheckoutInv' /\ SessionInv'
  BY DEF IInv, CheckoutInv, SessionInv, Holding
<1> QED
  BY <1>2, <1>3, <1>4 DEF IInv

LEMMA PlainSteps ==
  ASSUME IInv,
         \/ \E size \in Sizes : PoolCreate(size)
         \/ \E t \in Threads, p \in PoolIds : GetStart(t, p) \/ HealthStart(t, p)
         \/ \E p \in PoolIds, size \in Sizes, ok \in BOOLEAN : SetSize(p, size, ok)
         \/ UNCHANGED vars
  PROVE  IInv'
<1>1. ASSUME NEW t \in Threads, NEW p \in PoolIds, NEW then \in {"GetInstall", "Health"},
             WaitFor(t, p, then)
      PROVE  IInv'
  <2>1. /\ call' = [call EXCEPT ![t] = [at |-> "GetWait", pool |-> p, inst |-> pools[p].inst,
                                        then |-> then]]
        /\ UNCHANGED <<pooled, freeIds, nextPooledId, statements, checkouts, txn, leftOpen, refused>>
    BY <1>1 DEF WaitFor, sessionVars
  <2>2. /\ call' = [u \in Threads |-> call'[u]]
        /\ call'[t].at = "GetWait" /\ call'[t].then = then
        /\ \A u \in Threads : u # t => call'[u] = call[u]
    BY <2>1 DEF IInv, Typed
  <2> QED
    BY <2>1, <2>2, NothingMoves
<1>2. ASSUME call' = call,
             UNCHANGED <<pooled, freeIds, nextPooledId, statements, checkouts, txn, leftOpen, refused>>
      PROVE  IInv'
  BY <1>2, NothingMoves DEF IInv, Typed
<1>3. CASE \E size \in Sizes : PoolCreate(size)
  BY <1>2, <1>3 DEF PoolCreate, sessionVars
<1>4. CASE \E t \in Threads, p \in PoolIds : GetStart(t, p) \/ HealthStart(t, p)
  BY <1>1, <1>4 DEF GetStart, HealthStart
<1>5. CASE \E p \in PoolIds, size \in Sizes, ok \in BOOLEAN : SetSize(p, size, ok)
  BY <1>2, <1>5 DEF SetSize, sessionVars
<1>6. CASE UNCHANGED vars
  BY <1>2, <1>6 DEF vars
<1> QED
  BY <1>3, <1>4, <1>5, <1>6
-----------------------------------------------------------------------------
(* The stacks of free ids.                                                 *)

\* The stacks lose ids from their tops, or go.
LEMMA Shrunk ==
  ASSUME IInv, DOMAIN freeIds' \subseteq DOMAIN freeIds, nextPooledId' = nextPooledId,
         \A q \in DOMAIN freeIds' :
            /\ freeIds'[q] \in Seq(Nat)
            /\ \A k \in 1 .. Len(freeIds'[q]) :
                  k \in 1 .. Len(freeIds[q]) /\ freeIds'[q][k] = freeIds[q][k]
  PROVE  StackInv'
<1> SUFFICES ASSUME NEW q \in DOMAIN freeIds'
             PROVE  /\ freeIds'[q] \in Seq(Nat)
                    /\ \A k \in 1 .. Len(freeIds'[q]) : freeIds'[q][k] < nextPooledId'
                    /\ \A j, k \in 1 .. Len(freeIds'[q]) :
                          freeIds'[q][j] = freeIds'[q][k] => j = k
                    /\ \A r \in DOMAIN freeIds' \ {q} :
                          \A j \in 1 .. Len(freeIds'[q]), k \in 1 .. Len(freeIds'[r]) :
                             freeIds'[q][j] # freeIds'[r][k]
  BY Zenon DEF StackInv
<1>1. q \in DOMAIN freeIds
  OBVIOUS
<1>2. \A k \in 1 .. Len(freeIds'[q]) : freeIds'[q][k] < nextPooledId'
  BY Zenon, <1>1 DEF IInv, StackInv
<1>3. \A j, k \in 1 .. Len(freeIds'[q]) : freeIds'[q][j] = freeIds'[q][k] => j = k
  BY <1>1 DEF IInv, StackInv
<1>4. ASSUME NEW r \in DOMAIN freeIds' \ {q}, NEW j \in 1 .. Len(freeIds'[q]),
             NEW k \in 1 .. Len(freeIds'[r])
      PROVE  freeIds'[q][j] # freeIds'[r][k]
  <2>1. /\ r \in DOMAIN freeIds \ {q}
        /\ j \in 1 .. Len(freeIds[q]) /\ k \in 1 .. Len(freeIds[r])
        /\ freeIds'[q][j] = freeIds[q][j] /\ freeIds'[r][k] = freeIds[r][k]
    OBVIOUS
  <2> QED
    BY <1>1, <2>1 DEF IInv, StackInv
<1> QED
  BY Zenon, <1>2, <1>3, <1>4

\* An id is taken from the stack of pool p.
LEMMA PoppedKeeps ==
  ASSUME IInv, NEW p \in DOMAIN freeIds, freeIds[p] # <<>>, NEW id,
         id = Top(freeIds[p]), freeIds' = Put(freeIds, p, Popped(freeIds[p])),
         nextPooledId' = nextPooledId
  PROVE  /\ StackInv' /\ id \in Nat /\ id < nextPooledId /\ Free(id)
         /\ \A i : Free(i)' => Free(i) /\ i # id
<1>1. PICK s : s = freeIds[p]
  OBVIOUS
<1>2. /\ s \in Seq(Nat) /\ s # <<>>
      /\ \A k \in 1 .. Len(s) : s[k] < nextPooledId
      /\ \A j, k \in 1 .. Len(s) : s[j] = s[k] => j = k
  BY <1>1 DEF IInv, StackInv
<1>3. PICK n \in Nat \ {0} : n = Len(s)
  BY <1>2
<1>4. id = s[n] /\ id \in Nat /\ id < nextPooledId
  BY <1>1, <1>2, <1>3 DEF Top
<1>5. PICK f : f = Popped(s)
  OBVIOUS
<1>6. f \in Seq(Nat) /\ Len(f) = n - 1 /\ \A k \in 1 .. n - 1 : f[k] = s[k]
  BY <1>2, <1>3, <1>5 DEF Popped
<1>7. /\ DOMAIN freeIds' = DOMAIN freeIds /\ freeIds'[p] = f
      /\ \A q \in DOMAIN freeIds : q # p => freeIds'[q] = freeIds[q]
  BY <1>1, <1>5 DEF Put
<1>8. StackInv'
  <2>1. ASSUME NEW q \in DOMAIN freeIds
        PROVE  /\ freeIds'[q] \in Seq(Nat)
               /\ Len(freeIds'[q]) <= Len(freeIds[q])
               /\ \A k \in 1 .. Len(freeIds'[q]) :
                     k \in 1 .. Len(freeIds[q]) /\ freeIds'[q][k] = freeIds[q][k]
    <3>1. CASE q = p
      BY <1>1, <1>3, <1>6, <1>7, <3>1
    <3>2. CASE q # p
      BY <1>7, <3>2 DEF IInv, StackInv
    <3> QED
      BY <3>1, <3>2
  <2> QED
    BY <1>7, <2>1, Shrunk
<1>9. Free(id)
  BY <1>1, <1>3, <1>4 DEF Free
<1>10. ASSUME NEW i, Free(i)' PROVE Free(i) /\ i # id
  <2>1. PICK q \in DOMAIN freeIds : \E k \in 1 .. Len(freeIds'[q]) : freeIds'[q][k] = i
    BY <1>7, <1>10 DEF Free
  <2>2. PICK k \in 1 .. Len(freeIds'[q]) : freeIds'[q][k] = i
    BY <2>1
  <2>3. CASE q = p
    <3>1. k \in 1 .. n - 1 /\ s[k] = i
      BY <1>6, <1>7, <2>2, <2>3
    <3> QED
      BY <1>1, <1>2, <1>3, <1>4, <2>3, <3>1 DEF Free
  <2>4. CASE q # p
    <3>1. k \in 1 .. Len(freeIds[q]) /\ freeIds[q][k] = i
      BY <1>7, <2>2, <2>4
    <3>2. i # s[n]
      BY <1>1, <1>3, <2>4, <3>1 DEF IInv, StackInv
    <3> QED
      BY <1>4, <3>1, <3>2 DEF Free
  <2> QED
    BY <2>3, <2>4
<1> QED
  BY <1>4, <1>8, <1>9, <1>10

\* An id that is not free goes onto the stack of pool p.
LEMMA PushedKeeps ==
  ASSUME IInv, NEW p, NEW id \in Nat, id < nextPooledId, ~Free(id),
         freeIds' = Put(freeIds, p, Append(FreeOf(p), id)),
         nextPooledId' = nextPooledId
  PROVE  StackInv' /\ \A i : Free(i)' => Free(i) \/ i = id
<1>1. PICK s : s = FreeOf(p)
  OBVIOUS
<1>2. /\ s \in Seq(Nat)
      /\ \A k \in 1 .. Len(s) : s[k] < nextPooledId /\ Free(s[k])
      /\ \A j, k \in 1 .. Len(s) : s[j] = s[k] => j = k
      /\ \A q \in DOMAIN freeIds \ {p} :
            \A j \in 1 .. Len(s), k \in 1 .. Len(freeIds[q]) : s[j] # freeIds[q][k]
  <2>1. CASE p \in DOMAIN freeIds
    BY <1>1, <2>1 DEF FreeOf, IInv, StackInv, Free
  <2>2. CASE p \notin DOMAIN freeIds
    BY <1>1, <2>2 DEF FreeOf
  <2> QED
    BY Zenon, <2>1, <2>2
<1>3. PICK n \in Nat : n = Len(s)
  BY <1>2
<1>4. PICK f : f = Append(s, id)
  BY Zenon
<1>5. f \in Seq(Nat) /\ Len(f) = n + 1 /\ f[n + 1] = id /\ \A k \in 1 .. n : f[k] = s[k]
  BY <1>2, <1>3, <1>4
<1>6. /\ DOMAIN freeIds' = DOMAIN freeIds \cup {p} /\ freeIds'[p] = f
      /\ \A q \in DOMAIN freeIds : q # p => freeIds'[q] = freeIds[q]
  BY <1>1, <1>4 DEF Put
<1>7. \A k \in 1 .. n + 1 : (k \in 1 .. n /\ f[k] = s[k]) \/ (k = n + 1 /\ f[k] = id)
  BY <1>5
<1>8. \A q \in DOMAIN freeIds : \A k \in 1 .. Len(freeIds[q]) : Free(freeIds[q][k])
  BY DEF Free
<1>9. \A k \in 1 .. n + 1 : f[k] < nextPooledId
  BY <1>2, <1>3, <1>7
<1>10. \A j, k \in 1 .. n + 1 : f[j] = f[k] => j = k
  BY <1>2, <1>3, <1>7
<1>11. \A q \in DOMAIN freeIds \ {p} :
          \A j \in 1 .. n + 1, k \in 1 .. Len(freeIds[q]) : f[j] # freeIds[q][k]
  BY <1>2, <1>3, <1>7, <1>8
<1>12. StackInv'
  <2> SUFFICES ASSUME NEW q \in DOMAIN freeIds'
               PROVE  /\ freeIds'[q] \in Seq(Nat)
                      /\ \A k \in 1 .. Len(freeIds'[q]) : freeIds'[q][k] < nextPooledId'
                      /\ \A j, k \in 1 .. Len(freeIds'[q]) :
                            freeIds'[q][j] = freeIds'[q][k] => j = k
                      /\ \A r \in DOMAIN freeIds' \ {q} :
                            \A j \in 1 .. Len(freeIds'[q]), k \in 1 .. Len(freeIds'[r]) :
                               freeIds'[q][j] # freeIds'[r][k]
    BY DEF StackInv
  <2>1. CASE q = p
    BY <1>5, <1>6, <1>9, <1>10, <1>11, <2>1
  <2>2. CASE q # p
    <3>1. q \in DOMAIN freeIds /\ freeIds'[q] = freeIds[q]
      BY <1>6, <2>2
    <3>2. ASSUME NEW r \in DOMAIN freeIds' \ {q}, NEW j \in 1 .. Len(freeIds[q]),
                 NEW k \in 1 .. Len(freeIds'[r])
          PROVE  freeIds[q][j] # freeIds'[r][k]
      <4>1. CASE r = p
        BY <1>5, <1>6, <1>11, <2>2, <3>1, <4>1
      <4>2. CASE r # p
        BY <1>6, <3>1, <4>2 DEF IInv, StackInv
      <4> QED
        BY <4>1, <4>2
    <3> QED
      BY <3>1, <3>2 DEF IInv, StackInv
  <2> QED
    BY <2>1, <2>2
<1>13. ASSUME NEW i, Free(i)' PROVE Free(i) \/ i = id
  <2>1. PICK q \in DOMAIN freeIds' : \E k \in 1 .. Len(freeIds'[q]) : freeIds'[q][k] = i
    BY <1>13 DEF Free
  <2>2. PICK k \in 1 .. Len(freeIds'[q]) : freeIds'[q][k] = i
    BY <2>1
  <2>3. CASE q = p
    BY <1>2, <1>3, <1>5, <1>6, <1>7, <2>2, <2>3
  <2>4. CASE q # p
    BY <1>6, <1>8, <2>1, <2>2, <2>4
  <2> QED
    BY <2>3, <2>4
<1> QED
  BY <1>12, <1>13

\* The stack of a pool goes.
LEMMA StackGone ==
  ASSUME IInv, NEW p, freeIds' = Drop(freeIds, {p}), nextPooledId' = nextPooledId
  PROVE  StackInv' /\ \A i : Free(i)' => Free(i)
<1>1. /\ DOMAIN freeIds' = DOMAIN freeIds \ {p}
      /\ \A q \in DOMAIN freeIds' : freeIds'[q] = freeIds[q]
  BY DEF Drop, Restrict
<1>2. StackInv'
  <2>1. \A q \in DOMAIN freeIds' : freeIds'[q] \in Seq(Nat)
    BY Zenon, <1>1 DEF IInv, StackInv
  <2> QED
    BY Zenon, <1>1, <2>1, Shrunk
<1>3. \A i : Free(i)' => Free(i)
  BY Zenon, <1>1 DEF Free
<1> QED
  BY <1>2, <1>3
-----------------------------------------------------------------------------
(* The steps of a call.                                                    *)

LEMMA GetAcquireKeeps ==
  ASSUME IInv, NEW t \in Threads, GetAcquire(t)
  PROVE  IInv'
<1>1. UNCHANGED <<pooled, freeIds, nextPooledId, statements>>
  BY DEF GetAcquire
<1>2. CASE call' = [call EXCEPT ![t] = IdleCall] /\ UNCHANGED <<checkouts, sessionVars>>
  <2>1. /\ call' = [u \in Threads |-> call'[u]] /\ call'[t].at = "Idle"
        /\ \A u \in Threads : u # t => call'[u] = call[u]
    BY <1>2 DEF IInv, Typed, IdleCall
  <2> QED
    BY <1>1, <1>2, <2>1, NothingMoves DEF sessionVars
<1>3. CASE /\ checkouts < MaxCheckouts
           /\ checkouts' = checkouts + 1
           /\ call' = [call EXCEPT ![t] =
                 [at |-> call[t].then, co |-> [pool |-> call[t].pool,
                                               inst |-> call[t].inst, no |-> checkouts + 1]]]
           /\ \E s \in Available(call[t].inst) :
                 /\ txn' = [txn EXCEPT ![checkouts + 1] = s.of]
                 /\ leftOpen' = leftOpen \ {s}
           /\ refused' = refused
  <2>1. PICK n \in 1 .. MaxCheckouts : n = checkouts + 1
    BY <1>3, BoundsAssumption DEF IInv, Typed
  <2>2. checkouts' = n /\ n \in Nat /\ checkouts \in Nat /\ n > checkouts
    BY <1>3, <2>1, BoundsAssumption DEF IInv, Typed
  <2>3. /\ call' = [u \in Threads |-> call'[u]]
        /\ call'[t].at \in {"GetInstall", "Health"} /\ call'[t].co.no = n
        /\ \A u \in Threads : u # t => call'[u] = call[u]
    BY Zenon, <1>3, <2>1 DEF IInv, Typed, GetAcquire
  <2>4. PICK o \in {0} \cup refused :
           leftOpen' \subseteq leftOpen /\ txn' = [txn EXCEPT ![n] = o]
    <3>1. PICK s \in Available(call[t].inst) :
             txn' = [txn EXCEPT ![n] = s.of] /\ leftOpen' = leftOpen \ {s}
      BY Zenon, <1>3, <2>1
    <3>2. s = Fresh(call[t].inst) \/ s \in leftOpen
      BY <3>1 DEF Available, is_valid
    <3>3. s.of \in {0} \cup refused
      BY <3>2 DEF Fresh, IInv, SessionInv
    <3> QED
      BY <3>1, <3>3
  <2>5. /\ txn' = [m \in 1 .. MaxCheckouts |-> txn'[m]] /\ txn'[n] = o
        /\ \A m \in 1 .. MaxCheckouts : m # n => txn'[m] = txn[m]
    BY Zenon, <2>4 DEF IInv, Typed
  <2>6. Typed'
    BY <1>1, <2>2, <2>3, <2>5, BoundsAssumption DEF IInv, Typed
  <2>7. StackInv' /\ \A i : Free(i)' <=> Free(i)
    BY <1>1 DEF IInv, StackInv, Free
  <2>8. HeldInv' /\ StatementInv'
    BY <1>1, <2>3, <2>7 DEF IInv, HeldInv, StatementInv
  <2>9. \A u \in Threads : u # t /\ Holding(u) => call[u].co.no \in 1 .. checkouts
    BY DEF IInv, CheckoutInv
  <2>10. CheckoutInv'
    <3>1. /\ \A id \in DOMAIN pooled : pooled[id].no \in 1 .. n /\ pooled[id].no # n
          /\ \A u \in Threads : u # t /\ Holding(u) => call[u].co.no \in 1 .. n /\ call[u].co.no # n
      BY <2>2, <2>9 DEF IInv, CheckoutInv
    <3>2. /\ Holding(t)' /\ \A u \in Threads : u # t => (Holding(u)' <=> Holding(u))
      BY <2>3 DEF Holding
    <3> QED
      BY <1>1, <2>2, <2>3, <3>1, <3>2 DEF IInv, CheckoutInv
  <2>11. SessionInv'
    <3>1. \A m \in 1 .. MaxCheckouts : txn'[m] \in {0, m} \cup refused
      BY <2>4, <2>5 DEF IInv, SessionInv
    <3>2. ASSUME NEW u \in Threads, u # t, call[u].at = "Health"
          PROVE  txn'[call[u].co.no] \in {0} \cup refused
      <4>1. call[u].co.no \in 1 .. checkouts /\ txn[call[u].co.no] \in {0} \cup refused
        BY <2>9, <3>2 DEF Holding, IInv, SessionInv
      <4>2. call[u].co.no \in 1 .. MaxCheckouts /\ call[u].co.no # n
        BY <1>3, <2>2, <4>1, BoundsAssumption
      <4> QED
        BY <2>5, <4>1, <4>2
    <3>3. \A u \in Threads : call'[u].at = "Health" => txn'[call'[u].co.no] \in {0} \cup refused
      BY <2>3, <2>4, <2>5, <3>2
    <3> QED
      BY <1>3, <2>4, <3>1, <3>3 DEF IInv, SessionInv
  <2> QED
    BY <2>6, <2>7, <2>8, <2>10, <2>11 DEF IInv
<1> QED
  BY <1>2, <1>3 DEF GetAcquire

\* The checkout of call t enters the table under an id nobody else has.
LEMMA Installed ==
  ASSUME IInv, NEW t \in Threads, Holding(t), NEW id \in Nat,
         StackInv', \A i : Free(i)' => Free(i) /\ i # id,
         nextPooledId' \in Nat, nextPooledId <= nextPooledId', id < nextPooledId',
         id \notin DOMAIN pooled,
         \A u \in Threads : u # t /\ call[u].at = "Exec" => call[u].id # id,
         \A s \in statements : s.id = id => s.no = call[t].co.no,
         pooled' = Put(pooled, id, call[t].co),
         call' = [call EXCEPT ![t] = IdleCall],
         UNCHANGED <<statements, checkouts>>,
         txn' = [n \in 1 .. MaxCheckouts |-> txn'[n]], SessionInv'
  PROVE  IInv'
<1>1. /\ call' = [u \in Threads |-> call'[u]] /\ call'[t].at = "Idle"
      /\ \A u \in Threads : u # t => call'[u] = call[u]
  BY DEF IInv, Typed, IdleCall
<1>2. /\ DOMAIN pooled' = DOMAIN pooled \cup {id} /\ pooled'[id] = call[t].co
      /\ \A i \in DOMAIN pooled : pooled'[i] = pooled[i]
  BY DEF Put
<1>3. Typed'
  BY <1>1 DEF IInv, Typed
<1>4. \A i \in Nat : i < nextPooledId => i < nextPooledId'
  BY DEF IInv, Typed
<1>5. HeldInv'
  BY <1>1, <1>2, <1>4 DEF IInv, HeldInv
<1>6. StatementInv'
  BY <1>1, <1>2, <1>4 DEF IInv, StatementInv
<1>7. \A u \in Threads : Holding(u)' <=> Holding(u) /\ u # t
  BY <1>1 DEF Holding
<1>8. CheckoutInv'
  BY <1>1, <1>2, <1>7 DEF IInv, CheckoutInv
<1> QED
  BY <1>3, <1>5, <1>6, <1>8 DEF IInv

LEMMA GetInstallKeeps ==
  ASSUME IInv, NEW t \in Threads, GetInstall(t)
  PROVE  IInv'
<1>1. /\ Holding(t) /\ call[t].at = "GetInstall"
      /\ call' = [call EXCEPT ![t] = IdleCall]
      /\ UNCHANGED <<statements, checkouts, txn, leftOpen, refused>>
  BY DEF GetInstall, Holding, sessionVars
<1>2. txn' = [n \in 1 .. MaxCheckouts |-> txn'[n]] /\ SessionInv'
  <2>1. \A u \in Threads : call'[u] = call[u] \/ call'[u].at = "Idle"
    BY <1>1 DEF IInv, Typed, IdleCall
  <2> QED
    BY <1>1, <2>1 DEF IInv, Typed, SessionInv
<1>3. PICK p : p = call[t].co.pool
  OBVIOUS
<1>4. CASE FreeOf(p) # <<>>
  <2>1. /\ pooled' = Put(pooled, Top(FreeOf(p)), call[t].co)
        /\ freeIds' = Put(freeIds, p, Popped(FreeOf(p)))
        /\ nextPooledId' = nextPooledId
    BY <1>3, <1>4 DEF GetInstall
  <2>2. p \in DOMAIN freeIds /\ FreeOf(p) = freeIds[p]
    BY <1>4 DEF FreeOf
  <2>3. PICK id : id = Top(freeIds[p])
    OBVIOUS
  <2>4. /\ StackInv' /\ id \in Nat /\ id < nextPooledId /\ Free(id)
        /\ \A i : Free(i)' => Free(i) /\ i # id
    BY <1>4, <2>1, <2>2, <2>3, PoppedKeeps
  <2>5. /\ id \notin DOMAIN pooled
        /\ \A u \in Threads : call[u].at = "Exec" => call[u].id # id
        /\ \A s \in statements : s.id # id
    BY <2>4 DEF IInv, HeldInv, StatementInv
  <2>6. nextPooledId' \in Nat /\ nextPooledId <= nextPooledId'
    BY <2>1 DEF IInv, Typed
  <2> QED
    BY Zenon, <1>1, <1>2, <2>1, <2>2, <2>3, <2>4, <2>5, <2>6, Installed
<1>5. CASE FreeOf(p) = <<>>
  <2>1. /\ pooled' = Put(pooled, nextPooledId, call[t].co)
        /\ nextPooledId' = nextPooledId + 1 /\ freeIds' = freeIds
    BY <1>3, <1>5 DEF GetInstall
  <2>2. PICK id \in Nat : id = nextPooledId
    BY DEF IInv, Typed
  <2>3. nextPooledId' \in Nat /\ nextPooledId <= nextPooledId' /\ id < nextPooledId'
    BY <2>1, <2>2
  <2>4. \A i : Free(i)' <=> Free(i)
    BY <2>1 DEF Free
  <2>5. ~Free(id)
    BY <2>2 DEF IInv, StackInv, Free
  <2>6. /\ id \notin DOMAIN pooled
        /\ \A u \in Threads : call[u].at = "Exec" => call[u].id # id
        /\ \A s \in statements : s.id # id
    BY <2>2 DEF IInv, HeldInv, StatementInv
  <2>7. StackInv'
    <3>1. \A i \in Nat : i < nextPooledId => i < nextPooledId'
      BY <2>1, <2>2
    <3>2. \A q \in DOMAIN freeIds : \A k \in 1 .. Len(freeIds[q]) : freeIds[q][k] \in Nat
      BY DEF IInv, StackInv
    <3> QED
      BY <2>1, <3>1, <3>2 DEF IInv, StackInv
  <2> QED
    BY Zenon, <1>1, <1>2, <2>1, <2>2, <2>3, <2>4, <2>5, <2>6, <2>7, Installed
<1> QED
  BY <1>4, <1>5

LEMMA ExecReturnKeeps ==
  ASSUME IInv, NEW t \in Threads, ExecReturn(t)
  PROVE  IInv'
<1>1. /\ call[t].at = "Exec" /\ Holding(t)
      /\ pooled' = Put(pooled, call[t].id, call[t].co)
      /\ call' = [call EXCEPT ![t] = IdleCall]
      /\ UNCHANGED <<freeIds, nextPooledId, statements, checkouts, leftOpen, refused>>
  BY DEF ExecReturn, Holding
<1>2. PICK id : id = call[t].id
  OBVIOUS
<1>3. /\ id \in Nat /\ id < nextPooledId /\ ~Free(id) /\ id \notin DOMAIN pooled
      /\ \A u \in Threads : u # t /\ call[u].at = "Exec" => call[u].id # id
      /\ \A s \in statements : s.id = id => s.no = call[t].co.no
  BY <1>1, <1>2 DEF IInv, HeldInv, StatementInv
<1>4. PICK n : n = call[t].co.no
  OBVIOUS
<1>5. n \in 1 .. checkouts /\ n \in 1 .. MaxCheckouts
  BY <1>1, <1>4, BoundsAssumption DEF IInv, Typed, CheckoutInv
<1>6. PICK o \in {0, n} \cup refused : txn' = [txn EXCEPT ![n] = o]
  BY Zenon, <1>4, <1>5 DEF ExecReturn, TransactionAfter, IInv, SessionInv
<1>7. /\ txn' = [m \in 1 .. MaxCheckouts |-> txn'[m]] /\ txn'[n] = o
      /\ \A m \in 1 .. MaxCheckouts : m # n => txn'[m] = txn[m]
  BY Zenon, <1>5, <1>6 DEF IInv, Typed
<1>8. SessionInv'
  <2>1. \A m \in 1 .. MaxCheckouts : txn'[m] \in {0, m} \cup refused
    BY <1>6, <1>7 DEF IInv, SessionInv
  <2>2. ASSUME NEW u \in Threads, call'[u].at = "Health"
        PROVE  txn'[call'[u].co.no] \in {0} \cup refused
    <3>1. u # t /\ call'[u] = call[u]
      BY <1>1, <2>2 DEF IInv, Typed, IdleCall
    <3>2. /\ call[u].co.no \in 1 .. checkouts /\ call[u].co.no # n
          /\ txn[call[u].co.no] \in {0} \cup refused
      BY <1>1, <1>4, <2>2, <3>1 DEF Holding, IInv, CheckoutInv, SessionInv
    <3>3. call[u].co.no \in 1 .. MaxCheckouts
      BY <3>2, BoundsAssumption DEF IInv, Typed
    <3> QED
      BY <1>7, <3>1, <3>2, <3>3
  <2> QED
    BY <1>1, <2>1, <2>2 DEF IInv, SessionInv
<1>9. StackInv' /\ \A i : Free(i)' <=> Free(i)
  BY <1>1 DEF IInv, StackInv, Free
<1>10. nextPooledId' \in Nat /\ nextPooledId <= nextPooledId'
  BY <1>1 DEF IInv, Typed
<1> QED
  BY Zenon, <1>1, <1>2, <1>3, <1>7, <1>8, <1>9, <1>10, Installed

\* Sessions go back to r2d2 in no transaction or in one that the driver refused
\* to roll back.
LEMMA GivenBack ==
  ASSUME IInv, NEW sessions, GiveBack(sessions), refused \subseteq refused',
         \A s \in sessions : s.of \in {0} \cup refused',
         \A t \in Threads : call'[t] = call[t] \/ call'[t].at = "Idle"
  PROVE  SessionInv' /\ txn' = [n \in 1 .. MaxCheckouts |-> txn'[n]]
<1>1. ASSUME NEW s \in leftOpen' PROVE s.of \in refused'
  <2>1. PICK alive \in SUBSET {q \in sessions : q.of # 0} :
           leftOpen' = leftOpen \cup {is_valid([inst |-> q.inst, of |-> q.of]) : q \in alive}
    BY Zenon DEF GiveBack
  <2>2. CASE s \in leftOpen
    BY <2>2 DEF IInv, SessionInv
  <2>3. CASE s \notin leftOpen
    <3>1. PICK q \in alive : s = [inst |-> q.inst, of |-> q.of]
      BY <2>1, <2>3 DEF is_valid
    <3>2. q.of \in refused'
      BY <2>1, <3>1
    <3> QED
      BY <3>1, <3>2
  <2> QED
    BY <2>2, <2>3
<1>2. /\ txn' = [n \in 1 .. MaxCheckouts |-> txn'[n]]
      /\ \A n \in 1 .. MaxCheckouts : txn'[n] = 0 \/ txn'[n] = txn[n]
  BY DEF GiveBack
<1>3. ASSUME NEW t \in Threads, call'[t].at = "Health"
      PROVE  txn'[call'[t].co.no] \in {0} \cup refused'
  <2>1. call'[t] = call[t] /\ Holding(t) /\ txn[call[t].co.no] \in {0} \cup refused
    BY <1>3 DEF Holding, IInv, SessionInv
  <2>2. call[t].co.no \in 1 .. checkouts
    BY <2>1 DEF IInv, CheckoutInv
  <2>3. call[t].co.no \in 1 .. MaxCheckouts
    BY <2>2, BoundsAssumption DEF IInv, Typed
  <2> QED
    BY <1>2, <2>1, <2>3
<1>4. \A n \in 1 .. MaxCheckouts : txn'[n] \in {0, n} \cup refused'
  BY <1>2 DEF IInv, SessionInv
<1> QED
  BY <1>1, <1>2, <1>3, <1>4 DEF SessionInv

LEMMA HealthEndKeeps ==
  ASSUME IInv, NEW t \in Threads, HealthEnd(t)
  PROVE  IInv'
<1>1. /\ call[t].at = "Health" /\ call' = [call EXCEPT ![t] = IdleCall]
      /\ UNCHANGED <<pooled, freeIds, nextPooledId, statements, checkouts, refused>>
  BY DEF HealthEnd
<1>2. /\ call' = [u \in Threads |-> call'[u]] /\ call'[t].at = "Idle"
      /\ \A u \in Threads : u # t => call'[u] = call[u]
  BY <1>1 DEF IInv, Typed, IdleCall
<1>3. SessionInv' /\ txn' = [n \in 1 .. MaxCheckouts |-> txn'[n]]
  <2>1. PICK sessions : sessions = {Session(call[t].co, txn[call[t].co.no])}
    BY Zenon
  <2>2. GiveBack(sessions)
    BY <2>1 DEF HealthEnd
  <2>3. \A s \in sessions : s.of \in {0} \cup refused'
    BY <1>1, <2>1 DEF Session, IInv, SessionInv
  <2> QED
    BY <1>1, <1>2, <2>2, <2>3, GivenBack
<1>4. \A i : Free(i)' <=> Free(i)
  BY <1>1 DEF Free
<1>5. Typed' /\ StackInv'
  BY <1>1, <1>2, <1>3 DEF IInv, Typed, StackInv
<1>6. HeldInv' /\ StatementInv'
  BY <1>1, <1>2, <1>4 DEF IInv, HeldInv, StatementInv
<1>7. CheckoutInv'
  BY <1>1, <1>2 DEF IInv, CheckoutInv, Holding
<1> QED
  BY <1>3, <1>5, <1>6, <1>7 DEF IInv
-----------------------------------------------------------------------------
(* The steps on the table.                                                 *)

LEMMA PrepareKeeps ==
  ASSUME IInv, NEW id, Prepare(id)
  PROVE  IInv'
<1>1. /\ id \in DOMAIN pooled
      /\ statements' = statements \cup {[id |-> id, no |-> pooled[id].no]}
      /\ UNCHANGED <<pooled, freeIds, nextPooledId, call, checkouts, txn, leftOpen, refused>>
  BY DEF Prepare, sessionVars
<1>2. \A i : Free(i)' <=> Free(i)
  BY <1>1 DEF Free
<1>3. Typed' /\ StackInv'
  <2>1. Typed'
    BY <1>1 DEF IInv, Typed
  <2>2. StackInv'
    BY <1>1 DEF IInv, StackInv
  <2> QED
    BY Zenon, <2>1, <2>2
<1>4. HeldInv'
  BY <1>1, <1>2 DEF IInv, HeldInv
<1>5. StatementInv'
  BY <1>1, <1>2 DEF IInv, StatementInv, HeldInv
<1>6. CheckoutInv' /\ SessionInv'
  BY <1>1 DEF IInv, CheckoutInv, SessionInv, Holding
<1> QED
  BY <1>3, <1>4, <1>5, <1>6 DEF IInv

LEMMA ExecTakeKeeps ==
  ASSUME IInv, NEW t \in Threads, NEW id, ExecTake(t, id)
  PROVE  IInv'
<1>1. /\ call[t] = IdleCall /\ id \in DOMAIN pooled
      /\ call' = [call EXCEPT ![t] = [at |-> "Exec", co |-> pooled[id], id |-> id]]
      /\ pooled' = Drop(pooled, {id})
      /\ UNCHANGED <<freeIds, nextPooledId, statements, checkouts, txn, leftOpen, refused>>
  BY DEF ExecTake, sessionVars
<1>2. /\ call' = [u \in Threads |-> call'[u]]
      /\ call'[t].at = "Exec" /\ call'[t].co = pooled[id] /\ call'[t].id = id
      /\ \A u \in Threads : u # t => call'[u] = call[u]
  BY <1>1 DEF IInv, Typed
<1>3. /\ DOMAIN pooled' = DOMAIN pooled \ {id}
      /\ \A i \in DOMAIN pooled \ {id} : pooled'[i] = pooled[i]
  BY <1>1 DEF Drop, Restrict
<1>4. \A i : Free(i)' <=> Free(i)
  BY <1>1 DEF Free
<1>5. Typed' /\ StackInv'
  BY <1>1, <1>2 DEF IInv, Typed, StackInv
<1>6. HeldInv'
  BY Zenon, <1>1, <1>2, <1>3, <1>4 DEF IInv, HeldInv
<1>7. StatementInv'
  <2> SUFFICES ASSUME NEW s \in statements
               PROVE  /\ s.id \in Nat /\ s.id < nextPooledId /\ ~Free(s.id)
                      /\ s.id \in DOMAIN pooled' => pooled'[s.id].no = s.no
                      /\ \A u \in Threads :
                            call'[u].at = "Exec" /\ call'[u].id = s.id => call'[u].co.no = s.no
    BY Zenon, <1>1, <1>4 DEF StatementInv
  <2>1. /\ s.id \in Nat /\ s.id < nextPooledId /\ ~Free(s.id)
        /\ s.id \in DOMAIN pooled => pooled[s.id].no = s.no
        /\ \A u \in Threads : call[u].at = "Exec" /\ call[u].id = s.id => call[u].co.no = s.no
    BY DEF IInv, StatementInv
  <2>2. s.id \in DOMAIN pooled' => pooled'[s.id].no = s.no
    BY <1>3, <2>1
  <2>3. s.id = id => pooled[id].no = s.no
    BY <1>1, <2>1
  <2> QED
    BY <1>2, <2>1, <2>2, <2>3
<1>8. \A u \in Threads : u # t => (Holding(u)' <=> Holding(u))
  BY <1>2 DEF Holding
<1>9. CheckoutInv'
  <2>1. /\ \A i \in DOMAIN pooled' : i \in DOMAIN pooled /\ i # id /\ pooled'[i] = pooled[i]
        /\ pooled[id].no \in 1 .. checkouts
    BY Zenon, <1>1, <1>3 DEF IInv, CheckoutInv
  <2>2. /\ \A i \in DOMAIN pooled' : pooled'[i].no \in 1 .. checkouts
        /\ \A i, j \in DOMAIN pooled' : pooled'[i].no = pooled'[j].no => i = j
    BY <2>1 DEF IInv, CheckoutInv
  <2>3. /\ call'[t].co.no \in 1 .. checkouts
        /\ \A i \in DOMAIN pooled' : pooled'[i].no # call'[t].co.no
        /\ \A u \in Threads : u # t /\ Holding(u)' => call'[u].co.no # call'[t].co.no
    <3>1. PICK n : n = pooled[id].no
      OBVIOUS
    <3>2. \A i \in DOMAIN pooled' : pooled'[i].no # n
      BY Zenon, <1>1, <2>1, <3>1 DEF IInv, CheckoutInv
    <3>3. \A u \in Threads : Holding(u) => call[u].co.no # n
      BY <1>1, <3>1 DEF IInv, CheckoutInv
    <3>4. call'[t].co.no = n
      BY <1>2, <3>1
    <3> QED
      BY <1>2, <1>8, <2>1, <3>1, <3>2, <3>3, <3>4
  <2>4. ASSUME NEW u \in Threads, u # t, Holding(u)'
        PROVE  /\ call'[u].co.no \in 1 .. checkouts
               /\ \A i \in DOMAIN pooled' : pooled'[i].no # call'[u].co.no
               /\ \A v \in Threads : v # t /\ Holding(v)' /\ call'[v].co.no = call'[u].co.no
                     => v = u
    BY <1>2, <1>8, <2>1, <2>4 DEF IInv, CheckoutInv
  <2> QED
    BY Zenon, <1>1, <2>2, <2>3, <2>4 DEF CheckoutInv
<1>10. SessionInv'
  BY <1>1, <1>2 DEF IInv, SessionInv
<1> QED
  BY <1>5, <1>6, <1>7, <1>9, <1>10 DEF IInv

\* Entries leave the table with their statements; only their ids become free.
LEMMA TakenOff ==
  ASSUME IInv, NEW ids, ids \subseteq DOMAIN pooled,
         pooled' = Drop(pooled, ids), statements' = StatementsOff(ids),
         UNCHANGED <<call, nextPooledId, checkouts>>,
         StackInv', \A i : Free(i)' => Free(i) \/ i \in ids,
         EndCheckouts({pooled[id] : id \in ids})
  PROVE  IInv'
<1>1. /\ DOMAIN pooled' = DOMAIN pooled \ ids
      /\ \A i \in DOMAIN pooled \ ids : pooled'[i] = pooled[i]
  BY DEF Drop, Restrict
<1>2. \A s \in statements' : s \in statements /\ s.id \notin ids
  BY DEF StatementsOff
<1>3. SessionInv' /\ txn' = [n \in 1 .. MaxCheckouts |-> txn'[n]]
  <2>1. PICK cos : cos = {pooled[id] : id \in ids}
    BY Zenon
  <2>2. PICK answers \in [cos -> BOOLEAN] :
          /\ refused' = refused \cup
                {txn[co.no] : co \in {d \in cos : txn[d.no] # 0 /\ ~answers[d]}}
          /\ GiveBack({Session(co, RolledBack(co, answers)) : co \in cos})
    BY <2>1, Zenon DEF EndCheckouts
  <2>3. PICK sessions : sessions = {Session(co, RolledBack(co, answers)) : co \in cos}
    BY Zenon
  <2>4. ASSUME NEW s \in sessions PROVE s.of \in {0} \cup refused'
    <3>1. PICK co \in cos : s = Session(co, RolledBack(co, answers))
      BY <2>3
    <3>2. s.of = RolledBack(co, answers)
      BY <3>1 DEF Session
    <3> QED
      BY <2>2, <3>1, <3>2 DEF RolledBack
  <2>5. GiveBack(sessions) /\ refused \subseteq refused'
    BY <2>2, <2>3
  <2> QED
    BY <2>4, <2>5, GivenBack
<1>4. Typed'
  BY Zenon, <1>3 DEF IInv, Typed
<1>5. HeldInv'
  BY Zenon, <1>1 DEF IInv, HeldInv
<1>6. StatementInv'
  BY Zenon, <1>1, <1>2 DEF IInv, StatementInv
<1>7. CheckoutInv'
  BY <1>1 DEF IInv, CheckoutInv, Holding
<1> QED
  BY <1>3, <1>4, <1>5, <1>6, <1>7 DEF IInv

LEMMA ReleaseKeeps ==
  ASSUME IInv, NEW id, Release(id)
  PROVE  IInv'
<1>1. /\ id \in DOMAIN pooled
      /\ pooled' = Drop(pooled, {id})
      /\ statements' = StatementsOff({id})
      /\ freeIds' = Put(freeIds, pooled[id].pool, Append(FreeOf(pooled[id].pool), id))
      /\ UNCHANGED <<call, nextPooledId, checkouts>>
  BY DEF Release
<1>2. id \in Nat /\ id < nextPooledId /\ ~Free(id)
  BY <1>1 DEF IInv, HeldInv
<1>3. StackInv' /\ \A i : Free(i)' => Free(i) \/ i = id
  BY <1>1, <1>2, PushedKeeps
<1>4. EndCheckouts({pooled[i] : i \in {id}})
  <2>1. {pooled[i] : i \in {id}} = {pooled[id]}
    OBVIOUS
  <2> QED
    BY <2>1, Zenon DEF Release
<1> QED
  BY <1>1, <1>3, <1>4, TakenOff

LEMMA CloseKeeps ==
  ASSUME IInv, NEW p, Close(p)
  PROVE  IInv'
<1>1. StackInv' /\ \A i : Free(i)' => Free(i)
  BY StackGone DEF Close
<1>2. CheckedOut(p) \subseteq DOMAIN pooled
  BY DEF CheckedOut
<1> QED
  BY <1>1, <1>2, TakenOff DEF Close
-----------------------------------------------------------------------------
LEMMA NextIInv == IInv /\ [Next]_vars => IInv'
<1> SUFFICES ASSUME IInv, [Next]_vars PROVE IInv'
  OBVIOUS
<1>1. CASE \/ \E size \in Sizes : PoolCreate(size)
           \/ \E t \in Threads, p \in PoolIds : GetStart(t, p) \/ HealthStart(t, p)
           \/ \E p \in PoolIds, size \in Sizes, ok \in BOOLEAN : SetSize(p, size, ok)
           \/ UNCHANGED vars
  BY <1>1, PlainSteps
<1>2. CASE \E t \in Threads : GetAcquire(t) \/ GetInstall(t) \/ HealthEnd(t) \/ ExecReturn(t)
  BY <1>2, GetAcquireKeeps, GetInstallKeeps, HealthEndKeeps, ExecReturnKeeps
<1>3. CASE \E id \in PooledIds : Prepare(id) \/ Release(id)
  BY <1>3, PrepareKeeps, ReleaseKeeps
<1>4. CASE \E t \in Threads, id \in PooledIds : ExecTake(t, id)
  BY <1>4, ExecTakeKeeps
<1>5. CASE \E p \in PoolIds : Close(p)
  BY <1>5, CloseKeeps
<1> QED
  BY <1>1, <1>2, <1>3, <1>4, <1>5 DEF Next

LEMMA Invariance == Spec => []IInv
  BY InitIInv, NextIInv, PTL DEF Spec

\* A pooled connection id has one user at a time, and a prepared statement the
\* checkout it was prepared on: however gets, statements, releases, resizes and
\* closes interleave, an id on a stack of pooled_free_ids is on one stack, once,
\* and belongs to no table entry, no running statement and no prepared one.
THEOREM OneUser == Spec => []IdsServeOneUser
<1>1. IInv => IdsServeOneUser
  <2> SUFFICES ASSUME IInv PROVE IdsServeOneUser
    OBVIOUS
  <2>1. ASSUME NEW p \in DOMAIN freeIds, NEW i \in Range(freeIds[p])
        PROVE  Free(i) /\ \E k \in 1 .. Len(freeIds[p]) : freeIds[p][k] = i
    <3>1. DOMAIN freeIds[p] = 1 .. Len(freeIds[p])
      BY DEF IInv, StackInv
    <3> QED
      BY <3>1 DEF Range, Free
  <2>2. \A p \in DOMAIN freeIds : IsInjective(freeIds[p])
    <3> SUFFICES ASSUME NEW p \in DOMAIN freeIds PROVE IsInjective(freeIds[p])
      OBVIOUS
    <3>1. DOMAIN freeIds[p] = 1 .. Len(freeIds[p])
      BY DEF IInv, StackInv
    <3> QED
      BY <3>1 DEF IInv, StackInv, IsInjective
  <2>3. ASSUME NEW p \in DOMAIN freeIds, NEW i \in Range(freeIds[p])
        PROVE  i \notin IdsHeld \cup {s.id : s \in statements}
    <3>1. Free(i)
      BY <2>1
    <3>2. i \notin DOMAIN pooled /\ \A t \in Threads : call[t].at = "Exec" => call[t].id # i
      BY <3>1 DEF IInv, HeldInv
    <3>3. \A s \in statements : s.id # i
      BY <3>1 DEF IInv, StatementInv
    <3> QED
      BY <3>2, <3>3 DEF IdsHeld
  <2>4. ASSUME NEW p \in DOMAIN freeIds, NEW q \in DOMAIN freeIds \ {p},
               NEW i \in Range(freeIds[p])
        PROVE  i \notin Range(freeIds[q])
    <3>1. PICK j \in 1 .. Len(freeIds[p]) : freeIds[p][j] = i
      BY DEF IInv, StackInv, Range
    <3>2. \A k \in 1 .. Len(freeIds[q]) : freeIds[q][k] # i
      BY <3>1 DEF IInv, StackInv
    <3> QED
      BY <3>2 DEF IInv, StackInv, Range
  <2>5. \A s \in statements : s.id \in DOMAIN pooled => pooled[s.id].no = s.no
    BY DEF IInv, StatementInv
  <2>6. \A p \in DOMAIN freeIds :
           /\ Range(freeIds[p]) \cap (IdsHeld \cup {s.id : s \in statements}) = {}
           /\ \A q \in DOMAIN freeIds \ {p} : Range(freeIds[p]) \cap Range(freeIds[q]) = {}
    BY <2>3, <2>4
  <2> QED
    BY <2>2, <2>5, <2>6 DEF IdsServeOneUser
<1> QED
  BY <1>1, Invariance, PTL

\* No borrower finds the transaction of an earlier one unless the driver refused
\* to roll it back: every way back to r2d2, the release, the close of the pool
\* and the end of a health check, asks for the rollback or comes from a session
\* that has begun nothing, whatever the statements left open.
THEOREM CleanSessions == Spec => []CleanCheckout
<1>1. IInv => CleanCheckout
  BY DEF IInv, SessionInv, CleanCheckout
<1> QED
  BY <1>1, Invariance, PTL
-----------------------------------------------------------------------------
(* No pool gives out more than its size.                                   *)

\* What has to do with one r2d2 pool: its checkouts and the calls that wait for it.
Users == LiveCheckouts \cup {call[t] : t \in {u \in Threads : call[u].at = "GetWait"}}

OutOf(i) == {co \in LiveCheckouts : co.inst = i}

\* An r2d2 pool stands behind one pool id, with the size the table shows, and has
\* no more out than that.  What uses it was meant for that pool id, and a quiet
\* pool that is used is still there, with the r2d2 pool it had.
PoolInv ==
    \A p \in DOMAIN pools :
        /\ p \in Nat /\ p < nextPoolId
        /\ pools[p].inst \in 1 .. Len(insts) /\ pools[p].size = insts[pools[p].inst]
        /\ \A q \in DOMAIN pools : pools[q].inst = pools[p].inst => q = p

UserInv ==
    \A u \in Users :
        /\ u.inst \in 1 .. Len(insts) /\ u.pool \in Nat /\ u.pool < nextPoolId
        /\ \A p \in DOMAIN pools : pools[p].inst = u.inst => u.pool = p
        /\ u.pool \in Quiet => u.pool \in DOMAIN pools /\ pools[u.pool].inst = u.inst

RoomInv ==
    \A i \in 1 .. Len(insts) : IsFiniteSet(OutOf(i)) /\ Cardinality(OutOf(i)) <= insts[i]

SizeInv == insts \in Seq(Nat) /\ nextPoolId \in Nat /\ PoolInv /\ UserInv /\ RoomInv
-----------------------------------------------------------------------------
LEMMA LiveAre ==
  \A co : co \in LiveCheckouts <=> \/ \E id \in DOMAIN pooled : co = pooled[id]
                                   \/ \E t \in Threads : Holding(t) /\ co = call[t].co
BY Zenon DEF LiveCheckouts, Range

LEMMA LiveAreNext ==
  \A co : co \in LiveCheckouts' <=> \/ \E id \in DOMAIN pooled' : co = pooled'[id]
                                    \/ \E t \in Threads : Holding(t)' /\ co = call'[t].co
BY Zenon DEF LiveCheckouts, Range

LEMMA UsersAre ==
  \A u : u \in Users <=> \/ u \in LiveCheckouts
                         \/ \E t \in Threads : call[t].at = "GetWait" /\ u = call[t]
BY Zenon DEF Users

LEMMA UsersAreNext ==
  \A u : u \in Users' <=> \/ u \in LiveCheckouts'
                          \/ \E t \in Threads : call'[t].at = "GetWait" /\ u = call'[t]
BY Zenon DEF Users

\* The pools that stay are as they were; nobody uses a quiet pool that goes.
PoolsStay ==
    /\ insts' = insts /\ nextPoolId' = nextPoolId /\ DOMAIN pools' \subseteq DOMAIN pools
    /\ \A p \in DOMAIN pools' : pools'[p] = pools[p]
    /\ \A p \in Quiet \cap (DOMAIN pools \ DOMAIN pools') : \A u \in Users' : u.pool # p

\* No checkout is made, and a user is one that was or one of a pool of the table.
LEMMA FewerOut ==
  ASSUME SizeInv, PoolsStay, LiveCheckouts' \subseteq LiveCheckouts,
         \A u \in Users' : \/ u \in Users
                           \/ u.pool \in DOMAIN pools /\ u.inst = pools[u.pool].inst
  PROVE  SizeInv'
<1>1. PoolInv'
  BY DEF SizeInv, PoolInv, PoolsStay
<1>2. UserInv'
  BY DEF SizeInv, PoolInv, UserInv, PoolsStay
<1>3. RoomInv'
  <2> SUFFICES ASSUME NEW i \in 1 .. Len(insts)
               PROVE  IsFiniteSet(OutOf(i)') /\ Cardinality(OutOf(i)') <= insts[i]
    BY DEF PoolsStay, RoomInv
  <2>1. OutOf(i)' \subseteq OutOf(i)
    BY DEF OutOf
  <2>2. IsFiniteSet(OutOf(i)) /\ Cardinality(OutOf(i)) <= insts[i] /\ insts[i] \in Nat
    BY DEF SizeInv, RoomInv
  <2>3. IsFiniteSet(OutOf(i)') /\ Cardinality(OutOf(i)') <= Cardinality(OutOf(i))
    BY Zenon, <2>1, <2>2, FS_Subset
  <2>4. Cardinality(OutOf(i)) \in Nat /\ Cardinality(OutOf(i)') \in Nat
    BY Zenon, <2>2, <2>3, FS_CardinalityType
  <2> QED
    BY <2>2, <2>3, <2>4
<1> QED
  BY <1>1, <1>2, <1>3 DEF SizeInv, PoolsStay

\* Checkouts are handed between the table and the calls, or given back.
LEMMA OnlyMoved ==
  ASSUME SizeInv, PoolsStay,
         \A id \in DOMAIN pooled' : pooled'[id] \in LiveCheckouts,
         \A t \in Threads :
            \/ call'[t] = call[t] \/ call'[t].at = "Idle"
            \/ Holding(t)' /\ call'[t].co \in LiveCheckouts
            \/ /\ call'[t].at = "GetWait" /\ call'[t].pool \in DOMAIN pools
               /\ call'[t].inst = pools[call'[t].pool].inst
  PROVE  SizeInv'
<1>1. ASSUME NEW co \in LiveCheckouts' PROVE co \in LiveCheckouts
  <2>1. CASE \E id \in DOMAIN pooled' : co = pooled'[id]
    BY Zenon, <2>1
  <2>2. ASSUME NEW t \in Threads, Holding(t)', co = call'[t].co PROVE co \in LiveCheckouts
    <3>1. call'[t] = call[t] => Holding(t) /\ co = call[t].co
      BY <2>2 DEF Holding
    <3>2. call'[t].at # "Idle" /\ call'[t].at # "GetWait"
      BY <2>2 DEF Holding
    <3> QED
      BY Zenon, <2>2, <3>1, <3>2, LiveAre
  <2> QED
    BY Zenon, <2>1, <2>2, LiveAreNext
<1>2. ASSUME NEW u \in Users', u \notin LiveCheckouts'
      PROVE  \/ u \in Users
             \/ u.pool \in DOMAIN pools /\ u.inst = pools[u.pool].inst
  <2>1. PICK t \in Threads : call'[t].at = "GetWait" /\ u = call'[t]
    BY Zenon, <1>2, UsersAreNext
  <2>2. call'[t].at # "Idle" /\ ~Holding(t)'
    BY <2>1 DEF Holding
  <2> QED
    BY Zenon, <2>1, <2>2, UsersAre
<1>3. LiveCheckouts \subseteq Users
  BY Zenon, UsersAre
<1> QED
  BY Zenon, <1>1, <1>2, <1>3, FewerOut

LEMMA SamePools ==
  ASSUME UNCHANGED <<pools, nextPoolId, insts>>
  PROVE  PoolsStay
BY DEF PoolsStay

LEMMA InTable == \A id \in DOMAIN pooled : pooled[id] \in LiveCheckouts
BY Zenon, LiveAre

LEMMA WaitForSizes ==
  ASSUME IInv, SizeInv, NEW t \in Threads, NEW p \in PoolIds, NEW then, WaitFor(t, p, then)
  PROVE  SizeInv'
<1>1. /\ call' = [call EXCEPT ![t] = [at |-> "GetWait", pool |-> p, inst |-> pools[p].inst,
                                      then |-> then]]
      /\ p \in DOMAIN pools /\ UNCHANGED <<pools, nextPoolId, insts, pooled>>
  BY Zenon DEF WaitFor
<1>2. /\ call'[t].at = "GetWait" /\ call'[t].pool = p /\ call'[t].inst = pools[p].inst
      /\ \A u \in Threads : u # t => call'[u] = call[u]
  BY <1>1 DEF IInv, Typed
<1>3. PoolsStay /\ \A id \in DOMAIN pooled' : pooled'[id] \in LiveCheckouts
  BY Zenon, <1>1, SamePools, InTable
<1> QED
  BY Zenon, <1>1, <1>2, <1>3, OnlyMoved

\* A call ends, and the table has only checkouts that existed.
LEMMA EndsSizes ==
  ASSUME IInv, SizeInv, NEW t \in Threads, call' = [call EXCEPT ![t] = IdleCall],
         UNCHANGED <<pools, nextPoolId, insts>>,
         \A id \in DOMAIN pooled' : pooled'[id] \in LiveCheckouts
  PROVE  SizeInv'
<1>1. call'[t].at = "Idle" /\ \A u \in Threads : u # t => call'[u] = call[u]
  BY DEF IInv, Typed, IdleCall
<1> QED
  BY Zenon, <1>1, SamePools, OnlyMoved

\* The table gets a checkout that a call held.
LEMMA PutSizes ==
  ASSUME NEW t \in Threads, Holding(t), NEW id, pooled' = Put(pooled, id, call[t].co)
  PROVE  \A i \in DOMAIN pooled' : pooled'[i] \in LiveCheckouts
<1>1. call[t].co \in LiveCheckouts
  BY Zenon, LiveAre
<1>2. \A i \in DOMAIN pooled' : \/ pooled'[i] = call[t].co
                                \/ i \in DOMAIN pooled /\ pooled'[i] = pooled[i]
  BY DEF Put
<1> QED
  BY Zenon, <1>1, <1>2, InTable

LEMMA CallSizes ==
  ASSUME IInv, SizeInv, NEW t \in Threads,
         GetInstall(t) \/ HealthEnd(t) \/ ExecReturn(t)
  PROVE  SizeInv'
<1>1. CASE GetInstall(t)
  <2>1. /\ \E id : pooled' = Put(pooled, id, call[t].co)
        /\ call' = [call EXCEPT ![t] = IdleCall] /\ UNCHANGED <<pools, nextPoolId, insts>>
        /\ call[t].at = "GetInstall"
    BY Zenon, <1>1 DEF GetInstall
  <2> QED
    BY Zenon, <2>1, PutSizes, EndsSizes DEF Holding
<1>2. CASE HealthEnd(t)
  <2>1. /\ call' = [call EXCEPT ![t] = IdleCall] /\ UNCHANGED <<pools, nextPoolId, insts>>
        /\ pooled' = pooled
    BY Zenon, <1>2 DEF HealthEnd
  <2> QED
    BY Zenon, <2>1, InTable, EndsSizes
<1>3. CASE ExecReturn(t)
  <2>1. /\ \E id : pooled' = Put(pooled, id, call[t].co)
        /\ call' = [call EXCEPT ![t] = IdleCall] /\ UNCHANGED <<pools, nextPoolId, insts>>
        /\ call[t].at = "Exec"
    BY Zenon, <1>3 DEF ExecReturn
  <2> QED
    BY Zenon, <2>1, PutSizes, EndsSizes DEF Holding
<1> QED
  BY <1>1, <1>2, <1>3

\* Entries leave the table.
LEMMA Dropped ==
  ASSUME NEW ids, pooled' = Drop(pooled, ids)
  PROVE  /\ \A i \in DOMAIN pooled' : i \in DOMAIN pooled /\ i \notin ids /\ pooled'[i] = pooled[i]
         /\ \A i \in DOMAIN pooled' : pooled'[i] \in LiveCheckouts
<1>1. \A i \in DOMAIN pooled' : i \in DOMAIN pooled /\ i \notin ids /\ pooled'[i] = pooled[i]
  BY DEF Drop, Restrict
<1> QED
  BY Zenon, <1>1, InTable

LEMMA TableSizes ==
  ASSUME IInv, SizeInv, NEW id \in PooledIds,
         Prepare(id) \/ Release(id) \/ \E t \in Threads : ExecTake(t, id)
  PROVE  SizeInv'
<1>1. CASE Prepare(id)
  <2>1. UNCHANGED <<pools, nextPoolId, insts, pooled, call>>
    BY Zenon, <1>1 DEF Prepare
  <2> QED
    BY Zenon, <2>1, SamePools, InTable, OnlyMoved
<1>2. CASE Release(id)
  <2>1. UNCHANGED <<pools, nextPoolId, insts, call>> /\ pooled' = Drop(pooled, {id})
    BY Zenon, <1>2 DEF Release
  <2> QED
    BY Zenon, <2>1, SamePools, Dropped, OnlyMoved
<1>3. ASSUME NEW t \in Threads, ExecTake(t, id) PROVE SizeInv'
  <2>1. /\ call' = [call EXCEPT ![t] = [at |-> "Exec", co |-> pooled[id], id |-> id]]
        /\ id \in DOMAIN pooled /\ pooled' = Drop(pooled, {id})
        /\ UNCHANGED <<pools, nextPoolId, insts>>
    BY Zenon, <1>3 DEF ExecTake
  <2>2. /\ call'[t].at = "Exec" /\ call'[t].co = pooled[id]
        /\ \A u \in Threads : u # t => call'[u] = call[u]
    BY <2>1 DEF IInv, Typed
  <2>3. Holding(t)' /\ call'[t].co \in LiveCheckouts
    BY Zenon, <2>1, <2>2, InTable DEF Holding
  <2>4. PoolsStay /\ \A i \in DOMAIN pooled' : pooled'[i] \in LiveCheckouts
    BY Zenon, <2>1, SamePools, Dropped
  <2> QED
    BY Zenon, <2>2, <2>3, <2>4, OnlyMoved
<1> QED
  BY <1>1, <1>2, <1>3
-----------------------------------------------------------------------------
(* A checkout is made.                                                     *)

LEMMA AcquireSizes ==
  ASSUME IInv, SizeInv, NEW t \in Threads, GetAcquire(t)
  PROVE  SizeInv'
<1>1. call[t].at = "GetWait" /\ UNCHANGED <<pools, nextPoolId, insts, pooled>>
  BY Zenon DEF GetAcquire
<1>2. CASE call' = [call EXCEPT ![t] = IdleCall]
  BY Zenon, <1>1, <1>2, InTable, EndsSizes
<1> DEFINE i == call[t].inst
           new == [pool |-> call[t].pool, inst |-> i, no |-> checkouts + 1]
<1>3. CASE HasRoom(i) /\ call' = [call EXCEPT ![t] = [at |-> call[t].then, co |-> new]]
  <2>1. i \in 1 .. Len(insts) /\ new.pool = call[t].pool /\ new.inst = call[t].inst
    BY Zenon, <1>1, UsersAre DEF SizeInv, UserInv
  <2>2. /\ call'[t].at # "GetWait" /\ call'[t].co = new
        /\ \A u \in Threads : u # t => call'[u] = call[u]
    BY <1>1, <1>3 DEF IInv, Typed
  <2> HIDE DEF new
  <2>3. \A co \in LiveCheckouts' : co \in LiveCheckouts \/ co = new
    <3> SUFFICES ASSUME NEW co \in LiveCheckouts' PROVE co \in LiveCheckouts \/ co = new
      OBVIOUS
    <3>1. CASE \E id \in DOMAIN pooled' : co = pooled'[id]
      BY Zenon, <1>1, <3>1, InTable
    <3>2. ASSUME NEW u \in Threads, u # t, Holding(u)', co = call'[u].co PROVE co \in LiveCheckouts
      <4>1. Holding(u) /\ co = call[u].co
        BY <2>2, <3>2 DEF Holding
      <4> QED
        BY Zenon, <4>1, LiveAre
    <3>3. ASSUME NEW u \in Threads, Holding(u)', co = call'[u].co
          PROVE  co \in LiveCheckouts \/ co = new
      BY Zenon, <2>2, <3>2, <3>3
    <3>4. \/ \E id \in DOMAIN pooled' : co = pooled'[id]
          \/ \E u \in Threads : Holding(u)' /\ co = call'[u].co
      BY Zenon, LiveAreNext
    <3> QED
      BY Zenon, <3>1, <3>3, <3>4
  <2>4. \A u \in Users' : u \in Users \/ u = new
    <3> SUFFICES ASSUME NEW u \in Users', u \notin LiveCheckouts' PROVE u \in Users
      BY Zenon, <2>3, UsersAre
    <3>1. PICK v \in Threads : call'[v].at = "GetWait" /\ u = call'[v]
      BY Zenon, UsersAreNext
    <3> QED
      BY Zenon, <2>2, <3>1, UsersAre
  <2>5. PoolInv'
    BY Zenon, <1>1 DEF SizeInv, PoolInv
  <2>6. UserInv'
    <3>1. call[t] \in Users
      BY Zenon, <1>1, UsersAre
    <3> QED
      BY <1>1, <2>1, <2>4, <3>1 DEF SizeInv, UserInv
  <2>7. RoomInv'
    <3> SUFFICES ASSUME NEW j \in 1 .. Len(insts)
                 PROVE  IsFiniteSet(OutOf(j)') /\ Cardinality(OutOf(j)') <= insts[j]
      BY <1>1 DEF RoomInv
    <3> DEFINE S == OutOf(j)
               T == OutOf(j)'
    <3>1. IsFiniteSet(S) /\ Cardinality(S) <= insts[j] /\ insts[j] \in Nat
      BY DEF SizeInv, RoomInv
    <3>2. T \subseteq S \cup {new} /\ (j # i => T \subseteq S)
      BY <2>1, <2>3 DEF OutOf
    <3>3. j = i => Cardinality(S) < insts[j]
      BY <1>3 DEF HasRoom, OutOf
    <3> HIDE DEF S, T
    <3>4. /\ IsFiniteSet(S \cup {new})
          /\ Cardinality(S \cup {new}) = IF new \in S THEN Cardinality(S) ELSE Cardinality(S) + 1
      BY Zenon, <3>1, FS_AddElement
    <3>5. IsFiniteSet(T) /\ Cardinality(T) <= Cardinality(S \cup {new})
      BY Zenon, <3>2, <3>4, FS_Subset
    <3>6. j # i => Cardinality(T) <= Cardinality(S)
      BY Zenon, <3>1, <3>2, FS_Subset
    <3>7. Cardinality(S) \in Nat /\ Cardinality(T) \in Nat
      BY Zenon, <3>1, <3>5, FS_CardinalityType
    <3>8. Cardinality(T) <= insts[j]
      BY <3>1, <3>3, <3>4, <3>5, <3>6, <3>7
    <3> QED
      BY Zenon, <3>5, <3>8 DEF T
  <2> QED
    BY <1>1, <2>5, <2>6, <2>7 DEF SizeInv
<1> QED
  BY Zenon, <1>2, <1>3 DEF GetAcquire
-----------------------------------------------------------------------------
(* Pools come, go and are replaced.                                        *)

\* Nothing uses pool p.
Unused(p) == \A u \in Users : u.pool # p

LEMMA SameUsers ==
  ASSUME UNCHANGED <<pooled, call>>
  PROVE  LiveCheckouts' = LiveCheckouts /\ Users' = Users
BY DEF LiveCheckouts, Users, Holding

LEMMA NewSizes ==
  ASSUME SizeInv, NEW p \in Nat, NEW size \in Sizes, new_with_options(p, size),
         nextPoolId' \in Nat, nextPoolId' >= nextPoolId, p < nextPoolId',
         p \in Quiet => Unused(p), UNCHANGED <<pooled, call>>
  PROVE  SizeInv'
<1> DEFINE i == Len(insts) + 1
           rec == [inst |-> i, size |-> size]
<1>1. insts' = Append(insts, size) /\ pools' = Put(pools, p, rec)
  BY DEF new_with_options
<1>2. /\ insts' \in Seq(Nat) /\ Len(insts') = i /\ insts'[i] = size /\ Len(insts) \in Nat
      /\ \A j \in 1 .. Len(insts) : j # i /\ j \in 1 .. Len(insts') /\ insts'[j] = insts[j]
      /\ size \in Nat /\ size >= 0
  BY <1>1, SizesAssumption DEF SizeInv
<1>3. /\ DOMAIN pools' = DOMAIN pools \cup {p} /\ pools'[p].inst = i /\ pools'[p].size = size
      /\ \A q \in DOMAIN pools \ {p} : pools'[q] = pools[q]
  BY <1>1 DEF Put
<1>4. LiveCheckouts' = LiveCheckouts /\ Users' = Users
  BY SameUsers
<1> HIDE DEF rec
<1>5. PoolInv'
  <2> SUFFICES ASSUME NEW q \in DOMAIN pools'
               PROVE  /\ q \in Nat /\ q < nextPoolId'
                      /\ pools'[q].inst \in 1 .. Len(insts')
                      /\ pools'[q].size = insts'[pools'[q].inst]
                      /\ \A r \in DOMAIN pools' : pools'[r].inst = pools'[q].inst => r = q
    BY Zenon DEF PoolInv
  <2>1. \A r \in DOMAIN pools \ {p} :
           /\ r \in Nat /\ r < nextPoolId' /\ pools'[r] = pools[r]
           /\ pools[r].inst \in 1 .. Len(insts) /\ pools[r].size = insts[pools[r].inst]
    BY <1>3 DEF SizeInv, PoolInv
  <2>2. CASE q = p
    BY <1>2, <1>3, <2>1, <2>2
  <2>3. CASE q # p
    <3>1. \A r \in DOMAIN pools : pools[r].inst = pools[q].inst => r = q
      BY Zenon, <1>3, <2>3 DEF SizeInv, PoolInv
    <3>2. q \in DOMAIN pools \ {p} /\ pools'[q] = pools[q]
      BY Zenon, <1>3, <2>3
    <3>3. /\ pools[q].inst # i /\ pools[q].inst \in 1 .. Len(insts')
          /\ pools[q].size = insts'[pools[q].inst]
      BY Zenon, <1>2, <2>1, <3>2
    <3>4. \A r \in DOMAIN pools' : pools'[r].inst = pools[q].inst => r = q
      BY Zenon, <1>3, <3>1, <3>3
    <3> QED
      BY Zenon, <2>1, <3>2, <3>3, <3>4
  <2> QED
    BY <2>2, <2>3
<1>6. UserInv'
  <2> SUFFICES ASSUME NEW u \in Users
               PROVE  /\ u.inst \in 1 .. Len(insts') /\ u.pool \in Nat /\ u.pool < nextPoolId'
                      /\ \A q \in DOMAIN pools' : pools'[q].inst = u.inst => u.pool = q
                      /\ u.pool \in Quiet =>
                            u.pool \in DOMAIN pools' /\ pools'[u.pool].inst = u.inst
    BY Zenon, <1>4 DEF UserInv
  <2>1. /\ u.inst \in 1 .. Len(insts) /\ u.pool \in Nat /\ u.pool < nextPoolId
        /\ \A q \in DOMAIN pools : pools[q].inst = u.inst => u.pool = q
        /\ u.pool \in Quiet => u.pool \in DOMAIN pools /\ pools[u.pool].inst = u.inst
    BY DEF SizeInv, UserInv
  <2>2. u.pool \in Quiet => u.pool # p
    BY Zenon DEF Unused
  <2>3. u.pool < nextPoolId'
    BY <2>1 DEF SizeInv
  <2> QED
    BY Zenon, <1>2, <1>3, <2>1, <2>2, <2>3
<1>7. RoomInv'
  <2> SUFFICES ASSUME NEW j \in 1 .. i
               PROVE  IsFiniteSet(OutOf(j)') /\ Cardinality(OutOf(j)') <= insts'[j]
    BY <1>2 DEF RoomInv
  <2>1. OutOf(j)' = OutOf(j)
    BY Zenon, <1>4 DEF OutOf
  <2>2. CASE j = i
    <3>1. OutOf(j) = {}
      <4>1. \A co \in LiveCheckouts : co.inst \in 1 .. Len(insts)
        BY Zenon, UsersAre DEF SizeInv, UserInv
      <4> QED
        BY <1>2, <2>2, <4>1 DEF OutOf
    <3>2. IsFiniteSet(OutOf(j)) /\ Cardinality(OutOf(j)) = 0
      BY Zenon, <3>1, FS_EmptySet
    <3> QED
      BY <1>2, <2>1, <2>2, <3>2
  <2>3. CASE j # i
    <3>1. j \in 1 .. Len(insts) /\ insts'[j] = insts[j]
      BY <1>2, <2>3
    <3> QED
      BY Zenon, <2>1, <3>1 DEF SizeInv, RoomInv
  <2> QED
    BY <2>2, <2>3
<1> QED
  BY <1>2, <1>5, <1>6, <1>7 DEF SizeInv

LEMMA CreateSizes ==
  ASSUME SizeInv, NEW size \in Sizes, PoolCreate(size)
  PROVE  SizeInv'
<1>1. /\ new_with_options(nextPoolId, size) /\ nextPoolId' = nextPoolId + 1
      /\ UNCHANGED <<pooled, call>>
  BY Zenon DEF PoolCreate
<1>2. nextPoolId \in Nat
  BY DEF SizeInv
<1>3. Unused(nextPoolId)
  BY <1>2 DEF SizeInv, UserInv, Unused
<1>4. nextPoolId' \in Nat /\ nextPoolId' >= nextPoolId /\ nextPoolId < nextPoolId'
  BY <1>1, <1>2
<1> QED
  BY Zenon, <1>1, <1>2, <1>3, <1>4, NewSizes

\* While no call is in a pool, what uses it is in the table.
LEMMA IdleUsers ==
  ASSUME NEW p, ~InUse(p), NEW u \in Users, u.pool = p
  PROVE  \E id \in CheckedOut(p) : u = pooled[id]
<1>1. \/ \E id \in DOMAIN pooled : u = pooled[id]
      \/ \E t \in Threads : Holding(t) /\ u = call[t].co
      \/ \E t \in Threads : call[t].at = "GetWait" /\ u = call[t]
  BY Zenon, LiveAre, UsersAre
<1> QED
  BY Zenon, <1>1 DEF InUse, CheckedOut

LEMMA SetSizeSizes ==
  ASSUME SizeInv, NEW p \in PoolIds, NEW size \in Sizes, NEW ok \in BOOLEAN, SetSize(p, size, ok)
  PROVE  SizeInv'
<1>1. /\ p \in DOMAIN pools /\ (p \in Quiet => ~InUse(p)) /\ CheckedOut(p) = {}
      /\ UNCHANGED <<nextPoolId, pooled, call>>
      /\ \/ new_with_options(p, size)
         \/ pools' = Drop(pools, {p}) /\ insts' = insts
  BY Zenon DEF SetSize
<1>2. p \in Quiet => Unused(p)
  BY Zenon, <1>1, IdleUsers DEF Unused
<1>3. CASE new_with_options(p, size)
  <2>1. /\ p \in Nat /\ p < nextPoolId'
        /\ nextPoolId' \in Nat /\ nextPoolId' >= nextPoolId
    BY <1>1 DEF SizeInv, PoolInv
  <2> QED
    BY Zenon, <1>1, <1>2, <1>3, <2>1, NewSizes
<1>4. CASE pools' = Drop(pools, {p}) /\ insts' = insts
  <2>1. /\ DOMAIN pools' = DOMAIN pools \ {p}
        /\ \A q \in DOMAIN pools' : pools'[q] = pools[q]
    BY <1>4 DEF Drop, Restrict
  <2>2. LiveCheckouts' = LiveCheckouts /\ Users' = Users
    BY Zenon, <1>1, SameUsers
  <2>3. PoolsStay
    BY Zenon, <1>1, <1>2, <1>4, <2>1, <2>2 DEF PoolsStay, Unused
  <2> QED
    BY Zenon, <2>2, <2>3, FewerOut
<1> QED
  BY <1>1, <1>3, <1>4

LEMMA CloseSizes ==
  ASSUME IInv, SizeInv, NEW p \in PoolIds, Close(p)
  PROVE  SizeInv'
<1>1. /\ p \in Quiet => ~InUse(p)
      /\ pooled' = Drop(pooled, CheckedOut(p)) /\ pools' = Drop(pools, {p})
      /\ UNCHANGED <<nextPoolId, insts, call>>
  BY Zenon DEF Close
<1>2. /\ DOMAIN pools' = DOMAIN pools \ {p}
      /\ \A q \in DOMAIN pools' : pools'[q] = pools[q]
  BY <1>1 DEF Drop, Restrict
<1>3. \A id \in DOMAIN pooled' :
         id \in DOMAIN pooled /\ id \notin CheckedOut(p) /\ pooled'[id] = pooled[id]
  BY Zenon, <1>1, Dropped
<1>4. InUse(p)' <=> InUse(p)
  BY Zenon, <1>1 DEF InUse, Holding
<1>5. ASSUME p \in Quiet, NEW u \in Users', u.pool = p PROVE FALSE
  <2>1. \/ \E id \in DOMAIN pooled' : u = pooled'[id]
        \/ \E t \in Threads : Holding(t)' /\ u = call'[t].co
        \/ \E t \in Threads : call'[t].at = "GetWait" /\ u = call'[t]
    BY Zenon, LiveAreNext, UsersAreNext
  <2>2. CASE \E id \in DOMAIN pooled' : u = pooled'[id]
    BY Zenon, <1>3, <1>5, <2>2 DEF CheckedOut
  <2>3. CASE ~\E id \in DOMAIN pooled' : u = pooled'[id]
    BY Zenon, <1>1, <1>4, <1>5, <2>1, <2>3 DEF InUse
  <2> QED
    BY <2>2, <2>3
<1>6. PoolsStay
  BY Zenon, <1>1, <1>2, <1>5 DEF PoolsStay
<1> QED
  BY Zenon, <1>1, <1>6, Dropped, OnlyMoved
-----------------------------------------------------------------------------
LEMMA InitSizes == Init => SizeInv
<1> SUFFICES ASSUME Init PROVE SizeInv
  OBVIOUS
<1>1. /\ DOMAIN pools = {} /\ DOMAIN pooled = {} /\ insts = <<>> /\ nextPoolId = 1
      /\ \A t \in Threads : call[t].at = "Idle"
  BY DEF Init, IdleCall
<1>2. Users = {}
  <2>1. \A t \in Threads : call[t].at # "GetWait" /\ ~Holding(t)
    BY <1>1 DEF Holding
  <2> QED
    BY Zenon, <1>1, <2>1, LiveAre, UsersAre
<1> QED
  BY <1>1, <1>2 DEF SizeInv, PoolInv, UserInv, RoomInv

LEMMA NextSizes == IInv /\ SizeInv /\ [Next]_vars => SizeInv'
<1> SUFFICES ASSUME IInv, SizeInv, [Next]_vars PROVE SizeInv'
  OBVIOUS
<1>1. CASE UNCHANGED vars
  <2>1. UNCHANGED <<pools, nextPoolId, insts, pooled, call>>
    BY <1>1 DEF vars
  <2> QED
    BY Zenon, <2>1, SamePools, InTable, OnlyMoved
<1>2. CASE \E t \in Threads, p \in PoolIds : GetStart(t, p) \/ HealthStart(t, p)
  BY Zenon, <1>2, WaitForSizes DEF GetStart, HealthStart
<1>3. CASE \E p \in PoolIds, size \in Sizes, ok \in BOOLEAN : SetSize(p, size, ok)
  BY Zenon, <1>3, SetSizeSizes
<1> QED
  BY Zenon, <1>1, <1>2, <1>3, CreateSizes, AcquireSizes, CallSizes, TableSizes, CloseSizes DEF Next

\* A quiet pool, one that is closed and resized only while nobody uses it, has
\* never more connections out than its size, whichever call holds them; while no
\* call is in it, what odbc_pool_get_state reports as idle is what r2d2 has to
\* give; and the table has nothing of it once it is closed.
THEOREM WithinSize == Spec => []CheckoutsWithinSize
<1>1. IInv /\ SizeInv => CheckoutsWithinSize
  <2> SUFFICES ASSUME IInv, SizeInv PROVE CheckoutsWithinSize
    OBVIOUS
  <2>1. \A id \in DOMAIN pooled : pooled[id].pool \in Quiet => pooled[id].pool \in DOMAIN pools
    BY Zenon, InTable, UsersAre DEF SizeInv, UserInv
  <2>2. ASSUME NEW p \in DOMAIN pools \cap Quiet
        PROVE  /\ Cardinality({co \in LiveCheckouts : co.pool = p}) <= pools[p].size
               /\ ~InUse(p) =>
                     Cardinality({co \in LiveCheckouts : co.inst = pools[p].inst}) + PoolIdle(p)
                       = insts[pools[p].inst]
    <3> DEFINE i == pools[p].inst
               S == OutOf(i)
    <3>1. i \in 1 .. Len(insts) /\ pools[p].size = insts[i] /\ insts[i] \in Nat
      BY DEF SizeInv, PoolInv
    <3>2. {co \in LiveCheckouts : co.pool = p} = S
      <4>1. \A co \in LiveCheckouts : co.pool = p <=> co.inst = i
        BY Zenon, UsersAre DEF SizeInv, UserInv
      <4> QED
        BY Zenon, <4>1 DEF OutOf
    <3>3. IsFiniteSet(S) /\ Cardinality(S) <= insts[i]
      BY Zenon, <3>1 DEF SizeInv, RoomInv
    <3>4. Cardinality(S) \in Nat
      BY Zenon, <3>3, FS_CardinalityType
    <3>5. ~InUse(p) => Cardinality(CheckedOut(p)) = Cardinality(S)
      <4> SUFFICES ASSUME ~InUse(p) PROVE Cardinality(CheckedOut(p)) = Cardinality(S)
        OBVIOUS
      <4> DEFINE C == CheckedOut(p)
                 f == [id \in C |-> pooled[id]]
      <4>1. \A id \in C : id \in DOMAIN pooled /\ pooled[id] \in S
        BY Zenon, <3>2, InTable DEF CheckedOut
      <4>2. \A co \in S : \E id \in C : co = pooled[id]
        <5> SUFFICES ASSUME NEW co \in S PROVE \E id \in C : co = pooled[id]
          OBVIOUS
        <5>1. co \in LiveCheckouts /\ co.pool = p
          BY Zenon, <3>2
        <5>2. co \in Users
          BY Zenon, <5>1, UsersAre
        <5> QED
          BY Zenon, <5>1, <5>2, IdleUsers
      <4>3. \A j, k \in C : pooled[j] = pooled[k] => j = k
        BY Zenon, <4>1 DEF IInv, CheckoutInv
      <4> HIDE DEF C, S
      <4>4. f \in Injection(C, S) /\ f \in Surjection(C, S)
        BY <4>1, <4>2, <4>3 DEF Injection, Surjection, IsInjective
      <4> QED
        BY Zenon, <3>3, <4>4, FS_Injection DEF C
    <3> HIDE DEF i, S
    <3>6. ~InUse(p) => Cardinality(S) + PoolIdle(p) = insts[i]
      BY <3>1, <3>3, <3>4, <3>5 DEF PoolIdle
    <3> QED
      BY Zenon, <3>1, <3>2, <3>3, <3>6 DEF S, OutOf, i
  <2> QED
    BY Zenon, <2>1, <2>2 DEF CheckoutsWithinSize
<1>2. Spec => []SizeInv
  <2>1. IInv /\ SizeInv /\ [Next]_vars => SizeInv'
    BY NextSizes
  <2> QED
    BY <2>1, InitSizes, Invariance, PTL DEF Spec
<1> QED
  BY <1>1, <1>2, Invariance, PTL
=============================================================================
