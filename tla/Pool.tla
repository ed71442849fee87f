-------------------------------- MODULE Pool --------------------------------
(***************************************************************************)
(* Connection pools: the tables pools, pooled_connections and              *)
(* pooled_free_ids of the FFI layer over r2d2 pools.                       *)
(*                                                                         *)
(* odbc_pool_get_connection leaves the global mutex while r2d2 looks for a *)
(* connection, and odbc_exec_query takes a pooled connection out of the    *)
(* table for as long as its statement runs, so both are several steps.     *)
(* The other calls hold the global mutex throughout.  Calls that fail      *)
(* write the error message and nothing else, and have no action.           *)
(*                                                                         *)
(* A checkout is numbered, so that an id that is given out again can be    *)
(* told from its earlier use; an r2d2 pool is numbered likewise.  Of the   *)
(* session behind a checkout the model keeps the transaction its           *)
(* statements left open.  A session that has died is not kept: r2d2 opens  *)
(* another in its place.                                                   *)
(***************************************************************************)
EXTENDS Integers, Sequences, FiniteSets, Functions

CONSTANTS
    Threads,        \* callers of the FFI
    Sizes,          \* the max_size values asked for
    PooledBase,     \* first pooled connection id: 1_000_000 in the code
    MaxPools,       \* bound: calls of odbc_pool_create
    MaxInsts,       \* bound: r2d2 pools built
    MaxCheckouts,   \* bound: checkouts made
    Quiet           \* the pools that are closed and resized only while nobody uses them

ASSUME SizesAssumption == Sizes \subseteq Nat \ {0}
ASSUME BoundsAssumption ==
    PooledBase \in Nat \ {0} /\ MaxPools \in Nat
    /\ MaxInsts \in Nat /\ MaxCheckouts \in Nat
ASSUME QuietAssumption == Quiet \subseteq 1 .. MaxPools

VARIABLES
    pools,          \* pool id -> its r2d2 pool
    nextPoolId,     \* next_pool_id
    insts,          \* the size of every r2d2 pool built so far
    pooled,         \* pooled_connections: id -> its checkout
    freeIds,        \* pooled_free_ids: pool id -> stack of ids
    nextPooledId,   \* next_pooled_conn_id
    statements,     \* prepared statements on pooled connections
    call,           \* thread -> the call it is in
    checkouts,      \* number of checkouts so far
    txn,            \* checkout -> the checkout whose transaction its session is in, or 0
    leftOpen,       \* idle sessions that are in a transaction of an earlier checkout
    refused         \* history: checkouts whose transaction the driver refused to roll back

vars == <<pools, nextPoolId, insts, pooled, freeIds,
          nextPooledId, statements, call, checkouts, txn, leftOpen, refused>>
sessionVars == <<txn, leftOpen, refused>>

PoolIds == 1 .. MaxPools
PooledIds == PooledBase .. PooledBase + MaxCheckouts
Checkouts == [pool : PoolIds, inst : 1 .. MaxInsts, no : 1 .. MaxCheckouts]
PoolRecords == [inst : 1 .. MaxInsts, size : Sizes]

IdleCall == [at |-> "Idle"]
GetCalls == [at : {"GetWait"}, pool : PoolIds, inst : 1 .. MaxInsts,
             then : {"GetInstall", "Health"}]
HoldCalls == [at : {"GetInstall", "Health"}, co : Checkouts] \cup
             [at : {"Exec"}, co : Checkouts, id : PooledIds]

TypeOK ==
    /\ DOMAIN pools \subseteq PoolIds /\ pools \in [DOMAIN pools -> PoolRecords]
    /\ nextPoolId \in 1 .. MaxPools + 1
    /\ insts \in Seq(Sizes)
    /\ DOMAIN pooled \subseteq PooledIds /\ pooled \in [DOMAIN pooled -> Checkouts]
    /\ DOMAIN freeIds \subseteq PoolIds /\ freeIds \in [DOMAIN freeIds -> Seq(PooledIds)]
    /\ nextPooledId \in PooledIds
    /\ statements \subseteq [id : PooledIds, no : 1 .. MaxCheckouts]
    /\ call \in [Threads -> {IdleCall} \cup GetCalls \cup HoldCalls]
    /\ checkouts \in 0 .. MaxCheckouts
    /\ txn \in [1 .. MaxCheckouts -> 0 .. MaxCheckouts]
    /\ leftOpen \subseteq [inst : 1 .. MaxInsts, of : 1 .. MaxCheckouts]
    /\ refused \subseteq 1 .. MaxCheckouts

Init ==
    /\ pools = <<>> /\ nextPoolId = 1 /\ insts = <<>>
    /\ pooled = <<>> /\ freeIds = <<>> /\ nextPooledId = PooledBase
    /\ statements = {}
    /\ call = [t \in Threads |-> IdleCall]
    /\ checkouts = 0
    /\ txn = [n \in 1 .. MaxCheckouts |-> 0] /\ leftOpen = {} /\ refused = {}
-----------------------------------------------------------------------------
\* f with x mapped to v.
Put(f, x, v) == [y \in DOMAIN f \cup {x} |-> IF y = x THEN v ELSE f[y]]

Drop(f, xs) == Restrict(f, DOMAIN f \ xs)

\* Vec::pop: the last element, and what it leaves.
Top(s) == s[Len(s)]
Popped(s) == SubSeq(s, 1, Len(s) - 1)

Holding(t) == call[t].at \in {"GetInstall", "Health", "Exec"}

\* The checkouts that exist: those of the table and those a call is holding.
LiveCheckouts == Range(pooled) \cup {call[t].co : t \in {u \in Threads : Holding(u)}}

InUse(p) ==
    \E t \in Threads : \/ call[t].at = "GetWait" /\ call[t].pool = p
                       \/ Holding(t) /\ call[t].co.pool = p

CheckedOut(p) == {id \in DOMAIN pooled : pooled[id].pool = p}
-----------------------------------------------------------------------------
(* odbc_pool_create, odbc_pool_get_connection.                             *)

\* ConnectionPool::new_with_options: a new r2d2 pool behind pool id p.
new_with_options(p, size) ==
    /\ Len(insts) < MaxInsts
    /\ insts' = Append(insts, size)
    /\ pools' = Put(pools, p, [inst |-> Len(insts) + 1, size |-> size])

PoolCreate(size) ==
    /\ nextPoolId <= MaxPools
    /\ new_with_options(nextPoolId, size)
    /\ nextPoolId' = nextPoolId + 1
    /\ UNCHANGED <<pooled, freeIds, nextPooledId,
                   statements, call, checkouts, sessionVars>>

\* The Arc of the pool is cloned and the global mutex released.
WaitFor(t, p, then) ==
    /\ call[t] = IdleCall
    /\ p \in DOMAIN pools
    /\ call' = [call EXCEPT ![t] = [at |-> "GetWait", pool |-> p, inst |-> pools[p].inst,
                                   then |-> then]]
    /\ UNCHANGED <<pools, nextPoolId, insts, pooled,
                   freeIds, nextPooledId, statements, checkouts, sessionVars>>

GetStart(t, p) == WaitFor(t, p, "GetInstall")

\* odbc_pool_health_check takes a connection too.
HealthStart(t, p) == WaitFor(t, p, "Health")

\* r2d2 gives out at most its size; otherwise it waits.
HasRoom(i) == Cardinality({co \in LiveCheckouts : co.inst = i}) < insts[i]

\* connect, then on_acquire: rollback and autocommit on.
Fresh(i) == [inst |-> i, of |-> 0]

\* Autocommit is turned on and the health query run, which end no transaction.
is_valid(s) == s

\* A new session, one that was left in no transaction, or one that was.
Available(i) == {Fresh(i)} \cup {is_valid(s) : s \in {l \in leftOpen : l.inst = i}}

\* r2d2::Pool::get returns a connection, or times out.
GetAcquire(t) ==
    /\ call[t].at = "GetWait"
    /\ \/ /\ HasRoom(call[t].inst) /\ checkouts < MaxCheckouts
          /\ checkouts' = checkouts + 1
          /\ call' = [call EXCEPT ![t] =
                [at |-> call[t].then, co |-> [pool |-> call[t].pool,
                                              inst |-> call[t].inst, no |-> checkouts + 1]]]
          /\ \E s \in Available(call[t].inst) :
                /\ txn' = [txn EXCEPT ![checkouts + 1] = s.of]
                /\ leftOpen' = leftOpen \ {s}
          /\ UNCHANGED refused
       \/ /\ call' = [call EXCEPT ![t] = IdleCall]
          /\ UNCHANGED <<checkouts, sessionVars>>
    /\ UNCHANGED <<pools, nextPoolId, insts, pooled,
                   freeIds, nextPooledId, statements>>

FreeOf(p) == IF p \in DOMAIN freeIds THEN freeIds[p] ELSE <<>>

\* Mutant: the id is left on the stack it was taken from.
GetInstallKeepsId(t) ==
    /\ call[t].at = "GetInstall"
    /\ LET p == call[t].co.pool IN
       IF FreeOf(p) # <<>>
       THEN /\ pooled' = Put(pooled, Top(FreeOf(p)), call[t].co)
            /\ UNCHANGED <<freeIds, nextPooledId>>
       ELSE /\ pooled' = Put(pooled, nextPooledId, call[t].co)
            /\ nextPooledId' = nextPooledId + 1
            /\ UNCHANGED freeIds
    /\ call' = [call EXCEPT ![t] = IdleCall]
    /\ UNCHANGED <<pools, nextPoolId, insts, statements,
                   checkouts, sessionVars>>

\* Under the global mutex again: an id of the pool's stack, or a fresh one, and
\* the table entry.  Nothing looks whether the pool is still there.
GetInstall(t) ==
    /\ call[t].at = "GetInstall"
    /\ LET p == call[t].co.pool IN
       IF FreeOf(p) # <<>>
       THEN /\ pooled' = Put(pooled, Top(FreeOf(p)), call[t].co)
            /\ freeIds' = Put(freeIds, p, Popped(FreeOf(p)))
            /\ UNCHANGED nextPooledId
       ELSE /\ pooled' = Put(pooled, nextPooledId, call[t].co)
            /\ nextPooledId' = nextPooledId + 1
            /\ UNCHANGED freeIds
    /\ call' = [call EXCEPT ![t] = IdleCall]
    /\ UNCHANGED <<pools, nextPoolId, insts, statements,
                   checkouts, sessionVars>>

\* The session of a checkout, in the transaction of owner.
Session(co, owner) == [no |-> co.no, inst |-> co.inst, of |-> owner]

\* Sessions given back to r2d2: has_broken keeps those that answer, in the
\* transaction they are in, and discards the others.
GiveBack(sessions) ==
    /\ \E alive \in SUBSET {s \in sessions : s.of # 0} :
          leftOpen' = leftOpen \cup {is_valid([inst |-> s.inst, of |-> s.of]) : s \in alive}
    /\ txn' = [n \in 1 .. MaxCheckouts |->
                  IF \E s \in sessions : s.no = n THEN 0 ELSE txn[n]]

\* health_check drops its connection as it is.
HealthEnd(t) ==
    /\ call[t].at = "Health"
    /\ GiveBack({Session(call[t].co, txn[call[t].co.no])})
    /\ call' = [call EXCEPT ![t] = IdleCall]
    /\ UNCHANGED <<pools, nextPoolId, insts, pooled, freeIds,
                   nextPooledId, statements, checkouts, refused>>
-----------------------------------------------------------------------------
(* Use and release of a checkout.                                          *)

\* odbc_prepare.
Prepare(id) ==
    /\ id \in DOMAIN pooled
    /\ statements' = statements \cup {[id |-> id, no |-> pooled[id].no]}
    /\ UNCHANGED <<pools, nextPoolId, insts, pooled,
                   freeIds, nextPooledId, call, checkouts, sessionVars>>

\* odbc_exec_query takes the entry out of the table ...
ExecTake(t, id) ==
    /\ call[t] = IdleCall
    /\ id \in DOMAIN pooled
    /\ call' = [call EXCEPT ![t] = [at |-> "Exec", co |-> pooled[id], id |-> id]]
    /\ pooled' = Drop(pooled, {id})
    /\ UNCHANGED <<pools, nextPoolId, insts, freeIds,
                   nextPooledId, statements, checkouts, sessionVars>>

\* A statement may open a transaction or end the one that is open.
TransactionAfter(n) == {0, IF txn[n] = 0 THEN n ELSE txn[n]}

\* ... and puts it back when the statement has run.
ExecReturn(t) ==
    /\ call[t].at = "Exec"
    /\ \E o \in TransactionAfter(call[t].co.no) :
          txn' = [txn EXCEPT ![call[t].co.no] = o]
    /\ pooled' = Put(pooled, call[t].id, call[t].co)
    /\ call' = [call EXCEPT ![t] = IdleCall]
    /\ UNCHANGED <<pools, nextPoolId, insts, freeIds,
                   nextPooledId, statements, checkouts, leftOpen, refused>>

\* Mutant: the connection goes back without a rollback.
NotRolledBack(co, answers) == txn[co.no]

\* rollback, before a connection goes back: the transaction its session is in
\* afterwards.  The answer is ignored.
RolledBack(co, answers) == IF answers[co] THEN 0 ELSE txn[co.no]

\* The sessions of the checkouts cos are rolled back, autocommit is turned on,
\* and they go back, whatever the driver answers.
EndCheckouts(cos) ==
    \E answers \in [cos -> BOOLEAN] :
        /\ refused' = refused \cup {txn[co.no] : co \in {d \in cos : txn[d.no] # 0 /\ ~answers[d]}}
        /\ GiveBack({Session(co, RolledBack(co, answers)) : co \in cos})

\* Mutant: the statements of the connection outlive its checkout.
StatementsOffNone(ids) == statements

StatementsOff(ids) == {s \in statements : s.id \notin ids}

\* odbc_pool_release_connection.
Release(id) ==
    /\ id \in DOMAIN pooled
    /\ pooled' = Drop(pooled, {id})
    /\ statements' = StatementsOff({id})
    /\ freeIds' = Put(freeIds, pooled[id].pool, Append(FreeOf(pooled[id].pool), id))
    /\ EndCheckouts({pooled[id]})
    /\ UNCHANGED <<pools, nextPoolId, insts, nextPooledId, call, checkouts>>
-----------------------------------------------------------------------------
(* odbc_pool_set_size and odbc_pool_close.                                 *)

\* Mutant: checked-out connections do not prevent a resize.
SetSizeUnchecked(p, size, ok) ==
    /\ p \in DOMAIN pools /\ (p \in Quiet => ~InUse(p))
    /\ IF ok
       THEN new_with_options(p, size)
       ELSE pools' = Drop(pools, {p}) /\ UNCHANGED insts
    /\ UNCHANGED <<nextPoolId, pooled, freeIds,
                   nextPooledId, statements, call, checkouts, sessionVars>>

\* A new r2d2 pool takes the place of the old one; if it cannot be built (ok is
\* FALSE) the pool is gone.
SetSize(p, size, ok) ==
    /\ p \in DOMAIN pools /\ (p \in Quiet => ~InUse(p))
    /\ CheckedOut(p) = {}
    /\ IF ok
       THEN new_with_options(p, size)
       ELSE pools' = Drop(pools, {p}) /\ UNCHANGED insts
    /\ UNCHANGED <<nextPoolId, pooled, freeIds,
                   nextPooledId, statements, call, checkouts, sessionVars>>

\* Mutant: the checked-out connections are forgotten.
CloseKeepsCheckouts(p) ==
    /\ p \in DOMAIN pools /\ (p \in Quiet => ~InUse(p))
    /\ freeIds' = Drop(freeIds, {p})
    /\ pools' = Drop(pools, {p})
    /\ UNCHANGED <<nextPoolId, insts, pooled, nextPooledId,
                   statements, call, checkouts, sessionVars>>

\* First the checked-out connections and their statements, then the stack of
\* ids, then the pool.
Close(p) ==
    /\ p \in DOMAIN pools /\ (p \in Quiet => ~InUse(p))
    /\ pooled' = Drop(pooled, CheckedOut(p))
    /\ statements' = StatementsOff(CheckedOut(p))
    /\ freeIds' = Drop(freeIds, {p})
    /\ pools' = Drop(pools, {p})
    /\ EndCheckouts({pooled[id] : id \in CheckedOut(p)})
    /\ UNCHANGED <<nextPoolId, insts, nextPooledId, call, checkouts>>

Next ==
    \/ \E size \in Sizes : PoolCreate(size)
    \/ \E t \in Threads, p \in PoolIds : GetStart(t, p) \/ HealthStart(t, p)
    \/ \E t \in Threads : GetAcquire(t) \/ GetInstall(t) \/ HealthEnd(t) \/ ExecReturn(t)
    \/ \E id \in PooledIds : Prepare(id) \/ Release(id)
    \/ \E t \in Threads, id \in PooledIds : ExecTake(t, id)
    \/ \E p \in PoolIds, size \in Sizes, ok \in BOOLEAN : SetSize(p, size, ok)
    \/ \E p \in PoolIds : Close(p)

Spec == Init /\ [][Next]_vars
-----------------------------------------------------------------------------
(* Properties.                                                             *)

\* odbc_pool_get_state: idle is the size less the pool's entries of the table.
PoolIdle(p) ==
    LET out == Cardinality(CheckedOut(p)) IN
    IF out < pools[p].size THEN pools[p].size - out ELSE 0

\* A pool never has more connections out than its size, whichever r2d2 pool
\* they came from, if it is resized only while nobody uses it ("All connections
\* must be released before resize").  While no call is in it, r2d2 has exactly
\* the connections to give that odbc_pool_get_state reports as idle.  Nothing of
\* it is left in the table once it is closed.
CheckoutsWithinSize ==
    /\ \A p \in DOMAIN pools \cap Quiet :
          /\ Cardinality({co \in LiveCheckouts : co.pool = p}) <= pools[p].size
          /\ ~InUse(p) =>
                Cardinality({co \in LiveCheckouts : co.inst = pools[p].inst}) + PoolIdle(p)
                  = insts[pools[p].inst]
    /\ \A id \in DOMAIN pooled :
          pooled[id].pool \in Quiet => pooled[id].pool \in DOMAIN pools

\* Nothing of a pool is left in the table once it is gone, whenever it is closed
\* (odbc_pool_close: "no live checkouts remain").  The code does not ensure it.
NoLiveCheckoutsRemain == \A id \in DOMAIN pooled : pooled[id].pool \in DOMAIN pools

IdsHeld == DOMAIN pooled \cup {call[t].id : t \in {u \in Threads : call[u].at = "Exec"}}

\* odbc_pool_get_connection gives an id to one caller at a time: a free id is in
\* use by nobody, also not by a statement that is running, and sits on one stack
\* only, once.  A prepared statement runs on the checkout it was prepared on: it
\* is gone before its connection id is given out again.
IdsServeOneUser ==
    /\ \A p \in DOMAIN freeIds :
          /\ IsInjective(freeIds[p])
          /\ Range(freeIds[p]) \cap (IdsHeld \cup {s.id : s \in statements}) = {}
          /\ \A q \in DOMAIN freeIds \ {p} : Range(freeIds[p]) \cap Range(freeIds[q]) = {}
    /\ \A s \in statements : s.id \in DOMAIN pooled => pooled[s.id].no = s.no

\* What a borrower left unfinished is rolled back before its connection is given
\* out again, whichever way it goes back ("RAII: rolls back any active
\* transaction"): a connection is in a transaction of an earlier checkout only
\* if the driver refused that rollback, an answer that the code ignores.
CleanCheckout == \A n \in 1 .. MaxCheckouts : txn[n] \in {0, n} \cup refused
=============================================================================
