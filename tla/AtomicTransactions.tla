------------------------- MODULE AtomicTransactions -------------------------
(***************************************************************************)
(* What transactions promise: each is open once and ends once, and its     *)
(* work becomes durable all at once or not at all.  Work that was reported *)
(* as committed is durable from the report on, work that was reported as   *)
(* rolled back, or that its connection was closed on, is settled there.    *)
(* A report of failure leaves the transaction in doubt: its work may still *)
(* become durable, whole, when other work of its connection ends.          *)
(***************************************************************************)
CONSTANTS Txns, Writes

VARIABLES
    opened,         \* transactions that are or have been open
    said,           \* transaction -> what its end was reported as
    work,           \* transaction -> its writes
    durable         \* writes that are committed

vars == <<opened, said, work, durable>>

Reports == {"Nothing", "Committed", "RolledBack", "Closed", "Failed"}

Init ==
    /\ opened = {}
    /\ said = [x \in Txns |-> "Nothing"]
    /\ work = [x \in Txns |-> {}]
    /\ durable = {}

Open(x) ==
    /\ x \notin opened
    /\ opened' = opened \cup {x}
    /\ UNCHANGED <<said, work, durable>>

Do(x, w) ==
    /\ x \in opened /\ said[x] = "Nothing"
    /\ work' = [work EXCEPT ![x] = @ \cup {w}]
    /\ UNCHANGED <<opened, said, durable>>

InDoubt == {x \in opened : said[x] = "Failed"}

\* The end of a transaction whose work persists, and of one whose work does not.
\* Transactions in doubt may persist with it.
Persist(x, late) ==
    /\ x \in opened /\ said[x] = "Nothing"
    /\ said' \in {[said EXCEPT ![x] = r] : r \in {"Committed", "Closed", "Failed"}}
    /\ durable' = durable \cup work[x] \cup UNION {work[y] : y \in late}
    /\ UNCHANGED <<opened, work>>

Discard(x) ==
    /\ x \in opened /\ said[x] = "Nothing"
    /\ said' \in {[said EXCEPT ![x] = r] : r \in {"RolledBack", "Closed", "Failed"}}
    /\ UNCHANGED <<opened, work, durable>>

\* Work outside any transaction ends, and transactions in doubt persist with it.
Settle(late) ==
    /\ durable' = durable \cup UNION {work[y] : y \in late}
    /\ UNCHANGED <<opened, said, work>>

Next ==
    \/ \E x \in Txns : Open(x) \/ Discard(x) \/ \E w \in Writes : Do(x, w)
    \/ \E x \in Txns, late \in SUBSET InDoubt : Persist(x, late)
    \/ \E late \in SUBSET InDoubt : Settle(late)

Spec == Init /\ [][Next]_vars
=============================================================================
