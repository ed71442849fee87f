---------------------------- MODULE RequestTable ----------------------------
(***************************************************************************)
(* What the odbc_*_async entry points promise: a table of queries, each    *)
(* with an outcome that can be polled, taken, cancelled and freed.         *)
(* AsyncRequests, with its slots, tasks, flags and id allocation, is shown *)
(* to implement it; AsyncClient uses it.                                   *)
(***************************************************************************)
EXTENDS Integers, FiniteSets, Functions

CONSTANTS
    Ids,            \* request ids
    Tickets         \* one for every start

VARIABLES
    table,          \* request id -> [ticket, outcome, live: its query may still end]
    used            \* tickets of the starts so far

native == <<table, used>>

TInit ==
    /\ table = [i \in {} |-> {}]
    /\ used = {}

\* odbc_execute_async gives an id that is not in use.
Start(i, k) ==
    /\ i \in Ids \ DOMAIN table
    /\ k \notin used
    /\ used' = used \cup {k}
    /\ table' = [j \in DOMAIN table \cup {i} |->
                    IF j = i THEN [ticket |-> k, outcome |-> "Pending", live |-> TRUE]
                             ELSE table[j]]

\* The query ends, once, and replaces the outcome of a cancel that did not stop
\* it in time.
Finish(i) ==
    /\ table[i].live
    /\ UNCHANGED used
    /\ \E o \in {"ReadyOk", "ReadyErr", "Cancelled"} :
          table' = [table EXCEPT ![i].outcome = o, ![i].live = FALSE]

\* odbc_async_cancel: a query that will not end is no longer pending.
Cancel(i) ==
    /\ \E live \in {FALSE, table[i].live} :
          table' = [table EXCEPT ![i].outcome = IF @ = "Pending" THEN "Cancelled" ELSE @,
                                 ![i].live = live]
    /\ UNCHANGED used

\* odbc_async_get_result takes whatever is not pending.
Take(i) ==
    /\ table[i].outcome # "Pending"
    /\ UNCHANGED used
    /\ table' = [table EXCEPT ![i].outcome = "Consumed"]

\* odbc_async_free of one request, odbc_disconnect of a connection's.
Drop(ids) ==
    /\ UNCHANGED used
    /\ table' = Restrict(table, DOMAIN table \ ids)

TNext ==
    \/ \E ids \in SUBSET DOMAIN table : Drop(ids)
    \/ \E i \in Ids \ DOMAIN table, k \in Tickets \ used : Start(i, k)
    \/ \E i \in DOMAIN table : Finish(i) \/ Cancel(i) \/ Take(i)

TSpec == TInit /\ [][TNext]_native
=============================================================================
