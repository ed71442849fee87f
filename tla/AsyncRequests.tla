--------------------------- MODULE AsyncRequests ---------------------------
(***************************************************************************)
(* The table of non-blocking queries of the FFI layer                      *)
(* (AsyncRequestManager and the odbc_*_async entry points).                *)
(*                                                                         *)
(* Every entry point runs under the global state mutex, so the calls of    *)
(* different threads are atomic towards each other.  The worker task of a  *)
(* request does not take that mutex: it shares with the callers only the   *)
(* slot (an atomic flag and an outcome behind a mutex of its own), and its *)
(* steps interleave with the two halves of odbc_async_cancel.              *)
(*                                                                         *)
(* A slot outlives its table entry: the worker keeps an Arc to it after    *)
(* odbc_async_free.  Slots are therefore named by tickets, one for every   *)
(* start, and the table maps request ids to tickets.                       *)
(***************************************************************************)
EXTENDS Integers, FiniteSets, Functions

CONSTANTS
    Conns,          \* connection ids
    MaxRequests,    \* MAX_ASYNC_REQUESTS
    MaxAttempts,    \* MAX_ID_ALLOC_ATTEMPTS
    IdModulus,      \* 2^32 in the code: request ids are a wrapping u32
    Tickets,        \* bound: the slots that may ever be created
    None            \* neither a connection nor a ticket

ASSUME MaxRequestsAssumption == MaxRequests \in Nat \ {0}
ASSUME MaxAttemptsAssumption == MaxAttempts \in Nat \ {0}
ASSUME IdModulusAssumption == IdModulus \in Nat \ {0}
ASSUME NoneAssumption == None \notin Tickets \cup Conns

VARIABLES
    connState,      \* connection id -> "New", "Open" or "Closed"
    nextRequestId,  \* next_request_id
    requests,       \* the table: request id -> ticket
    slot,           \* ticket -> AsyncRequestSlot together with its task
    cancelling,     \* ticket whose cancel has set the flag, not the outcome
    delivered       \* ticket -> how many times data reached a caller

vars == <<connState, nextRequestId, requests, slot, cancelling, delivered>>

Ids == 0 .. IdModulus - 1

\* AsyncRequestOutcome, with Ready(Ok(_)) and Ready(Err(_)) told apart
Outcomes == {"Pending", "ReadyOk", "ReadyErr", "Cancelled", "Consumed"}

\* The blocking task: not spawned yet, waiting for a thread, executing the
\* query, past the load of the cancelled flag, over, aborted before it began
TaskStates == {"Unborn", "Queued", "Running", "Loaded", "Finished", "Aborted"}

Slots == [conn : Conns \cup {None}, cancelled : BOOLEAN, outcome : Outcomes,
          task : TaskStates, seen : BOOLEAN, result : {"ReadyOk", "ReadyErr"}]

TypeOK ==
    /\ connState \in [Conns -> {"New", "Open", "Closed"}]
    /\ nextRequestId \in Ids
    /\ DOMAIN requests \subseteq Ids
    /\ requests \in [DOMAIN requests -> Tickets]
    /\ slot \in [Tickets -> Slots]
    /\ cancelling \in Tickets \cup {None}
    /\ delivered \in [Tickets -> Nat]

Init ==
    /\ connState = [c \in Conns |-> "New"]
    /\ nextRequestId = 1 % IdModulus
    /\ requests = [i \in {} |-> None]
    /\ slot = [k \in Tickets |->
                  [conn |-> None, cancelled |-> FALSE, outcome |-> "Pending",
                   task |-> "Unborn", seen |-> FALSE, result |-> "ReadyErr"]]
    /\ cancelling = None
    /\ delivered = [k \in Tickets |-> 0]
-----------------------------------------------------------------------------
(* Connections: as far as the requests are concerned.                      *)

\* The mutex of the global state is free: no cancel is half way through.
GlobalLockFree == cancelling = None

Connect(c) ==
    /\ GlobalLockFree
    /\ connState[c] = "New"
    /\ connState' = [connState EXCEPT ![c] = "Open"]
    /\ UNCHANGED <<nextRequestId, requests, slot, cancelling, delivered>>

\* free: the entry goes, a task that has not begun is aborted; a task that
\* runs keeps its slot and finishes into it.
AbortQueued(s) == IF s.task = "Queued" THEN [s EXCEPT !.task = "Aborted"] ELSE s

FreeAll(ids) ==
    /\ requests' = Restrict(requests, DOMAIN requests \ ids)
    /\ slot' = [k \in Tickets |-> IF \E i \in ids : requests[i] = k
                                  THEN AbortQueued(slot[k]) ELSE slot[k]]

\* Mutant: the connection goes, its requests stay in the table.
DisconnectKeepsRequests(c) ==
    /\ GlobalLockFree
    /\ connState[c] = "Open"
    /\ connState' = [connState EXCEPT ![c] = "Closed"]
    /\ UNCHANGED <<nextRequestId, requests, slot, cancelling, delivered>>

\* odbc_disconnect frees the requests of the connection with it.
Disconnect(c) ==
    /\ GlobalLockFree
    /\ connState[c] = "Open"
    /\ connState' = [connState EXCEPT ![c] = "Closed"]
    /\ FreeAll({i \in DOMAIN requests : slot[requests[i]].conn = c})
    /\ UNCHANGED <<nextRequestId, cancelling, delivered>>
-----------------------------------------------------------------------------
(* The entry points.                                                       *)

\* Mutant: the wrapped counter is not compared with the table.
IdUsableNoLookup(i) == i # 0

IdUsable(i) == i # 0 /\ i \notin DOMAIN requests

\* wrapping_add(1)
Succ(i) == (i + 1) % IdModulus

\* Mutant: the search stops at the end of the id space.
SkipsWithoutWrap(n) ==
    /\ nextRequestId + n < IdModulus
    /\ IdUsable(nextRequestId + n)
    /\ \A m \in 0 .. n - 1 : ~IdUsable(nextRequestId + m)

\* allocate_request_id skips n ids and takes the next one.
Skips(n) ==
    /\ IdUsable((nextRequestId + n) % IdModulus)
    /\ \A m \in 0 .. n - 1 : ~IdUsable((nextRequestId + m) % IdModulus)

BelowCap == Cardinality(DOMAIN requests) < MaxRequests

\* odbc_execute_async: a slot, its task and its table entry.
ExecuteAsync(c, k) ==
    /\ GlobalLockFree
    /\ connState[c] = "Open"
    /\ slot[k].task = "Unborn"
    /\ BelowCap
    /\ \E n \in 0 .. MaxAttempts - 1 :
          LET id == (nextRequestId + n) % IdModulus IN
          /\ Skips(n)
          /\ nextRequestId' = Succ(id)
          /\ requests' = [i \in DOMAIN requests \cup {id} |->
                              IF i = id THEN k ELSE requests[i]]
    /\ slot' = [slot EXCEPT ![k].conn = c, ![k].task = "Queued"]
    /\ UNCHANGED <<connState, cancelling, delivered>>

\* odbc_async_cancel, first half: the flag.
CancelFlag(i) ==
    /\ GlobalLockFree
    /\ slot' = [slot EXCEPT ![requests[i]].cancelled = TRUE]
    /\ cancelling' = requests[i]
    /\ UNCHANGED <<connState, nextRequestId, requests, delivered>>

\* Mutant: the abort alone; a task that never began leaves Pending behind.
CancelOnlyAborts ==
    /\ cancelling # None
    /\ slot' = [slot EXCEPT ![cancelling] = AbortQueued(@)]
    /\ cancelling' = None
    /\ UNCHANGED <<connState, nextRequestId, requests, delivered>>

\* Second half: abort (no effect on a task that runs), then the outcome.
CancelOutcome ==
    LET s == AbortQueued(slot[cancelling]) IN
    /\ cancelling # None
    /\ slot' = [slot EXCEPT ![cancelling] =
                   IF s.outcome = "Pending" THEN [s EXCEPT !.outcome = "Cancelled"]
                                            ELSE s]
    /\ cancelling' = None
    /\ UNCHANGED <<connState, nextRequestId, requests, delivered>>

\* Mutant: the outcome is read and left in place.
GetResultByCopy(i, fits) ==
    LET k == requests[i] IN
    /\ GlobalLockFree
    /\ slot[k].outcome # "Pending"
    /\ delivered' = [delivered EXCEPT ![k] =
                        IF slot[k].outcome = "ReadyOk" /\ fits THEN @ + 1 ELSE @]
    /\ UNCHANGED <<connState, nextRequestId, requests, slot, cancelling>>

\* odbc_async_get_result: take_result consumes whatever is not Pending; data
\* that does not fit the caller's buffer is put back by restore_result.
GetResult(i, fits) ==
    LET k == requests[i]
        o == slot[k].outcome
    IN  /\ GlobalLockFree
        /\ o # "Pending"
        /\ slot' = [slot EXCEPT ![k].outcome =
                        IF o = "ReadyOk" /\ ~fits THEN @ ELSE "Consumed"]
        /\ delivered' = [delivered EXCEPT ![k] =
                            IF o = "ReadyOk" /\ fits THEN @ + 1 ELSE @]
        /\ UNCHANGED <<connState, nextRequestId, requests, cancelling>>

\* odbc_async_free
Free(i) ==
    /\ GlobalLockFree
    /\ FreeAll({i})
    /\ UNCHANGED <<connState, nextRequestId, cancelling, delivered>>
-----------------------------------------------------------------------------
(* The worker task.                                                        *)

\* run_async_query looks the connection up; if it is still there the query
\* succeeds or fails, otherwise the request fails.
TaskBegin(k) ==
    /\ slot[k].task = "Queued"
    /\ \E r \in {"ReadyOk", "ReadyErr"} :
          /\ r = "ReadyOk" => connState[slot[k].conn] = "Open"
          /\ slot' = [slot EXCEPT ![k].task = "Running", ![k].result = r]
    /\ UNCHANGED <<connState, nextRequestId, requests, cancelling, delivered>>

\* The query is over; the flag is read once.
TaskLoad(k) ==
    /\ slot[k].task = "Running"
    /\ slot' = [slot EXCEPT ![k].task = "Loaded", ![k].seen = slot[k].cancelled]
    /\ UNCHANGED <<connState, nextRequestId, requests, cancelling, delivered>>

\* Mutant: the flag that was read is not looked at.
TaskStoreIgnoringFlag(k) ==
    /\ slot[k].task = "Loaded"
    /\ slot' = [slot EXCEPT ![k].task = "Finished", ![k].outcome = slot[k].result]
    /\ UNCHANGED <<connState, nextRequestId, requests, cancelling, delivered>>

\* The outcome is overwritten whatever it is by now.
TaskStore(k) ==
    /\ slot[k].task = "Loaded"
    /\ slot' = [slot EXCEPT ![k].task = "Finished",
                            ![k].outcome = IF slot[k].seen THEN "Cancelled"
                                           ELSE slot[k].result]
    /\ UNCHANGED <<connState, nextRequestId, requests, cancelling, delivered>>

Task(k) == TaskBegin(k) \/ TaskLoad(k) \/ TaskStore(k)

Next ==
    \/ \E c \in Conns : Connect(c) \/ Disconnect(c)
    \/ \E c \in Conns, k \in Tickets : ExecuteAsync(c, k)
    \/ \E i \in DOMAIN requests : CancelFlag(i) \/ Free(i)
    \/ \E i \in DOMAIN requests, fits \in BOOLEAN : GetResult(i, fits)
    \/ CancelOutcome
    \/ \E k \in Tickets : Task(k)

Spec == Init /\ [][Next]_vars
-----------------------------------------------------------------------------
(* Properties.                                                             *)

\* The data of a request reaches a caller at most once, however often
\* odbc_async_get_result is called, with buffers too small or not
\* (take_result and restore_result).
DeliveredAtMostOnce == \A k \in Tickets : delivered[k] <= 1

\* A cancel whose flag the task sees is final: the request never has data to
\* give, although the task stores its outcome after the caller stored its own.
HonouredCancelGivesNoData ==
    \A k \in Tickets : slot[k].seen =>
        /\ slot[k].outcome \notin {"ReadyOk", "ReadyErr"}
        /\ delivered[k] = 0

\* odbc_disconnect leaves no request behind: whatever the table lists belongs
\* to a connection that is still there.
RequestsHaveConnections ==
    \A i \in DOMAIN requests : connState[slot[requests[i]].conn] = "Open"

\* Below the cap allocate_request_id finds an id within its attempts, also
\* when the 32-bit counter wraps into ids that are still in use.
IdAvailableBelowCap ==
    BelowCap => \E n \in 0 .. MaxAttempts - 1 : Skips(n)

\* A live request is never replaced: while its id stays in the table it
\* stays the name of the same slot, counter wrap included.
IdsNeverHijacked ==
    [][\A i \in DOMAIN requests : i \in DOMAIN requests' =>
            requests'[i] = requests[i]]_vars

\* A table entry as callers see it: what a poll tells, and whether the task
\* may still change it.
Entry(k) == [ticket |-> k, outcome |-> slot[k].outcome,
             live |-> slot[k].task \notin {"Finished", "Aborted"}]

Abstract == INSTANCE RequestTable WITH
    Ids <- 1 .. IdModulus - 1,
    table <- [i \in DOMAIN requests |-> Entry(requests[i])],
    used <- {k \in Tickets : slot[k].task # "Unborn"}

\* Slots, tasks, flags and ids behave as one table of queries, each of which
\* ends once: a request whose task will not run is not left pending (cancel
\* stores the outcome itself), nothing but the end of the query gives a request
\* its data, and nobody's request changes when another's is started or freed.
ImplementsTable == Abstract!TSpec
=============================================================================
