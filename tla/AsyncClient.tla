---------------------------- MODULE AsyncClient ----------------------------
(***************************************************************************)
(* Dart's executeAsync over the worker isolate: AsyncNativeOdbcConnection  *)
(* sends a message for every native call, the worker isolate makes the     *)
(* calls one after the other and answers, and the main isolate matches     *)
(* answers with the requests it has pending, which may have timed out.     *)
(* The native side is RequestTable, which AsyncRequests implements; it     *)
(* belongs to the process and outlives a worker.                           *)
(*                                                                         *)
(* A step of the main isolate is what it runs between two awaits.  The     *)
(* counter of message ids never repeats: an id is free again here once no  *)
(* trace of it is left.  A call starts at most one native request, so a    *)
(* ticket also names the call that is to use it.                           *)
(***************************************************************************)
EXTENDS RequestTable, Sequences

CONSTANTS
    Pollers,        \* the calls without a deadline, which others may cancel
    Endless,        \* the calls whose query may go on for ever
    MaxOpen,        \* bound: calls at a time
    MaxRestarts,    \* bound: how often a worker dies or is disposed of
    None,           \* no message, no data
    Error           \* what a request that times out or is given up completes with

ASSUME CallsAssumption == Pollers \cup Endless \subseteq Tickets
ASSUME MaxOpenAssumption == MaxOpen \in Nat \ {0}
ASSUME MaxRestartsAssumption == MaxRestarts \in Nat
ASSUME ValuesAssumption == {None, Error} \cap (Tickets \cup Int) = {} /\ None # Error

VARIABLES
    worker,         \* "off": no _workerSendPort; "up"; "dead": its isolate is gone
    inbox,          \* messages on the way to the worker
    orphans,        \* messages that disposed workers are still handling
    outbox,         \* answers on the way to the main isolate
    pending,        \* _pendingRequests: message id -> the call and the kind of message
    call,           \* call -> where it is
    restarts        \* workers lost so far

client == <<worker, inbox, orphans, outbox, pending, call, restarts>>
cvars == <<native, client>>

Calls == Tickets

CInit ==
    /\ TInit
    /\ worker = "off" /\ restarts = 0
    /\ inbox = <<>> /\ outbox = <<>> /\ orphans = {}
    /\ pending = [r \in {} |-> None]
    /\ call = [c \in Calls |-> [pc |-> "idle", id |-> 0, res |-> None, due |-> FALSE]]
-----------------------------------------------------------------------------
(* The worker isolate.                                                     *)

\* asyncPoll; an unknown request is an error to Dart.
PollStatus(i) ==
    IF i \notin DOMAIN table
    THEN -1
    ELSE CASE table[i].outcome = "Pending" -> 0
           [] table[i].outcome = "ReadyOk" -> 1
           [] table[i].outcome = "Cancelled" -> -2
           [] OTHER -> -1

\* executeAsyncStart: 0 for an unknown connection or a full table.  Ids do not
\* wrap here.
ServeStart(c, answer) ==
    \/ answer = Cardinality(used) + 1 /\ Start(answer, c)
    \/ answer = 0 /\ UNCHANGED native

\* asyncGetResult: data that does not fit the largest buffer of callWithBuffer
\* stays where it is.
ServeGet(i, answer) ==
    IF PollStatus(i) = 1
    THEN \/ answer = table[i].ticket /\ Take(i)
         \/ answer = None /\ UNCHANGED native
    ELSE /\ answer = None
         /\ IF i \in DOMAIN table /\ table[i].outcome # "Pending" THEN Take(i) ELSE UNCHANGED native

ServeCancel(i) == IF i \in DOMAIN table THEN Cancel(i) ELSE UNCHANGED native

ServeFree(i) == IF i \in DOMAIN table THEN Drop({i}) ELSE UNCHANGED native

\* _handleRequest: the native call of message m and what it returns.
Serve(m, answer) ==
    CASE m.kind = "start" -> ServeStart(m.call, answer)
      [] m.kind = "poll" -> answer = PollStatus(m.id) /\ UNCHANGED native
      [] m.kind = "get" -> ServeGet(m.id, answer)
      [] m.kind = "free" -> answer = None /\ ServeFree(m.id)
      [] m.kind \in {"cancel", "other"} -> answer = None /\ ServeCancel(m.id)

Answers == -2 .. Cardinality(Calls) \cup Calls \cup {None}

\* The worker takes the next message, makes the native call and answers.
Respond ==
    /\ worker = "up" /\ inbox # <<>>
    /\ \E answer \in Answers :
          /\ Serve(Head(inbox), answer)
          /\ outbox' = Append(outbox, [req |-> Head(inbox).req, value |-> answer])
    /\ inbox' = Tail(inbox)
    /\ UNCHANGED <<worker, orphans, pending, call, restarts>>

\* A disposed worker finishes the call it is in; nobody hears its answer.
Orphan(m) ==
    /\ \E answer \in Answers : Serve(m, answer)
    /\ orphans' = orphans \ {m}
    /\ UNCHANGED <<worker, inbox, outbox, pending, call, restarts>>
-----------------------------------------------------------------------------
(* The main isolate.                                                       *)

InFlight ==
    DOMAIN pending \cup {inbox[i].req : i \in DOMAIN inbox}
    \cup {outbox[i].req : i \in DOMAIN outbox}

Fresh == CHOOSE n \in 1 .. Cardinality(InFlight) + 1 : n \notin InFlight

\* _sendRequest, with p the requests that are still pending: a message to a dead
\* worker is lost.
SendRequest(p, c, kind, id) ==
    LET m == [req |-> Fresh, call |-> c, kind |-> kind, id |-> id] IN
    /\ pending' = [r \in DOMAIN p \cup {m.req} |->
                      IF r = m.req THEN [call |-> c, kind |-> kind] ELSE p[r]]
    /\ inbox' = IF worker = "up" THEN Append(inbox, m) ELSE inbox

\* What a call does next: its state and the message it sends, if any.
Goes(s, pc, kind) == [s |-> [s EXCEPT !.pc = pc], send |-> kind]
Ends(s, res) == [s |-> [s EXCEPT !.pc = "done", !.res = res], send |-> "none"]

OnStart(s, v) ==
    IF v \in {0, Error}
    THEN Ends(s, IF v = 0 THEN None ELSE Error)
    ELSE Goes([s EXCEPT !.id = v], "polling", "poll")

\* Mutant: an error leaves the loop without the finally block.
OnPollWithoutFinally(s, v) ==
    CASE v = Error -> Ends(s, Error)
      [] v = 1 -> Goes(s, "getting", "get")
      [] v = 0 -> IF s.due THEN Goes(s, "cancelling", "cancel") ELSE Goes(s, "waiting", "none")
      [] OTHER -> Goes(s, "freeing", "free")

\* The loop of executeAsync: ready, pending, or over.
OnPoll(s, v) ==
    CASE v = Error -> Goes([s EXCEPT !.res = Error], "freeing", "free")
      [] v = 1 -> Goes(s, "getting", "get")
      [] v = 0 -> IF s.due THEN Goes(s, "cancelling", "cancel") ELSE Goes(s, "waiting", "none")
      [] OTHER -> Goes(s, "freeing", "free")

OnCancel(s, v) == Goes([s EXCEPT !.res = v], "freeing", "free")

OnGet(s, v) ==
    CASE s.pc = "getting" -> Goes([s EXCEPT !.res = v], "freeing", "free")
      [] s.pc = "freeing" -> Goes([s EXCEPT !.res = v], "freeing", "none")
      [] s.pc = "returning" -> Ends(s, v)
      [] OTHER -> Goes(s, s.pc, "none")

\* The finally block is over; the result that is returned may still be awaited.
OnFree(s, v, getting) ==
    IF v = Error THEN Ends(s, Error)
    ELSE IF getting THEN Goes(s, "returning", "none") ELSE Ends(s, s.res)

Without(r) == Restrict(pending, DOMAIN pending \ {r})

\* Request r completes with v, and the call that awaits it goes on.
Complete(r, v) ==
    LET c == pending[r].call
        kind == pending[r].kind
        s == call[c]
        next == CASE kind = "start" -> OnStart(s, v)
                  [] kind = "poll" -> OnPoll(s, v)
                  [] kind = "cancel" -> OnCancel(s, v)
                  [] kind = "get" -> OnGet(s, v)
                  [] kind = "free" ->
                        OnFree(s, v, \E q \in DOMAIN pending : pending[q] = [call |-> c, kind |-> "get"])
                  [] OTHER -> Goes(s, s.pc, "none")
    IN  /\ call' = [call EXCEPT ![c] = next.s]
        /\ IF next.send = "none"
           THEN pending' = Without(r) /\ UNCHANGED inbox
           ELSE SendRequest(Without(r), c, next.send, next.s.id)

\* Mutant: an answer goes to the request that has waited longest.
HandleResponseInOrder ==
    /\ outbox # <<>>
    /\ outbox' = Tail(outbox)
    /\ IF DOMAIN pending = {}
       THEN UNCHANGED <<call, pending, inbox>>
       ELSE Complete(CHOOSE r \in DOMAIN pending : \A q \in DOMAIN pending : r <= q,
                     Head(outbox).value)
    /\ UNCHANGED <<native, worker, orphans, restarts>>

\* _handleResponse: the answer to a request that is no longer pending is dropped.
HandleResponse ==
    LET a == Head(outbox) IN
    /\ outbox # <<>>
    /\ outbox' = Tail(outbox)
    /\ IF a.req \in DOMAIN pending
       THEN Complete(a.req, a.value)
       ELSE UNCHANGED <<call, pending, inbox>>
    /\ UNCHANGED <<native, worker, orphans, restarts>>

\* Mutant: the request is forgotten and its caller not told.
OnTimeoutSilent(r) ==
    /\ pending' = Without(r)
    /\ UNCHANGED <<native, worker, inbox, orphans, outbox, call, restarts>>

\* The timer of a request.
OnTimeout(r) ==
    /\ Complete(r, Error)
    /\ UNCHANGED <<native, worker, orphans, outbox, restarts>>

\* executeAsync; without a worker _sendRequest throws.
Begin(c) ==
    /\ call[c].pc = "idle"
    /\ Cardinality({d \in Calls : call[d].pc \notin {"idle", "done"}}) < MaxOpen
    /\ IF worker = "off"
       THEN call' = [call EXCEPT ![c] = Ends(@, Error).s] /\ UNCHANGED <<pending, inbox>>
       ELSE /\ call' = [call EXCEPT ![c].pc = "starting"]
            /\ SendRequest(pending, c, "start", 0)
    /\ UNCHANGED <<native, worker, orphans, outbox, restarts>>

\* The poll interval is over.
Wake(c) ==
    /\ call[c].pc = "waiting"
    /\ IF worker = "off"
       THEN call' = [call EXCEPT ![c] = Ends(@, Error).s] /\ UNCHANGED <<pending, inbox>>
       ELSE /\ call' = [call EXCEPT ![c].pc = "polling"]
            /\ SendRequest(pending, c, "poll", call[c].id)
    /\ UNCHANGED <<native, worker, orphans, outbox, restarts>>

\* "return asyncGetResult(...)" in the try block: whether the finally block waits
\* for the result is the compiler's choice.
FreeAtOnce(c) ==
    /\ call[c].pc = "getting"
    /\ call' = [call EXCEPT ![c].pc = "freeing"]
    /\ SendRequest(pending, c, "free", call[c].id)
    /\ UNCHANGED <<native, worker, orphans, outbox, restarts>>

\* The deadline passes.
Due(c) ==
    /\ c \notin Pollers /\ call[c].pc \in {"polling", "waiting"} /\ ~call[c].due
    /\ call' = [call EXCEPT ![c].due = TRUE]
    /\ UNCHANGED <<native, worker, inbox, orphans, outbox, pending, restarts>>

\* asyncCancel by another part of the program, once.
CancelElsewhere(c) ==
    /\ worker # "off" /\ c \in Pollers /\ ~call[c].due
    /\ call[c].pc \in {"polling", "waiting"}
    /\ call' = [call EXCEPT ![c].due = TRUE]
    /\ SendRequest(pending, c, "other", call[c].id)
    /\ UNCHANGED <<native, worker, orphans, outbox, restarts>>
-----------------------------------------------------------------------------
(* The life of a worker.                                                   *)

\* initialize: spawn, then the handshake.
Initialize ==
    /\ worker = "off"
    /\ worker' = "up"
    /\ UNCHANGED <<native, inbox, orphans, outbox, pending, call, restarts>>

\* The isolate dies between two messages.  Nobody listens for its exit: the
\* port of the main isolate stays open.
Die ==
    /\ worker = "up" /\ restarts < MaxRestarts
    /\ worker' = "dead" /\ inbox' = <<>> /\ restarts' = restarts + 1
    /\ UNCHANGED <<native, orphans, outbox, pending, call>>

\* A worker that is disposed of may be in a native call.
InCall ==
    \/ UNCHANGED orphans
    \/ worker = "up" /\ inbox # <<>> /\ orphans' = orphans \cup {Head(inbox)}

\* Mutant: the requests that are pending are not failed.
DisposeKeepsPending ==
    /\ worker # "off" /\ restarts < MaxRestarts
    /\ worker' = "off" /\ restarts' = restarts + 1
    /\ inbox' = <<>> /\ outbox' = <<>> /\ pending' = <<>>
    /\ InCall
    /\ UNCHANGED <<native, call>>

\* dispose, also the first half of recoverWorker: pending requests fail, and
\* with them their calls, whose finally blocks find no worker to free with; the
\* isolate is killed when it is through with its message, and its port closed.
Dispose ==
    /\ worker # "off" /\ restarts < MaxRestarts
    /\ worker' = "off" /\ restarts' = restarts + 1
    /\ call' = [c \in Calls |->
                   IF \E r \in DOMAIN pending : pending[r].call = c /\ pending[r].kind # "other"
                   THEN Ends(call[c], Error).s ELSE call[c]]
    /\ inbox' = <<>> /\ outbox' = <<>> /\ pending' = <<>>
    /\ InCall
    /\ UNCHANGED native
-----------------------------------------------------------------------------
\* Queries end, and odbc_disconnect drops those of a connection.
Query(c) ==
    /\ \E i \in DOMAIN table : table[i].ticket = c /\ Finish(i)
    /\ UNCHANGED client

Disconnect ==
    /\ DOMAIN table # {} /\ Drop(DOMAIN table)
    /\ UNCHANGED client

CNext ==
    \/ Respond \/ \E m \in orphans : Orphan(m)
    \/ HandleResponse \/ \E r \in DOMAIN pending : OnTimeout(r)
    \/ \E c \in Calls : Begin(c) \/ Wake(c) \/ FreeAtOnce(c) \/ Due(c) \/ CancelElsewhere(c)
    \/ \E c \in Calls : Query(c)
    \/ Disconnect
    \/ Initialize \/ Die \/ Dispose

TimeoutOf(c) == \E r \in DOMAIN pending : pending[r].call = c /\ OnTimeout(r)

\* The main isolate's event loop and timers run, and queries end but for the
\* endless ones.  Nothing is assumed of the worker.
CFairness ==
    /\ WF_cvars(HandleResponse)
    /\ \A c \in Calls : WF_cvars(TimeoutOf(c)) /\ WF_cvars(Wake(c)) /\ WF_cvars(Due(c))
    /\ \A k \in Calls \ Endless : WF_cvars(Query(k))

CSpec == CInit /\ [][CNext]_cvars

CFairSpec == CSpec /\ CFairness
-----------------------------------------------------------------------------
(* Properties.                                                             *)

\* executeAsync ends, whatever becomes of its query and of the worker: by the
\* result, the deadline, the timer of a request or dispose ("In-flight requests
\* will complete with AsyncError").  A caller who polls without a deadline is
\* answered once the query is over or cancelled, before it began or later.
CallersAnswered ==
    \A c \in Calls :
        call[c].pc = "starting" ~>
            call[c].pc = "done" \/ (c \in Pollers /\ c \in Endless)

\* An answer belongs to the call that gets it: the id that executeAsyncStart
\* returned is that of its own native request, and data is of its own query,
\* also when answers arrive after their requests timed out or were replaced.
AnswersAreOwn ==
    \A c \in Calls :
        /\ call[c].id \in DOMAIN table => table[call[c].id].ticket = c
        /\ call[c].res \in Tickets => call[c].res = c

\* A call that returned has freed its native request.  One that failed has too
\* once the worker is through with its messages: only an id that was never
\* learned, or a worker that was lost, leaves a request in the table.
NothingLeftBehind ==
    \A i \in DOMAIN table :
        LET c == table[i].ticket IN
        /\ call[c].pc = "done" => call[c].res = Error
        /\ restarts = 0 /\ inbox = <<>>
              => call[c].pc # "done" \/ call[c].id = 0
=============================================================================
