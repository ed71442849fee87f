------------------------------ MODULE Streams ------------------------------
(***************************************************************************)
(* Result streams: odbc_stream_start_batched and odbc_stream_start_async,  *)
(* the worker thread of each stream, the channel of capacity one between   *)
(* them, and the calls that poll, fetch, cancel and close a stream or      *)
(* disconnect its connection.                                              *)
(*                                                                         *)
(* The worker keeps the mutex of its connection from its first row to its  *)
(* last message.  odbc_stream_fetch takes the stream out of the table      *)
(* while it waits for the worker.  odbc_disconnect keeps the global mutex  *)
(* while it rolls back, for which it needs the mutex of the connection.    *)
(* The other calls keep the global mutex for one step.                     *)
(*                                                                         *)
(* A batch is handed out in Pieces chunks, numbered through the stream.    *)
(***************************************************************************)
EXTENDS Integers, Sequences

CONSTANTS
    Threads,        \* callers
    Conns,          \* connections, all open to begin with
    Streams,        \* streams that may be started; a stream is its id
    AsyncStreams,   \* streams of odbc_stream_start_async
    MaxBatches,     \* batches of a result with rows
    Results,        \* stream -> what its statement may give: "rows", "empty", "none"
    Pieces,         \* chunks of a batch
    Panics,         \* streams whose worker thread may panic
    None

ASSUME MaxBatchesAssumption == MaxBatches \in Nat \ {0}
ASSUME PiecesAssumption == Pieces \in Nat \ {0}
ASSUME NoneAssumption == None \notin Conns \cup Streams \cup Threads

VARIABLES
    open,           \* connections in the table
    global,         \* the thread that keeps the global mutex over several steps
    connLock,       \* connection -> stream whose worker has its mutex
    poisoned,       \* connections whose mutex a panic has poisoned
    table,          \* keys of streams
    registered,     \* keys of stream_connections
    pendingChunk,   \* pending_stream_chunks: stream -> chunk or 0
    st,             \* stream -> its state and its worker's
    call,           \* thread -> the call it is in
    got,            \* stream -> chunks handed to the caller
    told            \* stream -> what the caller knows of its end

vars == <<open, global, connLock, poisoned, table, registered, pendingChunk, st, call, got, told>>

\* A result without rows has one batch, the header; a statement without a
\* cursor has none.
Batches(x) == CASE x.result = "rows" -> MaxBatches [] x.result = "empty" -> 1 [] OTHER -> 0
Last == MaxBatches * Pieces
Ends == {"Done", "Cancelled", "Error"}
Batch(n) == [kind |-> "Batch", n |-> n]
Final(end) == [kind |-> end, n |-> 0]
Messages == [kind : Ends \cup {"Batch"}, n : 0 .. MaxBatches]

StreamStates ==
    [conn : Conns, result : {"rows", "empty", "none"},
     worker : {"Waiting", "Running", "Reading", "Ended"}, made : 0 .. MaxBatches,
     out : Messages \cup {None}, chan : Messages \cup {None},
     cancel : BOOLEAN, mark : 0 .. MaxBatches,
     batch : 0 .. MaxBatches, offset : 0 .. Pieces,
     status : Ends \cup {"Open"}, masked : BOOLEAN]

Calls ==
    [op : {"Idle"}] \cup [op : {"Start", "Fetch"}, s : Streams]
    \cup [op : {"Return"}, s : Streams, chunk : 0 .. Last, failed : BOOLEAN]
    \cup [op : {"Disconnect"}, c : Conns]

TypeOK ==
    /\ open \subseteq Conns /\ poisoned \subseteq Conns
    /\ global \in Threads \cup {None}
    /\ connLock \in [Conns -> Streams \cup {None}]
    /\ table \subseteq Streams /\ registered \subseteq Streams
    /\ pendingChunk \in [Streams -> 0 .. Last]
    /\ \A s \in Streams : st[s] # None => st[s] \in StreamStates
    /\ call \in [Threads -> Calls]
    /\ \A s \in Streams : got[s] \in Seq(1 .. Last)
    /\ told \in [Streams -> {"Open", "End", "Cancelled", "Error"}]

Idle == [op |-> "Idle"]

Init ==
    /\ open = Conns /\ global = None /\ poisoned = {}
    /\ connLock = [c \in Conns |-> None]
    /\ table = {} /\ registered = {}
    /\ pendingChunk = [s \in Streams |-> 0]
    /\ st = [s \in Streams |-> None]
    /\ call = [t \in Threads |-> Idle]
    /\ got = [s \in Streams |-> <<>>]
    /\ told = [s \in Streams |-> "Open"]

Started(s) == st[s] # None
Holds(t, s) == call[t].op \in {"Start", "Fetch", "Return"} /\ call[t].s = s

\* The receiving end exists: the stream is in the table or in a call's hands.
Receiver(s) == s \in table \/ \E t \in Threads : Holds(t, s)
-----------------------------------------------------------------------------
(* The worker thread.                                                      *)

\* It locks its connection; a poisoned mutex it reports and does not get.
WLock(s) ==
    /\ Started(s) /\ st[s].worker = "Waiting" /\ st[s].out = None
    /\ IF st[s].conn \in poisoned
       THEN st' = [st EXCEPT ![s].out = Final("Error")] /\ UNCHANGED connLock
       ELSE /\ connLock[st[s].conn] = None
            /\ connLock' = [connLock EXCEPT ![st[s].conn] = s]
            /\ st' = [st EXCEPT ![s].worker = "Running"]
    /\ UNCHANGED <<open, global, poisoned, table, registered, pendingChunk, call, got, told>>

\* Mutant: the flag is not looked at.
WLookAway(s) ==
    /\ Started(s) /\ st[s].worker = "Running" /\ st[s].out = None
    /\ st' = IF st[s].result = "rows" \/ st[s].made < Batches(st[s])
             THEN [st EXCEPT ![s].worker = "Reading"]
             ELSE [st EXCEPT ![s].out = Final("Done")]
    /\ UNCHANGED <<open, global, connLock, poisoned, table, registered, pendingChunk, call, got, told>>

\* Before it reads a batch it looks at the cancel flag.  A statement without a
\* cursor, and a result without rows once its header is sent, end with no look.
WLook(s) ==
    /\ Started(s) /\ st[s].worker = "Running" /\ st[s].out = None
    /\ st' = IF st[s].result = "rows" \/ st[s].made < Batches(st[s])
             THEN IF st[s].cancel THEN [st EXCEPT ![s].out = Final("Cancelled")]
                  ELSE [st EXCEPT ![s].worker = "Reading"]
             ELSE [st EXCEPT ![s].out = Final("Done")]
    /\ UNCHANGED <<open, global, connLock, poisoned, table, registered, pendingChunk, call, got, told>>

\* It reads the next batch or finds the end of the result.
WRead(s) ==
    /\ Started(s) /\ st[s].worker = "Reading"
    /\ st' = IF st[s].made < Batches(st[s])
             THEN [st EXCEPT ![s].worker = "Running", ![s].out = Batch(st[s].made + 1), ![s].made = @ + 1]
             ELSE [st EXCEPT ![s].worker = "Running", ![s].out = Final("Done")]
    /\ UNCHANGED <<open, global, connLock, poisoned, table, registered, pendingChunk, call, got, told>>

\* The statement, its description or a row fails.  An error whose text contains
\* "cancelled" is taken for the answer to a cancel.
WFail(s) ==
    /\ Started(s) /\ st[s].out = None
    /\ st[s].worker = "Reading" \/ (st[s].worker = "Running" /\ st[s].made = 0)
    /\ \E end \in {"Error", "Cancelled"} :
          st' = [st EXCEPT ![s].worker = "Running", ![s].out = Final(end),
                           ![s].masked = @ \/ end = "Cancelled"]
    /\ UNCHANGED <<open, global, connLock, poisoned, table, registered, pendingChunk, call, got, told>>

Unlock(s) == [c \in Conns |-> IF connLock[c] = s THEN None ELSE connLock[c]]

\* Mutant: a worker whose receiver is gone waits for room in the channel.
WSendBlocks(s) ==
    /\ Started(s) /\ st[s].out # None /\ st[s].chan = None
    /\ IF st[s].out.kind \in Ends
       THEN /\ st' = [st EXCEPT ![s].worker = "Ended", ![s].out = None, ![s].chan = st[s].out]
            /\ connLock' = Unlock(s)
       ELSE /\ st' = [st EXCEPT ![s].out = None, ![s].chan = st[s].out]
            /\ UNCHANGED connLock
    /\ UNCHANGED <<open, global, poisoned, table, registered, pendingChunk, call, got, told>>

\* Mutant: the channel has no bound, and what it holds is overwritten.
WSendOverwrites(s) ==
    /\ Started(s) /\ st[s].out # None
    /\ IF ~Receiver(s) \/ st[s].out.kind \in Ends
       THEN /\ st' = [st EXCEPT ![s].worker = "Ended", ![s].out = None,
                                ![s].chan = IF Receiver(s) THEN st[s].out ELSE None]
            /\ connLock' = Unlock(s)
       ELSE /\ st' = [st EXCEPT ![s].out = None, ![s].chan = st[s].out]
            /\ UNCHANGED connLock
    /\ UNCHANGED <<open, global, poisoned, table, registered, pendingChunk, call, got, told>>

\* A send waits for room in the channel and fails once the receiver is gone;
\* then, and after its last message, the worker ends.
WSend(s) ==
    /\ Started(s) /\ st[s].out # None
    /\ Receiver(s) => st[s].chan = None
    /\ IF ~Receiver(s) \/ st[s].out.kind \in Ends
       THEN /\ st' = [st EXCEPT ![s].worker = "Ended", ![s].out = None,
                                ![s].chan = IF Receiver(s) THEN st[s].out ELSE None]
            /\ connLock' = Unlock(s)
       ELSE /\ st' = [st EXCEPT ![s].out = None, ![s].chan = st[s].out]
            /\ UNCHANGED connLock
    /\ UNCHANGED <<open, global, poisoned, table, registered, pendingChunk, call, got, told>>

\* A panic ends it without a message and poisons the mutex.
WPanic(s) ==
    /\ Started(s) /\ s \in Panics /\ st[s].worker \in {"Running", "Reading"} /\ st[s].out = None
    /\ st' = [st EXCEPT ![s].worker = "Ended"]
    /\ connLock' = Unlock(s)
    /\ poisoned' = poisoned \cup {st[s].conn}
    /\ UNCHANGED <<open, global, table, registered, pendingChunk, call, got, told>>

Worker(s) == WLock(s) \/ WLook(s) \/ WRead(s) \/ WFail(s) \/ WSend(s)
-----------------------------------------------------------------------------
(* The calls.                                                              *)

Free(t) == global = None /\ call[t] = Idle

\* odbc_stream_start_batched and odbc_stream_start_async spawn the worker ...
StreamStart(t, c, s) ==
    /\ Free(t) /\ c \in open /\ ~Started(s)
    /\ \E result \in Results[s] :
          st' = [st EXCEPT ![s] =
              [conn |-> c, result |-> result, worker |-> "Waiting", made |-> 0,
               out |-> None, chan |-> None, cancel |-> FALSE, mark |-> 0, batch |-> 0, offset |-> 0,
               status |-> "Open", masked |-> FALSE]]
    /\ call' = [call EXCEPT ![t] = [op |-> "Start", s |-> s]]
    /\ UNCHANGED <<open, global, connLock, poisoned, table, registered, pendingChunk, got, told>>

\* ... and then put the stream into the tables.
StreamInsert(t) ==
    /\ global = None /\ call[t].op = "Start"
    /\ table' = table \cup {call[t].s}
    /\ registered' = registered \cup {call[t].s}
    /\ call' = [call EXCEPT ![t] = Idle]
    /\ UNCHANGED <<open, global, connLock, poisoned, pendingChunk, st, got, told>>

\* fetch_next_chunk and pull_next_message_nonblocking: a message of the worker
\* is taken in.
TakeIn(x) ==
    IF x.chan.kind = "Batch"
    THEN [x EXCEPT !.batch = x.chan.n, !.offset = 0, !.chan = None]
    ELSE [x EXCEPT !.status = x.chan.kind, !.chan = None]

HasPiece(x) == x.batch # 0 /\ x.offset < Pieces

\* The worker has gone without a last message.
Disconnected(x) == x.worker = "Ended" /\ x.chan = None

Chunk(x) == (x.batch - 1) * Pieces + x.offset + 1

Deliver(s, chunk) == got' = [got EXCEPT ![s] = Append(@, chunk)]

\* A chunk that did not fit before is handed out without the stream.
FetchPending(t, s) ==
    /\ Free(t) /\ pendingChunk[s] # 0
    /\ Deliver(s, pendingChunk[s])
    /\ pendingChunk' = [pendingChunk EXCEPT ![s] = 0]
    /\ UNCHANGED <<open, global, connLock, poisoned, table, registered, st, call, told>>

\* Mutant: the pending chunk is not looked for.
FetchTakeBlindly(t, s) ==
    /\ Free(t) /\ s \in table /\ told[s] = "Open"
    /\ table' = table \ {s}
    /\ call' = [call EXCEPT ![t] = [op |-> "Fetch", s |-> s]]
    /\ UNCHANGED <<open, global, connLock, poisoned, registered, pendingChunk, st, got, told>>

\* odbc_stream_fetch takes the stream out of the table ...
FetchTake(t, s) ==
    /\ Free(t) /\ s \in table /\ pendingChunk[s] = 0 /\ told[s] = "Open"
    /\ table' = table \ {s}
    /\ call' = [call EXCEPT ![t] = [op |-> "Fetch", s |-> s]]
    /\ UNCHANGED <<open, global, connLock, poisoned, registered, pendingChunk, st, got, told>>

\* Mutant: a vanished worker is taken for one that is done.
AfterReceiveMasked(x) ==
    CASE x.status # "Open" \/ HasPiece(x) -> x
      [] x.chan # None -> TakeIn(x)
      [] OTHER -> [x EXCEPT !.status = "Done"]

\* What fetch_next_chunk makes of a stream when it does not have to wait.
AfterReceive(x) ==
    CASE x.status # "Open" \/ HasPiece(x) -> x
      [] x.chan # None -> TakeIn(x)
      [] OTHER -> [x EXCEPT !.status = "Error"]

\* Mutant: it waits with the global mutex.
FetchRunLocked(t) ==
    /\ call[t].op = "Fetch" /\ global = None
    /\ LET s == call[t].s
           x == AfterReceive(st[s])
           data == x.status = "Open"
       IN /\ st[s].status # "Open" \/ HasPiece(st[s]) \/ st[s].chan # None \/ Disconnected(st[s])
          /\ st' = [st EXCEPT ![s] = IF data THEN [x EXCEPT !.offset = @ + 1] ELSE x]
          /\ call' = [call EXCEPT ![t] = [op |-> "Return", s |-> s,
                                          chunk |-> IF data THEN Chunk(x) ELSE 0,
                                          failed |-> x.status = "Error"]]
    /\ UNCHANGED <<open, global, connLock, poisoned, table, registered, pendingChunk, got, told>>

\* ... waits, without the global mutex, for a batch or the end ...
FetchRun(t) ==
    /\ call[t].op = "Fetch"
    /\ LET s == call[t].s
           x == AfterReceive(st[s])
           data == x.status = "Open"
       IN /\ st[s].status # "Open" \/ HasPiece(st[s]) \/ st[s].chan # None \/ Disconnected(st[s])
          /\ st' = [st EXCEPT ![s] = IF data THEN [x EXCEPT !.offset = @ + 1] ELSE x]
          /\ call' = [call EXCEPT ![t] = [op |-> "Return", s |-> s,
                                          chunk |-> IF data THEN Chunk(x) ELSE 0,
                                          failed |-> x.status = "Error"]]
    /\ UNCHANGED <<open, global, connLock, poisoned, table, registered, pendingChunk, got, told>>

\* ... and puts it back.  A chunk too large for the buffer is kept.
FetchReturn(t, fits) ==
    /\ global = None /\ call[t].op = "Return"
    /\ LET s == call[t].s IN
       /\ table' = table \cup {s}
       /\ IF call[t].chunk = 0
          THEN /\ told' = [told EXCEPT ![s] = IF call[t].failed THEN "Error" ELSE "End"]
               /\ UNCHANGED <<got, pendingChunk>>
          ELSE /\ IF fits
                  THEN Deliver(s, call[t].chunk) /\ UNCHANGED pendingChunk
                  ELSE /\ pendingChunk' = [pendingChunk EXCEPT ![s] = call[t].chunk]
                       /\ UNCHANGED got
               /\ UNCHANGED told
    /\ call' = [call EXCEPT ![t] = Idle]
    /\ UNCHANGED <<open, global, connLock, poisoned, registered, st>>

\* odbc_stream_poll_async.  A worker that has gone without a last message is
\* taken for one that is done.  Callers fetch a chunk that did not fit again
\* before they poll.
StreamPoll(t, s) ==
    /\ Free(t) /\ s \in table /\ s \in AsyncStreams /\ told[s] = "Open" /\ pendingChunk[s] = 0
    /\ LET x == st[s]
           y == CASE x.status # "Open" \/ HasPiece(x) -> x
                  [] x.chan # None -> TakeIn(x)
                  [] Disconnected(x) -> [x EXCEPT !.status = "Done", !.masked = TRUE]
                  [] OTHER -> x
       IN /\ st' = [st EXCEPT ![s] = y]
          /\ told' = [told EXCEPT ![s] =
                CASE y.status = "Done" -> "End"
                  [] OTHER -> y.status]
    /\ UNCHANGED <<open, global, connLock, poisoned, table, registered, pendingChunk, call, got>>

\* request_cancel; mark records how far the worker was.
Cancelled(x) == IF x.cancel THEN x ELSE [x EXCEPT !.cancel = TRUE, !.mark = x.made]

\* odbc_stream_cancel.
StreamCancel(t, s) ==
    /\ Free(t) /\ s \in table
    /\ st' = [st EXCEPT ![s] = Cancelled(@)]
    /\ UNCHANGED <<open, global, connLock, poisoned, table, registered, pendingChunk, call, got, told>>

\* odbc_stream_close.
StreamClose(t, s) ==
    /\ Free(t) /\ s \in table
    /\ table' = table \ {s} /\ registered' = registered \ {s}
    /\ pendingChunk' = [pendingChunk EXCEPT ![s] = 0]
    /\ UNCHANGED <<open, global, connLock, poisoned, st, call, got, told>>

\* The streams of a connection are cancelled and dropped.
DropStreams(c) ==
    LET mine == {s \in registered : st[s].conn = c} IN
    /\ open' = open \ {c}
    /\ st' = [s \in Streams |->
          IF s \in mine \cap table THEN Cancelled(st[s]) ELSE st[s]]
    /\ table' = table \ mine /\ registered' = registered \ mine
    /\ pendingChunk' = [s \in Streams |-> IF s \in mine THEN 0 ELSE pendingChunk[s]]

\* odbc_disconnect without a transaction.
Disconnect(t, c) ==
    /\ Free(t) /\ c \in open
    /\ DropStreams(c)
    /\ UNCHANGED <<global, connLock, poisoned, call, got, told>>

\* odbc_disconnect that finds a transaction keeps the global mutex ...
DisconnectCall(t, c) ==
    /\ Free(t) /\ c \in open
    /\ global' = t
    /\ call' = [call EXCEPT ![t] = [op |-> "Disconnect", c |-> c]]
    /\ UNCHANGED <<open, connLock, poisoned, table, registered, pendingChunk, st, got, told>>

\* ... rolls back, for which it needs the connection's mutex, and only then
\* comes to the streams.
DisconnectRun(t) ==
    /\ call[t].op = "Disconnect" /\ connLock[call[t].c] = None
    /\ DropStreams(call[t].c)
    /\ global' = None
    /\ call' = [call EXCEPT ![t] = Idle]
    /\ UNCHANGED <<connLock, poisoned, got, told>>

Consume(t, s) == FetchPending(t, s) \/ FetchTake(t, s)
Continue(t) ==
    StreamInsert(t) \/ FetchRun(t) \/ (\E fits \in BOOLEAN : FetchReturn(t, fits)) \/ DisconnectRun(t)

Next ==
    \/ \E s \in Streams : Worker(s) \/ WPanic(s)
    \/ \E t \in Threads : Continue(t)
    \/ \E t \in Threads, c \in Conns, s \in Streams : StreamStart(t, c, s)
    \/ \E t \in Threads, s \in Streams :
          Consume(t, s) \/ StreamPoll(t, s) \/ StreamCancel(t, s) \/ StreamClose(t, s)
    \/ \E t \in Threads, c \in Conns : Disconnect(t, c) \/ DisconnectCall(t, c)

Spec == Init /\ [][Next]_vars

\* Threads are scheduled and calls in progress go on.  No caller need fetch.
Fairness ==
    /\ \A s \in Streams : WF_vars(Worker(s))
    /\ \A t \in Threads : WF_vars(Continue(t))

FairSpec == Spec /\ Fairness
-----------------------------------------------------------------------------
(* Properties.                                                             *)

\* odbc_stream_fetch hands out the chunks of a stream in order, each once and
\* none left out, also after answers that a buffer is too small.  A caller that
\* is told of the end of a stream nobody cancelled has all of it, unless a
\* failure was masked: a poll took a worker that panicked for one that is done,
\* or the text of the error has the word "cancelled" in it.
ChunksInOrder ==
    \A s \in Streams :
        /\ \A i \in 1 .. Len(got[s]) : got[s][i] = i
        /\ told[s] = "End" /\ ~st[s].cancel /\ ~st[s].masked =>
              Len(got[s]) = Batches(st[s]) * Pieces

\* The same without the exception (fetch_next_chunk gives no chunk at the end of
\* the data only).  It fails: see the README.
EndIsComplete ==
    \A s \in Streams :
        told[s] = "End" /\ ~st[s].cancel => Len(got[s]) = Batches(st[s]) * Pieces

\* A stream that is closed or dropped gives its connection free
\* (odbc_stream_close frees the worker): again and again there is a time at which
\* no such stream has one.
DroppedStreamsLetGo ==
    []<>(\A s \in Streams :
            Started(s) /\ ~Receiver(s) => \A c \in Conns : connLock[c] # s)

\* odbc_stream_cancel: "the worker checks the cancellation flag between batches
\* and exits early".  After a cancel it reads at most the batch it had begun,
\* however full the channel is and whoever fetches, and a stream that ends
\* with less than everything does not say it is done.
CancelIsHeard ==
    \A s \in Streams :
        Started(s) /\ st[s].cancel =>
            /\ st[s].made <= st[s].mark + 1
            /\ st[s].status = "Done" /\ ~st[s].masked => st[s].made = Batches(st[s])

\* The disconnect of thread t and the worker of a stream wait for each other:
\* t rolls back with the global mutex in its hands, and the worker has the
\* connection's and waits for a fetch, which needs the global one.
Wedged(t) ==
    \E s \in Streams :
        /\ connLock[call[t].c] = s /\ st[s].out # None /\ st[s].chan # None /\ Receiver(s)
        /\ \A u \in Threads : ~(call[u].op = "Fetch" /\ call[u].s = s)

\* An odbc_disconnect that rolls back under the global mutex returns, although a
\* worker has the connection's mutex and fetches that come back need the global
\* one, unless it is Wedged: a fetch that is under way goes on, and the worker
\* ends with the result, an error or a panic.  One thread at a time is in such a
\* call, as it has the global mutex.
DisconnectReturns ==
    []<>(\A t \in Threads : call[t].op = "Disconnect" => Wedged(t))

\* The same without the exception (odbc_disconnect).  It fails: see the README.
DisconnectAlwaysReturns ==
    \A t \in Threads : call[t].op = "Disconnect" ~> call[t].op # "Disconnect"
=============================================================================
