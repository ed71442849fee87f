--------------------------- MODULE StreamContents ---------------------------
(***************************************************************************)
(* What flows through a stream: the bytes of a buffer-mode stream          *)
(* (odbc_stream_start), kept in memory or spilled to a temporary file, and *)
(* of a multi-result stream (odbc_stream_multi_start_batched), a frame per *)
(* item, together with the Dart readers that put them together again.      *)
(*                                                                         *)
(* A byte is a number.  odbc_stream_start keeps the global mutex while it  *)
(* executes and spills, so it is one step; the worker of a multi-result    *)
(* stream runs beside its caller.  Module Streams has the interleavings of *)
(* several calls on one stream; here a stream has one caller.              *)
(***************************************************************************)
EXTENDS Integers, Sequences, SequencesExt, FiniteSets, FiniteSetsExt

CONSTANTS
    Streams,            \* stream ids; a stream is started once
    MultiStreams,       \* those that may be multi-result streams
    Sizes,              \* lengths of an encoded result
    ItemLists,          \* sequences of items a statement may produce
    ChunkSizes,         \* chunk_size of a stream
    BufLens,            \* lengths of the callers' buffers
    Threshold,          \* threshold_bytes of a DiskSpillStream
    WriteChunkSize,     \* WRITE_CHUNK_SIZE
    Faults,             \* what may go wrong with a statement or a spill file
    SharedMillisecond,  \* two spills may happen in one millisecond
    None

ASSUME SizesAssumption == Sizes \subseteq Nat \ {0}
ASSUME ChunkAssumption ==
    /\ ChunkSizes \cup BufLens \subseteq Nat \ {0}
    /\ Threshold \in Nat \ {0} /\ WriteChunkSize \in Nat \ {0}
ASSUME FaultsAssumption ==
    Faults \subseteq {"execute", "create", "spill", "write", "metadata", "remove"}

VARIABLES
    clock,      \* milliseconds, as far as spill files are named by them
    files,      \* temporary directory: file name -> bytes
    table,      \* streams: stream -> its state, or None
    made,       \* stream -> the bytes or items its statement produced
    read,       \* stream -> what its Dart reader has, or None
    told,       \* stream -> how its Dart reader ended
    stranded    \* files of failed spills without a path, and of failed removals

vars == <<clock, files, table, made, read, told, stranded>>

\* A whole result of n bytes; no two streams have a byte in common.
ResultBytes(s, n) == [i \in 1 .. n |-> 100 * s + i]

NewReader(decoder) == [decoder |-> decoder, bytes |-> <<>>, items |-> <<>>, threw |-> FALSE]

Init ==
    /\ clock = 0 /\ files = <<>> /\ stranded = {}
    /\ table = [s \in Streams |-> None]
    /\ made = [s \in Streams |-> None]
    /\ read = [s \in Streams |-> None]
    /\ told = [s \in Streams |-> "Open"]
-----------------------------------------------------------------------------
(* DiskSpillStream and DiskSpillWriter.                                    *)

\* DiskSpillWriter hands on whole chunks, and the rest when it is flushed.
WriterChunks(data) ==
    [i \in 1 .. (Len(data) + WriteChunkSize - 1) \div WriteChunkSize |->
        SubSeq(data, (i - 1) * WriteChunkSize + 1, Min({i * WriteChunkSize, Len(data)}))]

\* write_chunk and spill_to_disk: what has come before moves to the file with
\* the first chunk that would exceed the threshold.
WriteChunk(x, chunk) ==
    IF x.spilled THEN [x EXCEPT !.file = @ \o chunk]
    ELSE IF Len(x.memory) + Len(chunk) > Threshold /\ x.memory # <<>>
         THEN [memory |-> <<>>, file |-> x.memory \o chunk, spilled |-> TRUE]
         ELSE [x EXCEPT !.memory = @ \o chunk]

EmptySpill == [memory |-> <<>>, file |-> <<>>, spilled |-> FALSE]
Spilled(data) == FoldLeft(WriteChunk, EmptySpill, WriterChunks(data))

\* spill_to_disk names the file by the clock and truncates one of that name.
CreateFile(name, bytes) ==
    [f \in DOMAIN files \cup {name} |-> IF f = name THEN bytes ELSE files[f]]
RemoveFiles(names) == [f \in DOMAIN files \ names |-> files[f]]

\* Drop of DiskSpillStream and of StreamingStateFileBacked: a file that cannot
\* be removed stays.
RemoveAll(names) ==
    \E stay \in SUBSET (IF "remove" \in Faults THEN names \cap DOMAIN files ELSE {}) :
        /\ files' = RemoveFiles(names \ stay)
        /\ stranded' = stranded \cup stay
-----------------------------------------------------------------------------
(* The streams.                                                            *)

InMemory(bytes, size) ==
    [kind |-> "InMemory", bytes |-> bytes, offset |-> 0, size |-> size, pending |-> None]
FileBacked(name, total, size) ==
    [kind |-> "FileBacked", path |-> name, total |-> total, offset |-> 0, size |-> size,
     pending |-> None]

NotStarted(s) == table[s] = None /\ made[s] = None /\ told[s] = "Open"

StartFails(s) ==
    /\ made' = [made EXCEPT ![s] = <<>>]
    /\ told' = [told EXCEPT ![s] = "Failed"]
    /\ UNCHANGED <<table, read>>

\* odbc_stream_start without a threshold keeps the encoded result.
StartInMemory(s, n, size) ==
    /\ NotStarted(s)
    /\ \/ /\ "execute" \in Faults
          /\ StartFails(s)
       \/ /\ made' = [made EXCEPT ![s] = ResultBytes(s, n)]
          /\ table' = [table EXCEPT ![s] = InMemory(ResultBytes(s, n), size)]
          /\ read' = [read EXCEPT ![s] = NewReader(FALSE)]
          /\ UNCHANGED told
    /\ UNCHANGED <<clock, files, stranded>>

\* finish_for_streaming_read: the stream reads the file or the memory.  Its
\* length is taken to be zero when it cannot be found out.
Finish(s, n, size) ==
    LET x == Spilled(ResultBytes(s, n))
    IN /\ made' = [made EXCEPT ![s] = ResultBytes(s, n)]
       /\ files' = IF x.spilled THEN CreateFile(clock', x.file) ELSE files
       /\ \E total \in {Len(x.file)} \cup (IF "metadata" \in Faults THEN {0} ELSE {}) :
             table' = [table EXCEPT ![s] =
                IF x.spilled THEN FileBacked(clock', total, size) ELSE InMemory(x.memory, size)]
       /\ read' = [read EXCEPT ![s] = NewReader(FALSE)]
       /\ UNCHANGED <<told, stranded>>

\* A spill that fails: with nothing created, with a file whose path was not yet
\* stored (it stays, with what was written of the memory), or with one that
\* Drop removes, or fails to.
SpillFails(s, n) ==
    /\ Spilled(ResultBytes(s, n)).spilled
    /\ \/ "create" \in Faults /\ UNCHANGED <<files, stranded>>
       \/ /\ "spill" \in Faults
          /\ \E k \in 0 .. Max({Threshold, WriteChunkSize}) :
                files' = CreateFile(clock', SubSeq(ResultBytes(s, n), 1, k))
          /\ stranded' = stranded \cup {clock'}
       \/ "write" \in Faults /\ files' = RemoveFiles({clock'}) /\ UNCHANGED stranded
       \/ /\ {"write", "remove"} \subseteq Faults
          /\ \E k \in 0 .. n : files' = CreateFile(clock', SubSeq(ResultBytes(s, n), 1, k))
          /\ stranded' = stranded \cup {clock'}
    /\ StartFails(s)

\* odbc_stream_start with ODBC_STREAM_SPILL_THRESHOLD_MB.
StartWithSpill(s, n, size) ==
    /\ NotStarted(s)
    /\ IF SharedMillisecond THEN clock' \in {clock, clock + 1} ELSE clock' = clock + 1
    /\ \/ "execute" \in Faults /\ StartFails(s) /\ UNCHANGED <<files, stranded>>
       \/ SpillFails(s, n)
       \/ Finish(s, n, size)

\* Something outside cleans the temporary directory.
CleanTemp(name) ==
    /\ name \in DOMAIN files
    /\ files' = RemoveFiles({name})
    /\ UNCHANGED <<clock, table, made, read, told, stranded>>
-----------------------------------------------------------------------------
(* The worker of a multi-result stream.                                    *)

\* frame_item: [tag][len][payload].
Frame(item) == <<item.tag, Len(item.payload)>> \o item.payload

\* spawn_multi_stream_worker: the worker and the stream it feeds.
Multi(size) ==
    [kind |-> "Multi", next |-> 1, worker |-> "Running", queue |-> <<>>, cancel |-> FALSE,
     batch |-> <<>>, offset |-> 0, size |-> size, done |-> FALSE, error |-> FALSE,
     pending |-> None]

\* odbc_stream_multi_start_batched and odbc_stream_multi_start_async, whose
\* streams are read in the same way.
StartMulti(s, items, size) ==
    /\ NotStarted(s)
    /\ made' = [made EXCEPT ![s] = items]
    /\ table' = [table EXCEPT ![s] = Multi(size)]
    /\ read' = [read EXCEPT ![s] = NewReader(TRUE)]
    /\ UNCHANGED <<clock, files, told, stranded>>

\* Mutant: a row count after the first item ends the stream.
NextMessageStops(x, items) ==
    IF x.next > Len(items) \/ (x.next > 1 /\ items[x.next].tag = 1)
    THEN [kind |-> "Done"] ELSE [kind |-> "Batch", bytes |-> Frame(items[x.next])]

\* drive_multi_result_stream: what the statement yields next.
NextMessage(x, items) ==
    IF x.next > Len(items) THEN [kind |-> "Done"]
    ELSE [kind |-> "Batch", bytes |-> Frame(items[x.next])]

\* The flag is looked at before the next result is asked for, and before the
\* first one when that has rows.  The channel has room for one message and the
\* worker waits with another.
WorkerStep(s) ==
    /\ table[s] # None /\ table[s].kind = "Multi" /\ table[s].worker = "Running"
    /\ Len(table[s].queue) < 2
    /\ LET x == table[s]
           looks == x.next > 1 \/ made[s][1].tag = 0
       IN \E m \in IF looks /\ x.cancel THEN {[kind |-> "Cancelled"]}
                   ELSE {NextMessage(x, made[s])}
                        \cup (IF "execute" \in Faults THEN {[kind |-> "Error"]} ELSE {}) :
             table' = [table EXCEPT ![s].queue = Append(@, m),
                                    ![s].next = @ + 1,
                                    ![s].worker = IF m.kind = "Batch" THEN @ ELSE "Ended"]
    /\ UNCHANGED <<clock, files, made, read, told, stranded>>
-----------------------------------------------------------------------------
(* odbc_stream_fetch: fetch_next_chunk of each kind of stream gives the    *)
(* stream it leaves, the chunk (None at the end), has_more, and whether it *)
(* failed.                                                                 *)

Answer(x, chunk, more, failed) == [stream |-> x, chunk |-> chunk, more |-> more, failed |-> failed]

\* StreamingState.
FetchMemory(x) ==
    LET end == Min({x.offset + x.size, Len(x.bytes)})
    IN IF x.offset >= Len(x.bytes) THEN Answer(x, None, FALSE, FALSE)
       ELSE Answer([x EXCEPT !.offset = end], SubSeq(x.bytes, x.offset + 1, end),
                   end < Len(x.bytes), FALSE)

\* Mutant: a file shorter than it was is read as far as it goes.
FetchFileShort(x) ==
    LET end == Min({x.offset + x.size, x.total})
        has == IF x.path \in DOMAIN files THEN files[x.path] ELSE <<>>
    IN CASE x.offset >= x.total -> Answer(x, None, FALSE, FALSE)
         [] Len(has) <= x.offset -> Answer([x EXCEPT !.offset = x.total], None, FALSE, FALSE)
         [] OTHER -> Answer([x EXCEPT !.offset = end], SubSeq(has, x.offset + 1, end),
                            end < x.total, FALSE)

\* StreamingStateFileBacked: the file is opened for every chunk and read with
\* read_exact.
FetchFile(x) ==
    LET end == Min({x.offset + x.size, x.total})
        has == IF x.path \in DOMAIN files THEN files[x.path] ELSE <<>>
    IN CASE x.offset >= x.total -> Answer(x, None, FALSE, FALSE)
         [] Len(has) < end -> Answer(x, None, TRUE, TRUE)
         [] OTHER -> Answer([x EXCEPT !.offset = end], SubSeq(has, x.offset + 1, end),
                            end < x.total, FALSE)

\* Mutant: a batch that is handed out whole is handed out again.
FromBatchTwice(x) ==
    LET end == Min({x.offset + x.size, Len(x.batch)})
    IN IF x.offset = 0 /\ x.size >= Len(x.batch)
       THEN Answer([x EXCEPT !.offset = 0], x.batch, TRUE, FALSE)
       ELSE Answer([x EXCEPT !.offset = end], SubSeq(x.batch, x.offset + 1, end), TRUE, FALSE)

FromBatch(x) ==
    LET end == Min({x.offset + x.size, Len(x.batch)})
    IN IF x.offset = 0 /\ x.size >= Len(x.batch)
       THEN Answer([x EXCEPT !.batch = <<>>], x.batch, TRUE, FALSE)
       ELSE Answer([x EXCEPT !.offset = end], SubSeq(x.batch, x.offset + 1, end), TRUE, FALSE)

\* BatchedStreamingState, when it does not have to wait.
FetchBatched(x) ==
    LET m == Head(x.queue)
        y == [x EXCEPT !.queue = Tail(@)]
    IN CASE x.error -> Answer(x, None, ~x.done, TRUE)
         [] x.done -> Answer(x, None, FALSE, FALSE)
         [] x.offset < Len(x.batch) -> FromBatch(x)
         [] m.kind = "Batch" -> FromBatch([y EXCEPT !.batch = m.bytes, !.offset = 0])
         [] m.kind = "Error" -> Answer([y EXCEPT !.error = TRUE], None, TRUE, TRUE)
         [] OTHER -> Answer([y EXCEPT !.done = TRUE], None, FALSE, FALSE)

Waits(x) == x.kind = "Multi" /\ ~x.error /\ ~x.done /\ x.offset >= Len(x.batch) /\ x.queue = <<>>

FetchNextChunk(x) ==
    CASE x.kind = "InMemory" -> FetchMemory(x)
      [] x.kind = "FileBacked" -> FetchFile(x)
      [] OTHER -> FetchBatched(x)
-----------------------------------------------------------------------------
(* The Dart readers.                                                       *)

\* The frames that are whole at the front of bytes: their ends.
FrameEnd(bytes, from) == from + 2 + bytes[from + 2]
Ends(bytes) ==
    LET grow[k \in 0 .. Len(bytes)] ==
            IF k = 0 THEN <<0>>
            ELSE LET e == grow[k - 1]
                     from == e[Len(e)]
                 IN IF Len(bytes) - from < 2 \/ FrameEnd(bytes, from) > Len(bytes)
                    THEN e ELSE Append(e, FrameEnd(bytes, from))
    IN grow[Len(bytes)]

\* A frame that feed refuses with a FormatException: an unknown tag, or a row
\* count (one unit here) of another length.
Malformed(item) == item.tag \notin {0, 1} \/ (item.tag = 1 /\ Len(item.payload) # 1)

\* Mutant: a header is looked for in any bytes that are left, and its length
\* read past their end, which throws.
FeedEager(reader, chunk) ==
    LET bytes == reader.bytes \o chunk
        e == Ends(bytes)
        item(k) == [tag |-> bytes[e[k] + 1], payload |-> SubSeq(bytes, e[k] + 3, e[k + 1])]
        new == [k \in 1 .. Len(e) - 1 |-> item(k)]
        rest == SubSeq(bytes, e[Len(e)] + 1, Len(bytes))
    IN IF Len(rest) = 1 THEN [reader EXCEPT !.bytes = bytes, !.threw = TRUE]
       ELSE [reader EXCEPT !.bytes = rest, !.items = @ \o new]

\* MultiResultStreamDecoder.feed: the items completed, and what is left.  When
\* it throws, the items of the call are lost with it.
Feed(reader, chunk) ==
    LET bytes == reader.bytes \o chunk
        e == Ends(bytes)
        item(k) == [tag |-> bytes[e[k] + 1], payload |-> SubSeq(bytes, e[k] + 3, e[k + 1])]
        new == [k \in 1 .. Len(e) - 1 |-> item(k)]
    IN IF \E k \in DOMAIN new : Malformed(new[k])
       THEN [reader EXCEPT !.bytes = bytes, !.threw = TRUE]
       ELSE [reader EXCEPT !.bytes = SubSeq(bytes, e[Len(e)] + 1, Len(bytes)), !.items = @ \o new]

\* streamQuery adds the chunk to its buffer, streamQueryMulti feeds its decoder.
Take(s, chunk) ==
    IF read[s].decoder THEN Feed(read[s], chunk)
    ELSE [read[s] EXCEPT !.bytes = @ \o chunk]

\* Mutant: file-backed streams have no Drop.
DroppedLeaks(streams) == UNCHANGED <<files, stranded>>

\* odbc_stream_close, and odbc_disconnect for every stream of the connection:
\* the file of a file-backed stream goes with it.
Dropped(streams) == RemoveAll({table[s].path : s \in {u \in streams : table[u].kind = "FileBacked"}})

\* The readers close the stream when they end.
ReaderEnds(s, how) ==
    /\ told' = [told EXCEPT ![s] = how]
    /\ table' = [table EXCEPT ![s] = None]
    /\ Dropped({s})

\* How a reader ends that is not told of more: assertExhausted.
CleanEnd(reader) ==
    IF reader.decoder /\ reader.bytes # <<>> THEN "Malformed" ELSE "End"

\* odbc_stream_fetch and what the reader does with its answer.  A chunk that
\* does not fit is kept, and streamFetch calls again with a larger buffer.
StreamFetch(s, len) ==
    /\ table[s] # None /\ ~Waits(table[s])
    /\ LET x == table[s]
           a == IF x.pending # None THEN [x.pending EXCEPT !.stream = [x EXCEPT !.pending = None]]
                ELSE FetchNextChunk(x)
           fits == a.chunk = None \/ Len(a.chunk) <= len
       IN CASE a.failed -> ReaderEnds(s, "Failed") /\ UNCHANGED read
            [] ~fits ->
                 /\ table' = [table EXCEPT ![s] =
                       [a.stream EXCEPT !.pending = [a EXCEPT !.stream = None]]]
                 /\ UNCHANGED <<read, told, files, stranded>>
            [] a.chunk = None -> ReaderEnds(s, CleanEnd(read[s])) /\ UNCHANGED read
            [] OTHER ->
                 LET reader == Take(s, a.chunk)
                 IN /\ read' = [read EXCEPT ![s] = reader]
                    /\ IF reader.threw THEN ReaderEnds(s, "Malformed")
                       ELSE IF a.more
                       THEN table' = [table EXCEPT ![s] = a.stream] /\ UNCHANGED <<told, files, stranded>>
                       ELSE ReaderEnds(s, CleanEnd(reader))
    /\ UNCHANGED <<clock, made>>

\* odbc_stream_cancel does nothing to a buffer-mode stream.
StreamCancel(s) ==
    /\ table[s] # None /\ table[s].kind = "Multi"
    /\ table' = [table EXCEPT ![s].cancel = TRUE]
    /\ UNCHANGED <<clock, files, made, read, told, stranded>>

\* The caller stops listening: the reader closes the stream.
StreamClose(s) ==
    /\ table[s] # None
    /\ ReaderEnds(s, "Closed")
    /\ UNCHANGED <<clock, made, read>>

\* odbc_disconnect drops the streams of its connection, here all there are; the
\* next fetch of each reader fails.
Disconnect ==
    LET streams == {s \in Streams : table[s] # None} IN
    /\ streams # {}
    /\ told' = [s \in Streams |-> IF s \in streams THEN "Failed" ELSE told[s]]
    /\ table' = [s \in Streams |-> None]
    /\ Dropped(streams)
    /\ UNCHANGED <<clock, made, read>>

Next ==
    \/ Disconnect
    \/ \E s \in Streams, n \in Sizes, size \in ChunkSizes :
          StartInMemory(s, n, size) \/ StartWithSpill(s, n, size)
    \/ \E s \in MultiStreams, items \in ItemLists, size \in ChunkSizes : StartMulti(s, items, size)
    \/ \E s \in Streams : WorkerStep(s) \/ StreamCancel(s) \/ StreamClose(s)
    \/ \E s \in Streams, len \in BufLens : StreamFetch(s, len)
    \/ \E name \in DOMAIN files : CleanTemp(name)

Spec == Init /\ [][Next]_vars
-----------------------------------------------------------------------------
(* Properties.                                                             *)

\* streamQuery puts together a prefix of its own result and nothing else, and
\* all of it when it ends well, spilled or not, whatever the sizes of chunks
\* and buffers are and whatever happens to the file meanwhile.
ResultIsOwn ==
    \A s \in Streams :
        read[s] # None /\ ~read[s].decoder =>
            /\ IsPrefix(read[s].bytes, made[s])
            /\ told[s] = "End" => read[s].bytes = made[s]

\* streamQueryMulti yields the items of the statement in order, each as soon as
\* its last byte is there, however the frames are cut into chunks, and is never
\* left with a part of a frame at the end; a stream that nobody cancelled does
\* not end well before its last item.
ItemsAsTheyArrive ==
    /\ [](\A s \in Streams :
             read[s] # None /\ read[s].decoder =>
                 LET n == Len(read[s].items) IN
                 /\ IsPrefix(read[s].items, made[s])
                 /\ read[s].bytes # <<>> =>
                       n < Len(made[s]) /\ IsStrictPrefix(read[s].bytes, Frame(made[s][n + 1]))
                 /\ told[s] # "Malformed")
    /\ [][\A s \in Streams :
             (/\ table[s] # None /\ table[s].kind = "Multi" /\ ~table[s].cancel
              /\ told'[s] = "End")
             => read'[s].items = made[s]]_vars

\* A spilled result is on disk only as long as its stream is open (the M4 fix),
\* however the stream ends: at its last chunk, by a failed fetch, a close or a
\* disconnect.  What stays is what a spill leaves that failed before its path was
\* stored, and what the system refused to remove.
NoOrphanFiles ==
    \A name \in DOMAIN files \ stranded :
        \E s \in Streams :
            table[s] # None /\ table[s].kind = "FileBacked" /\ table[s].path = name
=============================================================================
