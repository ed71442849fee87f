----------------------------- MODULE Execution ------------------------------
(***************************************************************************)
(* One call of the execution engine, from the parameter buffer the client  *)
(* serialised to the result it decodes: QueryPipeline and ExecutionEngine  *)
(* (plain, cached, parameterised, directed, Oracle ref-cursor, multi-result*)
(* and batch execution) and the driver statement they drive.  The driver is*)
(* external: a statement is a script of results (cursors and row counts)   *)
(* walked with SQLMoreResults, and values for its output parameters, which *)
(* a deferring driver writes only when the last result has been passed.    *)
(* Statement caches and metrics change nothing in an answer and are left   *)
(* out.                                                                    *)
(***************************************************************************)
EXTENDS WireFormat, FiniteSets

CONSTANTS
    Engines,        \* engine configurations: [columnar, compression]
    Plugins,        \* plugins a connection string may select
    Calls,          \* calls a client may make: [path, sql, params, sets]
    Scripts,        \* what the driver may produce: [results, text, deferred]
    Faults,         \* driver calls that may fail
    Limiting,       \* plugins whose optimize_query adds a row limit
    RowLimit,       \* that limit (1000)
    MaxPositional,  \* positional parameters an execution takes (5)
    MaxOutText      \* OUT_TEXT_MAX_CODE_UNITS

VARIABLES
    engine,    \* the configuration and the active plugin
    pc,        \* where the call is
    call,      \* the call, its script and what the driver received
    at,        \* the result the statement is positioned on
    items,     \* results collected so far
    buffer,    \* the buffer the engine returned
    answer     \* what the client decoded

vars == <<engine, pc, call, at, items, buffer, answer>>

NoCall == [path |-> "none"]

-----------------------------------------------------------------------------
(* The client's parameters: [dir, kind, v].                                 *)

ClientValue(p) ==
    CASE p.kind = "null" -> Param(TagNull, <<>>)
      [] p.kind = "int" -> Param(TagInteger, ToLE(p.v, I32Len))
      [] p.kind = "big" -> Param(TagBigInt, ToLE(p.v, I64Len))
      [] p.kind = "text" -> Param(TagString, p.v)
      [] p.kind = "decimal" -> Param(TagDecimal, p.v)
      [] p.kind = "bin" -> Param(TagBinary, p.v)
      [] p.kind = "ref" -> Param(TagRefCursor, <<>>)

ClientBuffer(params, directed) ==
    IF directed
    THEN SerializeDirected([i \in 1..Len(params) |-> [dir |-> params[i].dir,
                                                      value |-> ClientValue(params[i])]])
    ELSE SerializeParams([i \in 1..Len(params) |-> ClientValue(params[i])])

-----------------------------------------------------------------------------
(* Binding.                                                                 *)

IsRef(b) == b.value.tag = TagRefCursor
HasRefCursor(bound) == \E i \in 1..Len(bound) : IsRef(bound[i])
NonRef(bound) == SelectSeq(bound, LAMBDA b : ~IsRef(b))

\* param_values_to_strings: what an input parameter is bound as.
AsText(value) ==
    CASE value.tag = TagNull -> Null
      [] value.tag \in {TagInteger, TagBigInt} -> <<"int", FromLE(value.payload)>>
      [] value.tag = TagBinary -> <<"hex", value.payload>>
      [] OTHER -> <<"text", value.payload>>

\* bound_to_slots refuses what has no bind storage.
Bindable(b) ==
    LET tag == b.value.tag
        size == Len(b.value.payload)
    IN  /\ tag # TagRefCursor
        /\ b.dir # 0 => tag # TagBinary
        /\ b.dir # 0 /\ tag = TagDecimal => size > 0
        /\ b.dir = 2 => tag # TagNull
        /\ b.dir = 2 /\ tag \in {TagString, TagDecimal} => size <= MaxOutText

\* The bind buffer of an output slot before the driver writes it: OUT integers
\* start as NULL, OUT text as a zeroed shell, INOUT as the value passed in.
InitialOut(b) ==
    CASE b.dir = 2 /\ b.value.tag \in {TagInteger, TagBigInt} -> b.value
      [] b.dir = 2 -> Param(TagString, b.value.payload)
      [] b.value.tag \in {TagString, TagDecimal} -> Param(TagString, <<0>>)
      [] OTHER -> Param(TagNull, <<>>)

\* The value the statement assigns to it.
FinalOut(b, text) ==
    CASE b.value.tag = TagBigInt -> Param(TagBigInt, ToLE(-2, I64Len))
      [] b.value.tag \in {TagString, TagDecimal} -> Param(TagString, text)
      [] OTHER -> Param(TagInteger, ToLE(300, I32Len))

\* What fits in its bind buffer; textbox_to_output_param does not ask whether
\* the driver had more.
InBuffer(value) ==
    IF value.tag = TagString
    THEN [value EXCEPT !.payload = SubSeq(@, 1, Min({Len(@), MaxOutText}))] ELSE value

\* A bug for comparison: an INOUT parameter is not read back.
OutSlotsOnly(bound) == SelectSeq(bound, LAMBDA b : b.dir = 1)

OutSlots(bound) == SelectSeq(bound, LAMBDA b : b.dir # 0)

\* output_footer_values: one value per OUT or INOUT slot, in `?` order.
OutputFooterValues(bound, written) ==
    LET out == OutSlots(bound)
    IN  [i \in 1..Len(out) |-> IF written THEN InBuffer(FinalOut(out[i], call.script.text)) ELSE InitialOut(out[i])]

\* strip_ref_cursor_placeholders.  A SQL text is a sequence of "?", ",", " ".
Placeholders(sql) == SelectSeq([i \in 1..Len(sql) |-> i], LAMBDA i : sql[i] = "?")

\* A bug for comparison: the markers stay in the SQL.
StripStepKeeping(sql, bound, s) ==
    LET pos == Placeholders(sql)[s.i]
    IN  [i |-> s.i + 1, rest |-> pos + 1, out |-> s.out \o Slice(sql, s.rest, pos + 1 - s.rest)]

StripStep(sql, bound, s) ==
    LET i == s.i
        pos == Placeholders(sql)[i]
        gap == Slice(sql, s.rest, pos - s.rest)
        ref == IsRef(bound[i])
        comma == ref /\ gap # <<>> /\ gap[Len(gap)] = ","
        skip == ref /\ pos < Len(sql) /\ sql[pos + 1] = ","
    IN  [i |-> i + 1,
         rest |-> IF skip THEN pos + 2 ELSE pos + 1,
         out |-> s.out \o (IF comma THEN Slice(gap, 1, Len(gap) - 1) ELSE gap)
                       \o (IF ref THEN <<>> ELSE <<"?">>)]

StripRefCursors(sql, bound) ==
    LET upTo[i \in 0..Len(bound)] ==
          IF i = 0 THEN [i |-> 1, rest |-> 1, out |-> <<>>] ELSE StripStep(sql, bound, upTo[i - 1])
        end == upTo[Len(bound)]
    IN  end.out \o SubSeq(sql, end.rest, Len(sql))

\* The server's grammar: an argument list is `?` separated by single commas.
Spelled(sql) == SelectSeq(sql, LAMBDA c : c # " ")
WellFormed(sql) ==
    LET s == Spelled(sql)
    IN  /\ \A i \in 1..Len(s) : s[i] = (IF i % 2 = 1 THEN "?" ELSE ",")
        /\ s # <<>> => s[Len(s)] = "?"

-----------------------------------------------------------------------------
(* Reading a cursor: from_odbc_sql_type or the plugin's map_type, then      *)
(* CellReader for every cell.                                               *)

FromSqlType(code) ==
    CASE code = 4 -> Integer [] code = -5 -> BigInt [] code = -2 -> Binary [] OTHER -> Varchar

ReadCursor(r) ==
    LET types == [c \in 1..Len(r.columns) |-> FromSqlType(r.columns[c].code)]
    IN  [columns |-> [c \in 1..Len(types) |-> [name |-> r.columns[c].name, type |-> types[c]]],
         rows |-> [i \in 1..Len(r.rows) |->
                      [c \in 1..Len(types) |-> ReadCell(r.rows[i][c], types[c])]]]

EncodeBuffer(rows) ==
    IF engine.columnar THEN EncodeV2(rows, engine.compression) ELSE EncodeV1(rows)

EncodeCursor(r) == EncodeBuffer(CoalesceForJson(ReadCursor(r)))
EncodeCursorV1(r) == EncodeV1(CoalesceForJson(ReadCursor(r)))

\* execute_stmt_to_buffer, the cached connection's path: row-major, not coalesced.
EncodeCached(r) == EncodeV1(ReadCursor(r))
-----------------------------------------------------------------------------
Result == call.script.results[at]
IsCursor == Result.kind = "cursor"
MultiPaths == {"multi", "multi_params", "directed", "ref"}

\* An error inside the engine: the client gets no buffer.
Fail ==
    /\ pc' = "answered"
    /\ answer' = NoAnswer
    /\ UNCHANGED <<engine, call, at, items, buffer>>

Deliver(bytes) ==
    /\ pc' = "answered"
    /\ buffer' = bytes
    /\ answer' = ParseBuffer(bytes)
    /\ UNCHANGED <<engine, call, at, items>>

\* ExecutionEngine::set_connection_string selects the plugin of a connection.
\* Rust callers of the crate do that; no exported function does, and with the
\* engine of query.rs no plugin is ever active.
SetConnectionString(p) ==
    /\ pc = "idle"
    /\ engine' = [engine EXCEPT !.plugin = p]
    /\ UNCHANGED <<pc, call, at, items, buffer, answer>>

\* A client calls; the driver will produce script s.
Submit(c, s) ==
    /\ pc = "idle"
    /\ c.sets <= Len(s.results)
    /\ call' = [path |-> c.path, sql |-> c.sql, params |-> c.params, sets |-> c.sets,
                wire |-> ClientBuffer(c.params, c.path = "directed"),
                script |-> s, bound |-> <<>>, inputs |-> <<>>, sent |-> <<>>]
    /\ pc' = "bind"
    /\ UNCHANGED <<engine, at, items, buffer, answer>>

\* parse_sql and deserialize_param_buffer refuse a call before the engine sees it.
Rejected == call.sql.text = "" \/ ~DeserializeParamBuffer(call.wire).ok

Reject ==
    /\ pc = "bind"
    /\ Rejected
    /\ pc' = "answered"
    /\ answer' = NoAnswer
    /\ UNCHANGED <<engine, call, at, items, buffer>>

\* dispatch_param_buffer: a directed list of inputs only is a legacy list; a
\* list with a ref-cursor marker takes the Oracle path.
Route(bound) ==
    IF call.path # "directed" THEN call.path
    ELSE IF \A i \in 1..Len(bound) : bound[i].dir = 0 THEN "params"
    ELSE IF HasRefCursor(bound) THEN "ref"
    ELSE "directed"

\* The positional paths pass at most five parameters, as text.
PositionalLimit(bound) == Len(bound) <= MaxPositional /\ ~HasRefCursor(bound)

\* What each route requires of the parameters before it touches the driver.
Accepts(route, bound) ==
    CASE route = "ref" -> /\ engine.plugin = "oracle"
                          /\ Len(Placeholders(call.sql.args)) = Len(bound)
                          /\ \A i \in 1..Len(bound) : IsRef(bound[i]) => bound[i].dir # 0
                          /\ \A i \in 1..Len(bound) : ~IsRef(bound[i]) => Bindable(bound[i])
      [] route = "directed" -> \A i \in 1..Len(bound) : Bindable(bound[i])
      [] OTHER -> PositionalLimit(bound)

\* A bug for comparison: the ref-cursor markers stay in the list.
BoundParamsAll(route, bound) == bound

BoundParams(route, bound) == IF route = "ref" THEN NonRef(bound) ELSE bound

Bind ==
    LET bound == DeserializeParamBuffer(call.wire).out
        route == Route(bound)
        kept == BoundParams(route, bound)
        inputs == [i \in 1..Len(kept) |-> IF kept[i].dir = 1 THEN Null ELSE AsText(kept[i].value)]
    IN  /\ pc = "bind"
        /\ ~Rejected
        /\ \/ /\ ~Accepts(route, bound)
              /\ Fail
           \/ /\ Accepts(route, bound)
              /\ pc' = "run"
              /\ call' = [call EXCEPT !.path = route, !.bound = bound, !.inputs = inputs]
              /\ UNCHANGED <<engine, at, items, buffer, answer>>

\* plugin.optimize_query may put a row limit on a plain query: one of its
\* cursors then has no more rows than that.  What the text must look like for it
\* is left open.
OptimizeQuery(script) ==
    {script} \cup
    (IF call.path \in {"direct", "cached"} /\ engine.plugin \in Limiting
     THEN {[script EXCEPT !.results[i].rows = SubSeq(@, 1, RowLimit)] :
              i \in {j \in 1..Len(script.results) : script.results[j].kind = "cursor"
                                                    /\ Len(script.results[j].rows) > RowLimit}}
     ELSE {})

\* What the driver is asked to run.
Prepare ==
    /\ pc = "run"
    /\ \E s \in OptimizeQuery(call.script) :
          call' = [call EXCEPT !.script = s,
                               !.sent = IF call.path = "ref" THEN StripRefCursors(call.sql.args, call.bound)
                                        ELSE call.sql.args]
    /\ pc' = "execute"
    /\ UNCHANGED <<engine, at, items, buffer, answer>>

SqlIsValid == WellFormed(call.sent)

\* prepare and execute; a malformed ref-cursor call is a syntax error.
Execute ==
    /\ pc = "execute"
    /\ \/ /\ "execute" \in Faults \/ ~SqlIsValid
          /\ call.path # "batch"
          /\ Fail
       \/ /\ SqlIsValid
          /\ at' = 1
          /\ pc' = "read"
          /\ UNCHANGED <<engine, call, items, buffer, answer>>

\* The single-result paths read the first cursor, if there is one, and drop
\* the statement: SQLCloseCursor discards the results that follow.
ReadSingle ==
    LET body == IF call.path = "cached" THEN EncodeCached(Result) ELSE EncodeCursor(Result)
    IN  /\ pc = "read"
        /\ call.path \in {"direct", "cached", "params"}
        /\ \/ "fetch" \in Faults /\ IsCursor /\ Fail
           \/ Deliver(IF IsCursor THEN body
                      ELSE IF call.path = "cached" THEN EncodeV1(EmptyBuffer)
                      ELSE EncodeBuffer(EmptyBuffer))

\* execute_batch_optimized: one execution per parameter set, a row count as a
\* MULT envelope and a cursor as a row-major buffer; an error loses them all.
ReadBatch ==
    LET body == IF IsCursor THEN EncodeCursorV1(Result) ELSE EncodeMulti(<<RowCountItem(Result.n)>>)
        bodies == Append(items, body)
    IN  /\ pc = "read"
        /\ call.path = "batch"
        /\ \/ /\ Faults # {}
              /\ pc' = "answered"
              /\ UNCHANGED <<at, items, answer>>
           \/ /\ at < call.sets
              /\ at' = at + 1
              /\ items' = bodies
              /\ UNCHANGED <<pc, answer>>
           \/ /\ at = call.sets
              /\ items' = bodies
              /\ answer' = [NoAnswer EXCEPT !.ok = TRUE,
                                            !.items = [i \in 1..at |-> ParseBuffer(bodies[i]).items[1]]]
              /\ pc' = "answered"
              /\ UNCHANGED at
        /\ UNCHANGED <<engine, call, buffer>>

\* A bug for comparison: row counts between cursors are dropped.
CollectedCursors ==
    IF ~IsCursor THEN <<>>
    ELSE IF call.path = "ref" THEN <<EncodeCursorV1(Result)>> ELSE <<ResultSetItem(EncodeCursor(Result))>>

\* The multi-result paths collect the result the statement is positioned on;
\* the ref-cursor path skips row counts.
Collected ==
    IF call.path = "ref"
    THEN IF IsCursor THEN <<EncodeCursorV1(Result)>> ELSE <<>>
    ELSE IF IsCursor THEN <<ResultSetItem(EncodeCursor(Result))>> ELSE <<RowCountItem(Result.n)>>

ReadOne ==
    /\ pc = "read"
    /\ call.path \in MultiPaths
    /\ \/ "fetch" \in Faults /\ IsCursor /\ Fail
       \/ /\ items' = items \o Collected
          /\ pc' = "more"
          /\ UNCHANGED <<engine, call, at, buffer, answer>>

\* SQLMoreResults: the next result, no data, or an error.
MoreResults ==
    /\ pc = "more"
    /\ \/ "more" \in Faults /\ Fail
       \/ /\ at < Len(call.script.results)
          /\ at' = at + 1
          /\ pc' = "read"
          /\ UNCHANGED <<engine, call, items, buffer, answer>>
       \/ /\ at = Len(call.script.results)
          /\ at' = at + 1
          /\ pc' = "encode"
          /\ UNCHANGED <<engine, call, items, buffer, answer>>

\* The driver has written the output buffers.
Written == ~call.script.deferred \/ at > Len(call.script.results)

\* A bug for comparison: any cursor will do.
CursorsMatchSome == items # <<>>

RefMarkers == Cardinality({i \in 1..Len(call.bound) : IsRef(call.bound[i])})
CursorsMatch == Len(items) = RefMarkers

\* The directed path keeps the single-result format when nothing was drained.
DirectedBody ==
    LET first == call.script.results[1]
    IN  IF Len(items) > 1 THEN EncodeMulti(items)
        ELSE IF first.kind = "cursor" THEN EncodeCursor(first)
        ELSE EncodeBuffer(EmptyBuffer)

EncodeResult ==
    LET outs == OutputFooterValues(BoundParams(call.path, call.bound), Written)
    IN  /\ pc = "encode"
        /\ \/ /\ call.path = "ref" /\ ~CursorsMatch
              /\ Fail
           \/ /\ call.path = "ref" => CursorsMatch
              /\ Deliver(CASE call.path = "directed" -> AppendOutputFooter(DirectedBody, outs)
                           [] call.path = "ref" ->
                                AppendRefCursorFooter(
                                    AppendOutputFooter(EncodeBuffer(EmptyBuffer), outs), items)
                           [] OTHER -> EncodeMulti(items))

\* The client has its answer; the connection is free for the next call.
Return ==
    /\ pc = "answered"
    /\ pc' = "idle"
    /\ call' = NoCall
    /\ at' = 0
    /\ items' = <<>>
    /\ buffer' = <<>>
    /\ answer' = NoAnswer
    /\ UNCHANGED engine

Init ==
    /\ engine \in {[columnar |-> e.columnar, compression |-> e.compression,
                    plugin |-> None] : e \in Engines}
    /\ pc = "idle"
    /\ call = NoCall
    /\ at = 0
    /\ items = <<>>
    /\ buffer = <<>>
    /\ answer = NoAnswer

Next ==
    \/ \E p \in Plugins : SetConnectionString(p)
    \/ pc = "idle" /\ \E c \in Calls, s \in Scripts : Submit(c, s)
    \/ Reject
    \/ Bind
    \/ Prepare
    \/ Execute
    \/ ReadSingle
    \/ ReadBatch
    \/ ReadOne
    \/ MoreResults
    \/ EncodeResult
    \/ Return

Spec == Init /\ [][Next]_vars

-----------------------------------------------------------------------------
Answered == pc = "answered" /\ answer.ok

Types(r) == [c \in 1..Len(r.columns) |-> FromSqlType(r.columns[c].code)]

\* An integer of the column's width, or a cell that is not of an integer column.
Readable(cell, type) ==
    /\ cell # None /\ type = Integer => Parses(cell, I32Len)
    /\ cell # None /\ type = BigInt => Parses(cell, I64Len)

\* The value of a cell, from the driver's point of view.
Value(cell, type) ==
    CASE cell = None -> Null
      [] type \in {Integer, BigInt} -> <<"int", Decimal(cell)>>
      [] type = Binary -> <<"bytes", cell>>
      [] OTHER -> <<"text", cell>>

\* A FOR JSON cursor is one document, however many rows carry it.
IsJson(r) == r.kind = "cursor" /\ Len(r.columns) = 1 /\ r.columns[1].name = <<Json>>
Document(r) ==
    ResultSet(<<[type |-> Json, name |-> <<Json>>]>>,
              << << <<"text", FlattenSeq([i \in 1..Len(r.rows) |-> r.rows[i][1]])>> >> >>)

\* What the client decoded as a table is what the cursor r held.
SameTable(table, r) ==
    IF IsJson(r) /\ r.rows # <<>> THEN table = Document(r)
    ELSE /\ table.columns = [c \in 1..Len(r.columns) |->
                                [type |-> Types(r)[c], name |-> r.columns[c].name]]
         /\ Len(table.rows) = Len(r.rows)
         /\ \A i \in 1..Len(r.rows), c \in 1..Len(r.columns) :
               Readable(r.rows[i][c], Types(r)[c]) =>
                   table.rows[i][c] = Value(r.rows[i][c], Types(r)[c])

Same(item, r) ==
    CASE r.kind = "count" -> item = <<"count", r.n>>
      [] r.kind = "none" -> item = <<"rows", ResultSet(<<>>, <<>>)>>
      [] OTHER -> item[1] = "rows" /\ SameTable(item[2], r)

NoRows == [kind |-> "none"]

\* A path that promises one result set gives the first result, and no rows if
\* that is a row count; the others give every result in order.
Promised ==
    LET all == call.script.results
        first == IF all[1].kind = "cursor" THEN all[1] ELSE NoRows
    IN  CASE call.path \in {"direct", "cached", "params"} -> <<first>>
          [] call.path = "directed" /\ Len(all) = 1 -> <<first>>
          [] call.path = "ref" -> <<NoRows>>
          [] call.path = "batch" -> SubSeq(all, 1, call.sets)
          [] OTHER -> all

\* The client decodes exactly what the driver produced, in the driver's order:
\* every row, NULL, text, row count and integer of its column's width, whatever
\* the engine's encoding (row-major, columnar, compressed) and the envelope; the
\* output parameters as the statement left them after its last result, one per
\* OUT or INOUT, in `?` order, texts up to the bind buffer's size; and for every
\* SYS_REFCURSOR marker the rows of the cursor opened for it, row counts in
\* between or not.  The cached path's FOR JSON results are the subject of
\* JsonIsWhole, integers that do not fit of NoInventedIntegers, longer output
\* texts of OutputsAreWhole.
AnswerIsWhole ==
    LET cursors == SelectSeq(call.script.results, LAMBDA r : r.kind = "cursor")
        outs == SelectSeq(call.params, LAMBDA p : p.dir # 0 /\ p.kind # "ref")
        markers == SelectSeq(call.params, LAMBDA p : p.kind = "ref")
    IN  Answered =>
          /\ Len(answer.items) = Len(Promised)
          /\ ~(call.path = "cached" /\ IsJson(call.script.results[1])) =>
                \A i \in 1..Len(Promised) : Same(answer.items[i], Promised[i])
          /\ call.path \in {"directed", "ref"} =>
                /\ Len(answer.outs) = Len(outs)
                /\ \A i \in 1..Len(outs) :
                      LET final == FinalOut([value |-> ClientValue(outs[i])], call.script.text)
                      IN  /\ answer.outs[i].tag = final.tag
                          /\ IsPrefix(answer.outs[i].payload, final.payload)
                          /\ Len(final.payload) <= MaxOutText \/ final.tag # TagString
                                => answer.outs[i] = final
          /\ call.path = "ref" =>
                /\ Len(cursors) = Len(markers)
                /\ Len(answer.refs) = Len(cursors)
                /\ \A i \in 1..Len(cursors) : SameTable(answer.refs[i], cursors[i])

\* `Apply this helper ... in every code path that returns a complete result
\* set in one shot`: a FOR JSON document reaches the client in one piece.  The
\* cached path does not do that.
JsonIsWhole ==
    Answered /\ IsJson(call.script.results[1]) /\ call.path # "ref" => Same(answer.items[1], Promised[1])

\* TYPE_MAPPING.md, `integer`: "4 bytes little-endian".  What the client takes
\* for an integer is the one the driver had.  A cell that does not fit, such as
\* an INT UNSIGNED of MySQL, is sent as its text, and its first four bytes are
\* read as a number.
NoInventedIntegers ==
    Answered /\ call.path \in {"direct", "cached", "params"} /\ Promised[1].kind = "cursor" =>
        LET r == Promised[1]
        IN  ~IsJson(r) => \A i \in 1..Len(r.rows), c \in 1..Len(r.columns) :
                LET got == answer.items[1][2].rows[i][c]
                IN  got[1] = "int" => Readable(r.rows[i][c], Types(r)[c])

\* An output text reaches the client whole or not at all, as for INOUT inputs
\* ("inout_string_too_long").  One that is longer than the bind buffer is cut.
OutputsAreWhole ==
    Answered => \A i \in 1..Len(answer.outs) :
        answer.outs[i].tag = TagString => answer.outs[i].payload = call.script.text

\* What the driver should be given for p: NULL stands for an output.
Given(p) ==
    IF p.dir = 1 THEN Null
    ELSE CASE p.kind = "null" -> Null
           [] p.kind \in {"int", "big"} -> <<"int", p.v>>
           [] p.kind = "bin" -> <<"hex", p.v>>
           [] OTHER -> <<"text", p.v>>

\* The driver receives each input in the place and with the value the client
\* gave it, after the two wire formats, the removal of ref-cursor markers from
\* the list and from the SQL, and the conversion to text.
InputsArrive ==
    pc \in {"read", "more", "encode"} =>
        LET kept == SelectSeq(call.params, LAMBDA p : p.kind # "ref")
        IN  /\ call.inputs = [i \in 1..Len(kept) |-> Given(kept[i])]
            /\ call.sent # <<>> => Len(Placeholders(call.sent)) = Len(call.inputs)

\* A buffer cut short is never taken for a complete result, neither by the
\* client (parseWithOutputs, MultiResultParser) nor by the engine's decoders
\* (BinaryProtocolDecoder::parse, decode_multi).  A directed answer is not
\* covered: without its footer it is a well-formed answer with no outputs.
TruncationDetected ==
    Answered /\ call.path \in {"direct", "cached", "params", "multi", "multi_params"} =>
        \A n \in 1..Len(buffer) - 1 :
            LET cut == SubSeq(buffer, 1, n)
            IN  ~ParseBuffer(cut).ok /\ ~StrictParseV1(cut).ok /\ ~DecodeMulti(cut).ok
=============================================================================
