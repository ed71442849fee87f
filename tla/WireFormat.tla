----------------------------- MODULE WireFormat -----------------------------
(***************************************************************************)
(* The binary protocol between the Rust engine and the Dart client:        *)
(* result sets (row-major v1, columnar v2), the MULT envelope of           *)
(* multi-result batches, the OUT1 and RC1 footers, and the two parameter   *)
(* buffers of a request (legacy and DRT1).  A buffer is a sequence of      *)
(* units: a fixed-width header field (magic, count, length, tag) is one    *)
(* unit, and payload bytes are one unit each.  Lengths count units, so     *)
(* every offset computation of the code is kept.                           *)
(***************************************************************************)
EXTENDS Integers, Sequences, SequencesExt

CONSTANTS
    None,            \* a NULL cell, and the absence of a value
    I32Len, I64Len,  \* payload units of an i32 and of an i64 (4 and 8 bytes)
    CompressAbove,   \* a column larger than this is compressed (100 bytes)
    MaxParamPayload  \* MAX_PARAM_VALUE_PAYLOAD_LEN

ASSUME WidthAssumption == I32Len \in Nat \ {0} /\ I64Len \in Nat \ {0} /\ I32Len < I64Len

\* Magic words.  They are units a payload may contain as well.
ODBC == 71
MULT == 72
OUT1 == 73
RC1  == 74
DRT1 == 75

\* OdbcType discriminants the formats tell apart.
Varchar == 1
Integer == 2
BigInt  == 3
Binary  == 7
Json    == 16

Bad == [ok |-> FALSE, at |-> 0, out |-> <<>>]
Good(at, out) == [ok |-> TRUE, at |-> at, out |-> out]

\* The buffer b holds n units from position at on.
Has(b, at, n) == at + n <= Len(b) + 1
Slice(b, at, n) == SubSeq(b, at, at + n - 1)

-----------------------------------------------------------------------------
(* Little-endian integers: i32/i64::to_le_bytes and from_le_bytes.          *)

Pow256[n \in Nat] == IF n = 0 THEN 1 ELSE 256 * Pow256[n - 1]

ToLE(v, width) ==
    LET u == IF v < 0 THEN v + Pow256[width] ELSE v
    IN  [i \in 1..width |-> (u \div Pow256[i - 1]) % 256]

FromLE(bytes) ==
    LET u == FoldLeft(LAMBDA acc, i : acc + bytes[i] * Pow256[i - 1], 0,
                      [i \in 1..Len(bytes) |-> i])
    IN  IF 2 * u >= Pow256[Len(bytes)] THEN u - Pow256[Len(bytes)] ELSE u

\* str::trim and str::parse::<i32>: blanks around, a sign, decimal digits, and a
\* value that fits in width bytes.
Digits == 0..9
Space == 32
Plus  == 43
Minus == 45

Trim(text) ==
    LET kept == {i \in 1..Len(text) : text[i] # Space}
    IN  IF kept = {} THEN <<>> ELSE SubSeq(text, Min(kept), Max(kept))

Unsigned(text) == IF text # <<>> /\ text[1] \in {Plus, Minus} THEN Tail(text) ELSE text

Decimal(text) ==
    LET digits == Unsigned(Trim(text))
        value == FoldLeft(LAMBDA acc, d : 10 * acc + d, 0, digits)
    IN  IF Trim(text)[1] = Minus THEN -value ELSE value

Parses(text, width) ==
    LET digits == Unsigned(Trim(text))
    IN  /\ digits # <<>>
        /\ \A i \in 1..Len(digits) : digits[i] \in Digits
        /\ -Pow256[width] <= 2 * Decimal(text) /\ 2 * Decimal(text) < Pow256[width]

-----------------------------------------------------------------------------
(* Row buffers.  A buffer is [columns, rows]; a column is [name, type] and  *)
(* a cell is None or a sequence of bytes.                                   *)

EmptyBuffer == [columns |-> <<>>, rows |-> <<>>]

\* CellReader::read_cell_bytes: an integer column is read as text and sent as
\* little-endian bytes when the text parses, as the text's bytes otherwise.
ReadCell(cell, type) ==
    CASE cell = None -> None
      [] type = Integer /\ Parses(cell, I32Len) -> ToLE(Decimal(cell), I32Len)
      [] type = BigInt /\ Parses(cell, I64Len) -> ToLE(Decimal(cell), I64Len)
      [] OTHER -> cell

\* coalesce_for_json_rows: the chunk rows of FOR JSON become one row.
IsForJson(buffer) == Len(buffer.columns) = 1 /\ buffer.columns[1].name = <<Json>>

CoalesceForJson(buffer) ==
    LET chunks == SelectSeq([i \in 1..Len(buffer.rows) |-> buffer.rows[i][1]],
                            LAMBDA c : c # None)
    IN  IF ~IsForJson(buffer) \/ buffer.rows = <<>> THEN buffer
        ELSE [columns |-> <<[buffer.columns[1] EXCEPT !.type = Json]>>,
              rows |-> << << IF chunks = <<>> THEN None ELSE FlattenSeq(chunks) >> >>]

ColumnMeta(col) == <<col.type, Len(col.name)>> \o col.name
CellUnits(cell) == IF cell = None THEN <<1>> ELSE <<0, Len(cell)>> \o cell

EncodeV1(buffer) ==
    LET meta == FlattenSeq([c \in 1..Len(buffer.columns) |-> ColumnMeta(buffer.columns[c])])
        cells == FlattenSeq([r \in 1..Len(buffer.rows) |->
                    FlattenSeq([c \in 1..Len(buffer.columns) |-> CellUnits(buffer.rows[r][c])])])
    IN  <<ODBC, 1, Len(buffer.columns), Len(buffer.rows), Len(meta) + Len(cells)>>
            \o meta \o cells

\* row_buffer_to_columnar: an integer cell that is not exactly as wide as its
\* type becomes NULL.
FixedCell(cell, width) == IF cell # None /\ Len(cell) = width THEN cell ELSE None

ColumnarCell(cell, type) ==
    CASE type = Integer -> LET c == FixedCell(cell, I32Len) IN IF c = None THEN <<1>> ELSE <<0>> \o c
      [] type = BigInt -> LET c == FixedCell(cell, I64Len) IN IF c = None THEN <<1>> ELSE <<0>> \o c
      [] OTHER -> CellUnits(cell)

\* zstd, an external library: one unit stands for the compressed column.
Compress(raw) == <<raw>>
Decompress(blob) == blob[1]
Zstd == 1

EncodeColumn(buffer, c, compression) ==
    LET col == buffer.columns[c]
        raw == FlattenSeq([r \in 1..Len(buffer.rows) |-> ColumnarCell(buffer.rows[r][c], col.type)])
        small == Compress(raw)
    IN  ColumnMeta(col) \o
        IF compression /\ Len(raw) > CompressAbove /\ Len(small) < Len(raw)
        THEN <<1, Zstd, Len(small)>> \o small
        ELSE <<0, Len(raw)>> \o raw

EncodeV2(buffer, compression) ==
    LET payload == FlattenSeq([c \in 1..Len(buffer.columns) |-> EncodeColumn(buffer, c, compression)])
        rows == Len(buffer.rows)
    IN  <<ODBC, 2, 0, Len(buffer.columns), rows, IF compression THEN 1 ELSE 0, Len(payload)>>
            \o payload

-----------------------------------------------------------------------------
(* Decoding result sets.  A decoded cell is a tagged value, so that an      *)
(* integer and a text never compare equal.                                  *)

Null == <<"null">>

\* BinaryProtocolParser._convertData
ConvertData(bytes, type) ==
    CASE type = Binary -> <<"bytes", bytes>>
      [] type = Integer /\ Len(bytes) >= I32Len -> <<"int", FromLE(Slice(bytes, 1, I32Len))>>
      [] type = BigInt /\ Len(bytes) >= I64Len -> <<"int", FromLE(Slice(bytes, 1, I64Len))>>
      [] OTHER -> <<"text", bytes>>

ReadColumns(b, start, n) ==
    LET step(p) ==
          IF ~p.ok \/ ~Has(b, p.at, 2) \/ ~Has(b, p.at + 2, b[p.at + 1]) THEN Bad
          ELSE Good(p.at + 2 + b[p.at + 1],
                    Append(p.out, [type |-> b[p.at], name |-> Slice(b, p.at + 2, b[p.at + 1])]))
        upTo[i \in 0..n] == IF i = 0 THEN Good(start, <<>>) ELSE step(upTo[i - 1])
    IN  upTo[n]

\* One cell in the varlen form: null flag, length, bytes.
ReadVarCell(b, p, type) ==
    IF ~p.ok \/ ~Has(b, p.at, 1) THEN Bad
    ELSE IF b[p.at] = 1 THEN Good(p.at + 1, Append(p.out, Null))
    ELSE IF ~Has(b, p.at, 2) \/ ~Has(b, p.at + 2, b[p.at + 1]) THEN Bad
    ELSE Good(p.at + 2 + b[p.at + 1],
              Append(p.out, ConvertData(Slice(b, p.at + 2, b[p.at + 1]), type)))

\* One integer cell of a columnar block: null flag, fixed-width value.
ReadFixedCell(b, p, width) ==
    IF ~p.ok \/ ~Has(b, p.at, 1) THEN Bad
    ELSE IF b[p.at] = 1 THEN Good(p.at + 1, Append(p.out, Null))
    ELSE IF ~Has(b, p.at + 1, width) THEN Bad
    ELSE Good(p.at + 1 + width, Append(p.out, <<"int", FromLE(Slice(b, p.at + 1, width))>>))

ReadCells(b, start, types) ==
    LET upTo[i \in 0..Len(types)] ==
          IF i = 0 THEN Good(start, <<>>) ELSE ReadVarCell(b, upTo[i - 1], types[i])
    IN  upTo[Len(types)]

Rows(cells, rows, cols) == [r \in 1..rows |-> Slice(cells, (r - 1) * cols + 1, cols)]

ResultSet(columns, rows) == [columns |-> columns, rows |-> rows]

\* _parseRowMajorV1: the rows of a row-major message.
ParseV1(b) ==
    IF ~Has(b, 1, 5) \/ b[1] # ODBC \/ b[2] # 1 THEN Bad
    ELSE LET n == b[3]
             types(cols) == [i \in 1..n * b[4] |-> cols[((i - 1) % n) + 1].type]
             table(cols, cells) ==
               IF ~cells.ok THEN Bad
               ELSE Good(cells.at, ResultSet(cols.out, Rows(cells.out, b[4], n)))
             body(cols) ==
               IF ~cols.ok THEN Bad ELSE table(cols, ReadCells(b, cols.at, types(cols.out)))
         IN  body(ReadColumns(b, 6, n))

\* BinaryProtocolDecoder::parse also requires the declared size, and no
\* trailing units.
StrictParseV1(b) ==
    LET whole(p) == IF p.ok /\ b[5] + 5 = Len(b) /\ p.at = Len(b) + 1 THEN p ELSE Bad
    IN  whole(ParseV1(b))

ParseColumnRaw(raw, type, rows) ==
    LET cell(p) == CASE type = Integer -> ReadFixedCell(raw, p, I32Len)
                     [] type = BigInt -> ReadFixedCell(raw, p, I64Len)
                     [] OTHER -> ReadVarCell(raw, p, type)
        upTo[i \in 0..rows] == IF i = 0 THEN Good(1, <<>>) ELSE cell(upTo[i - 1])
        whole(p) == IF p.ok /\ p.at = Len(raw) + 1 THEN p ELSE Bad
    IN  whole(upTo[rows])

\* One column block: metadata, compression flag, data.
ReadBlock(b, p, rows) ==
    LET head(at) == IF b[at] = 0 THEN 2 ELSE 3
        block(end, meta, col) ==
          IF ~col.ok THEN Bad ELSE Good(end, Append(p.out, [meta |-> meta, cells |-> col.out]))
        sized(meta, start, size) ==
          IF ~Has(b, start, size) THEN Bad
          ELSE LET data == Slice(b, start, size)
                   raw == IF b[meta.at] = 0 THEN data ELSE Decompress(data)
               IN  block(start + size, meta.out[1], ParseColumnRaw(raw, meta.out[1].type, rows))
        described(meta) ==
          IF ~meta.ok \/ ~Has(b, meta.at, 1) THEN Bad
          ELSE IF ~Has(b, meta.at, head(meta.at)) THEN Bad
          ELSE sized(meta, meta.at + head(meta.at), b[meta.at + head(meta.at) - 1])
    IN  IF ~p.ok THEN Bad ELSE described(ReadColumns(b, p.at, 1))

ParseV2(b) ==
    IF ~Has(b, 1, 7) \/ b[1] # ODBC \/ b[2] # 2 THEN Bad
    ELSE LET upTo[i \in 0..b[4]] ==
               IF i = 0 THEN Good(8, <<>>) ELSE ReadBlock(b, upTo[i - 1], b[5])
             table(p) ==
               IF ~p.ok \/ p.at # 8 + b[7] THEN Bad
               ELSE Good(p.at, ResultSet([c \in 1..b[4] |-> p.out[c].meta],
                                         [r \in 1..b[5] |-> [c \in 1..b[4] |-> p.out[c].cells[r]]]))
         IN  IF b[4] = 0 THEN Good(8, ResultSet(<<>>, <<>>)) ELSE table(upTo[b[4]])

-----------------------------------------------------------------------------
(* Parameter values: [tag, payload].                                        *)

TagNull == 0
TagString == 1
TagInteger == 2
TagBigInt == 3
TagDecimal == 4
TagBinary == 5
TagRefCursor == 6

Param(tag, payload) == [tag |-> tag, payload |-> payload]

Serialize(p) == <<p.tag, Len(p.payload)>> \o p.payload

\* ParamValue::deserialize of the value that starts at position at.
Deserialize(b, at) ==
    IF ~Has(b, at, 2) THEN Bad
    ELSE LET tag == b[at]
             len == b[at + 1]
         IN  IF \/ len > MaxParamPayload
                \/ ~Has(b, at + 2, len)
                \/ tag \notin TagNull..TagRefCursor
                \/ tag = TagInteger /\ len # I32Len
                \/ tag = TagBigInt /\ len # I64Len
                \/ tag = TagRefCursor /\ len # 0
             THEN Bad
             ELSE Good(at + 2 + len,
                       IF tag = TagNull THEN Param(TagNull, <<>>)
                       ELSE Param(tag, Slice(b, at + 2, len)))

ReadParam(b, p) ==
    LET add(v) == IF ~v.ok THEN Bad ELSE Good(v.at, Append(p.out, v.out))
    IN  IF ~p.ok THEN Bad ELSE add(Deserialize(b, p.at))

SerializeParams(values) == FlattenSeq([i \in 1..Len(values) |-> Serialize(values[i])])

\* deserialize_params reads values until the buffer ends.
DeserializeParams(b) ==
    LET step(p) == IF p.at = Len(b) + 1 THEN p ELSE ReadParam(b, p)
        upTo[i \in 0..Len(b)] == IF i = 0 THEN Good(1, <<>>) ELSE step(upTo[i - 1])
    IN  upTo[Len(b)]

\* DRT1: direction 0 input, 1 output, 2 in/out, before each value.
SerializeDirected(bound) ==
    <<DRT1, Len(bound)>>
        \o FlattenSeq([i \in 1..Len(bound) |-> <<bound[i].dir>> \o Serialize(bound[i].value)])

DeserializeDirected(b) ==
    LET n == b[2]
        add(p, v) ==
          IF b[p.at] \notin 0..2 \/ ~v.ok THEN Bad
          ELSE Good(v.at, Append(p.out, [dir |-> b[p.at], value |-> v.out]))
        step(p) ==
          IF ~p.ok \/ ~Has(b, p.at, 1) THEN Bad ELSE add(p, Deserialize(b, p.at + 1))
        upTo[i \in 0..n] == IF i = 0 THEN Good(3, <<>>) ELSE step(upTo[i - 1])
        whole(p) == IF p.ok /\ p.at = Len(b) + 1 THEN p ELSE Bad
    IN  IF n <= Len(b) - 2 THEN whole(upTo[n]) ELSE Bad

IsDirected(b) == Has(b, 1, 2) /\ b[1] = DRT1

\* deserialize_param_buffer: a legacy list is a directed one of inputs.
DeserializeParamBuffer(b) ==
    IF IsDirected(b) THEN DeserializeDirected(b)
    ELSE LET inputs(p) ==
               IF ~p.ok THEN Bad
               ELSE Good(p.at, [i \in 1..Len(p.out) |-> [dir |-> 0, value |-> p.out[i]]])
         IN  inputs(DeserializeParams(b))

-----------------------------------------------------------------------------
(* Footers and the MULT envelope.  An item is [tag, payload]: tag 0 is a    *)
(* result set, tag 1 a row count.                                           *)

AppendOutputFooter(base, outputs) ==
    IF outputs = <<>> THEN base
    ELSE base \o <<OUT1, Len(outputs)>> \o SerializeParams(outputs)

AppendRefCursorFooter(base, blobs) ==
    IF blobs = <<>> THEN base
    ELSE base \o <<RC1, Len(blobs)>>
              \o FlattenSeq([i \in 1..Len(blobs) |-> <<Len(blobs[i])>> \o blobs[i]])

RowCountItem(n) == [tag |-> 1, payload |-> ToLE(n, I64Len)]
ResultSetItem(body) == [tag |-> 0, payload |-> body]

EncodeMulti(items) ==
    <<MULT, 2, 0, Len(items)>>
        \o FlattenSeq([i \in 1..Len(items) |->
               <<items[i].tag, Len(items[i].payload)>> \o items[i].payload])

\* A bug for comparison: the end of the buffer ends the list of items.
ReadItemsLenient(b, start, n) ==
    LET step(p) ==
          IF ~Has(b, p.at, 2) THEN p
          ELSE IF ~Has(b, p.at + 2, b[p.at + 1]) THEN p
          ELSE Good(p.at + 2 + b[p.at + 1],
                    Append(p.out, [tag |-> b[p.at], payload |-> Slice(b, p.at + 2, b[p.at + 1])]))
        upTo[i \in 0..n] == IF i = 0 THEN Good(start, <<>>) ELSE step(upTo[i - 1])
    IN  upTo[n]

ReadItems(b, start, n) ==
    LET step(p) ==
          IF ~p.ok \/ ~Has(b, p.at, 2) \/ ~Has(b, p.at + 2, b[p.at + 1]) THEN Bad
          ELSE IF b[p.at] \notin 0..1 \/ (b[p.at] = 1 /\ b[p.at + 1] # I64Len) THEN Bad
          ELSE Good(p.at + 2 + b[p.at + 1],
                    Append(p.out, [tag |-> b[p.at], payload |-> Slice(b, p.at + 2, b[p.at + 1])]))
        upTo[i \in 0..n] == IF i = 0 THEN Good(start, <<>>) ELSE step(upTo[i - 1])
    IN  upTo[n]

\* decode_multi (Rust): every unit is an item or the start of a known footer.
DecodeMulti(b) ==
    IF ~Has(b, 1, 4) \/ b[1] # MULT \/ b[2] # 2 THEN Bad
    ELSE LET whole(p) ==
               IF ~p.ok THEN Bad
               ELSE IF p.at # Len(b) + 1 /\ b[p.at] \notin {OUT1, RC1} THEN Bad
               ELSE p
         IN  whole(ReadItems(b, 5, b[4]))

ReadOutputFooter(b, at) ==
    IF ~Has(b, at, 2) THEN Good(at, <<>>)
    ELSE IF b[at] # OUT1 THEN Good(at, <<>>)
    ELSE LET upTo[i \in 0..b[at + 1]] ==
               IF i = 0 THEN Good(at + 2, <<>>) ELSE ReadParam(b, upTo[i - 1])
         IN  upTo[b[at + 1]]

ReadRefCursorFooter(b, at) ==
    LET add(p, inner) ==
          IF inner.ok THEN Good(p.at + 1 + b[p.at], Append(p.out, inner.out)) ELSE Bad
        step(p) ==
          IF ~p.ok \/ ~Has(b, p.at, 1) \/ ~Has(b, p.at + 1, b[p.at]) THEN Bad
          ELSE add(p, ParseV1(Slice(b, p.at + 1, b[p.at])))
    IN  IF ~Has(b, at, 2) THEN Good(at, <<>>)
        ELSE IF b[at] # RC1 THEN Good(at, <<>>)
        ELSE LET upTo[i \in 0..b[at + 1]] == IF i = 0 THEN Good(at + 2, <<>>) ELSE step(upTo[i - 1])
             IN  upTo[b[at + 1]]

-----------------------------------------------------------------------------
(* What the client decodes.  An answer is [ok, items, outs, refs].          *)

NoAnswer == [ok |-> FALSE, items |-> <<>>, outs |-> <<>>, refs |-> <<>>]

\* The message ends where its header says, and the footers start there.
Framed(b, header) ==
    IF ~Has(b, 1, header) \/ b[1] # ODBC THEN Bad
    ELSE IF ~Has(b, 1, header + b[header]) THEN Bad
    ELSE LET body == Slice(b, 1, header + b[header])
             framed(p) == IF p.ok THEN Good(header + b[header] + 1, p.out) ELSE Bad
         IN  framed(IF header = 5 THEN ParseV1(body) ELSE ParseV2(body))

ParseBody(b) ==
    IF ~Has(b, 1, 2) THEN Bad
    ELSE IF b[2] \in 1..2 THEN Framed(b, IF b[2] = 1 THEN 5 ELSE 7)
    ELSE Bad

\* BinaryProtocolParser.parseWithOutputs
ParseWithOutputs(b) ==
    LET whole(main, outs, refs) ==
          IF ~refs.ok THEN NoAnswer
          ELSE IF Has(b, refs.at, 1) /\ b[refs.at] \in {OUT1, RC1} THEN NoAnswer
          ELSE [ok |-> TRUE, items |-> <<<<"rows", main.out>>>>, outs |-> outs.out, refs |-> refs.out]
        cursors(main, outs) ==
          IF ~outs.ok THEN NoAnswer ELSE whole(main, outs, ReadRefCursorFooter(b, outs.at))
        outputs(main) ==
          IF ~main.ok THEN NoAnswer ELSE cursors(main, ReadOutputFooter(b, main.at))
    IN  outputs(ParseBody(b))

\* The decoded items of one entry: a row count, a result set, or none.
ParseItem(item) ==
    IF item.tag = 1 THEN << <<"count", FromLE(item.payload)>> >>
    ELSE ParseWithOutputs(item.payload).items

\* MultiResultParser.parseMultiWithOutputs
ParseMultiWithOutputs(b) ==
    IF ~Has(b, 1, 4) \/ b[1] # MULT \/ b[2] # 2 THEN NoAnswer
    ELSE LET whole(parsed, outs) ==
               IF ~outs.ok \/ <<>> \in ToSet(parsed) THEN NoAnswer
               ELSE [ok |-> TRUE, items |-> FlattenSeq(parsed), outs |-> outs.out, refs |-> <<>>]
             outputs(p) ==
               IF ~p.ok THEN NoAnswer
               ELSE whole([i \in 1..Len(p.out) |-> ParseItem(p.out[i])], ReadOutputFooter(b, p.at))
         IN  outputs(ReadItems(b, 5, b[4]))

\* _parseBufferToQueryResult: the first word tells the envelope.
ParseBuffer(b) == IF b[1] = MULT THEN ParseMultiWithOutputs(b) ELSE ParseWithOutputs(b)
=============================================================================
