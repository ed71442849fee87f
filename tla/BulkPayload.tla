---------------------------- MODULE BulkPayload ----------------------------
(* The payload of a bulk insert: how a client's rows are laid out column by *)
(* column with packed null bitmaps (protocol/bulk_insert.rs and the Dart    *)
(* BulkInsertBuilder), how the engine reads it back, cuts it into row       *)
(* ranges (ffi/mod.rs, parallel_insert.rs) and copies a range into the      *)
(* driver's column buffers (array_binding.rs).                              *)
(*                                                                          *)
(* A column is [kind, nullable, maxLen].  An i32, an i64 and a timestamp    *)
(* take one unit of the body each, a text or binary cell max(maxLen, 1)     *)
(* bytes, a bitmap byte one unit; all units are naturals, so a reader that  *)
(* loses its place reads one thing for another.                             *)
EXTENDS Integers, Sequences, SequencesExt

CONSTANTS
    MaxColumns,     \* MAX_BULK_COLUMNS
    MaxBulkRows,    \* MAX_BULK_ROWS
    MaxCellLen,     \* MAX_BULK_CELL_LEN
    Null,           \* SQL NULL
    Malformed       \* the parser's error

Words == {"i32", "i64", "timestamp"}
Kinds == Words \cup {"text", "decimal", "binary"}
ByteBits == 8

DivCeil(n, d) == (n + d - 1) \div d
Least(a, b) == IF a < b THEN a ELSE b
Greatest(a, b) == IF a < b THEN b ELSE a

NullBitmapSize(n) == DivCeil(n, ByteBits)

\* A row beyond the bitmap is not null; an absent bitmap is the empty one.
IsNull(bitmap, row) ==
    /\ row \div ByteBits < Len(bitmap)
    /\ (bitmap[row \div ByteBits + 1] \div 2 ^ (row % ByteBits)) % 2 = 1

\* The bitmap in which the bits of the given rows of 0 .. n - 1 are set.
PackBits(rows, n) ==
    [b \in 1 .. NullBitmapSize(n) |->
        LET byte[i \in 0 .. ByteBits] ==
                IF i = 0
                THEN 0
                ELSE byte[i - 1] + (IF (b - 1) * ByteBits + i - 1 \in rows THEN 2 ^ (i - 1) ELSE 0)
        IN  byte[ByteBits]]

CellWidth(spec) == IF spec.kind \in Words THEN 1 ELSE Greatest(spec.maxLen, 1)
ColumnWidth(spec, n) ==
    (IF spec.nullable THEN NullBitmapSize(n) ELSE 0) + n * CellWidth(spec)

-----------------------------------------------------------------------------
(* Writing.                                                                *)

\* A cell that is too long is cut, a short one is filled with zeros.
PadCell(cell, width) ==
    [i \in 1 .. width |-> IF i <= Len(cell) THEN cell[i] ELSE 0]

\* A null has a cell all the same: zero.
SerializeColumn(spec, cells) ==
    LET n == Len(cells)
        nulls == {r \in 0 .. n - 1 : cells[r + 1] = Null}
        blank == IF spec.kind \in Words THEN 0 ELSE <<>>
        raw == [i \in 1 .. n |-> IF cells[i] = Null THEN blank ELSE cells[i]]
    IN  (IF spec.nullable THEN PackBits(nulls, n) ELSE <<>>)
        \o (IF spec.kind \in Words
            THEN raw
            ELSE FlattenSeq([i \in 1 .. n |-> PadCell(raw[i], CellWidth(spec))]))

\* rows is a sequence of rows, each a sequence of cells, one per column.
SerializePayload(specs, rows) ==
    [specs |-> specs, rowCount |-> Len(rows),
     body |-> FlattenSeq([c \in 1 .. Len(specs) |->
                 SerializeColumn(specs[c], [r \in 1 .. Len(rows) |-> rows[r][c]])])]

-----------------------------------------------------------------------------
(* Reading.                                                                *)

\* Text and binary cells end at their first zero byte.
TrimCell(raw) ==
    IF \E i \in 1 .. Len(raw) : raw[i] = 0
    THEN SubSeq(raw, 1, (CHOOSE i \in 1 .. Len(raw) :
                            raw[i] = 0 /\ \A j \in 1 .. i - 1 : raw[j] # 0) - 1)
    ELSE raw

ReadNullBitmap(body, o, nullable, n) ==
    IF nullable THEN SubSeq(body, o + 1, o + NullBitmapSize(n)) ELSE <<>>

\* The column that starts after the first o units, and how much it takes.
ParseColumnData(body, o, spec, n) ==
    LET bitmap == ReadNullBitmap(body, o, spec.nullable, n)
        first == o + Len(bitmap)
        width == CellWidth(spec)
        Cell(i) == IF spec.kind \in Words
                   THEN body[first + i]
                   ELSE TrimCell(SubSeq(body, first + (i - 1) * width + 1, first + i * width))
    IN  [column |-> [bitmap |-> bitmap, cells |-> [i \in 1 .. n |-> Cell(i)]],
         consumed |-> Len(bitmap) + n * width]

\* A column is refused when the body ends before it; what the columns leave
\* unread makes the payload malformed as well.
ParsePayload(wire) ==
    LET n == wire.rowCount
        Read(acc, spec) ==
            IF acc = Malformed \/ acc.o + ColumnWidth(spec, n) > Len(wire.body)
            THEN Malformed
            ELSE LET got == ParseColumnData(wire.body, acc.o, spec, n)
                 IN  [o |-> acc.o + got.consumed, columns |-> Append(acc.columns, got.column)]
        end == FoldLeft(Read, [o |-> 0, columns |-> <<>>], wire.specs)
    IN  IF \/ Len(wire.specs) > MaxColumns
           \/ \E c \in 1 .. Len(wire.specs) : wire.specs[c].maxLen > MaxCellLen
           \/ n > MaxBulkRows
           \/ end = Malformed
        THEN Malformed
        ELSE IF end.o # Len(wire.body)
             THEN Malformed
             ELSE [specs |-> wire.specs, rowCount |-> n, columns |-> end.columns]

-----------------------------------------------------------------------------
(* Cutting a payload into ranges of rows [start, end) that count from 0.    *)

RangesOfWhole(n, size) ==
    [k \in 1 .. n \div size |-> [start |-> (k - 1) * size, end |-> (k - 1) * size + size]]

RangesOf(n, size) ==
    [k \in 1 .. DivCeil(n, size) |->
        [start |-> (k - 1) * size, end |-> Least((k - 1) * size + size, n)]]

\* odbc_bulk_insert_parallel.
RowChunkRanges(n, parallelism) ==
    IF n = 0
    THEN <<>>
    ELSE LET workers == Least(Greatest(parallelism, 1), n)
         IN  RangesOf(n, Greatest(DivCeil(n, workers), 1))

\* ParallelBulkInsert.
ChunkRanges(n, parallelism) ==
    IF n = 0
    THEN <<>>
    ELSE RangesOf(n, Least(Greatest(DivCeil(n, Greatest(parallelism, 1)), 1), n))

SliceNullBitmapBytes(bitmap, start, len) ==
    SubSeq(bitmap, start \div ByteBits + 1, start \div ByteBits + NullBitmapSize(len))

SliceNullBitmap(bitmap, start, len) ==
    PackBits({i \in 0 .. len - 1 : IsNull(bitmap, start + i)}, len)

SlicePayloadRows(payload, start, end) ==
    [payload EXCEPT
        !.rowCount = end - start,
        !.columns = [c \in 1 .. Len(payload.columns) |->
            [bitmap |-> IF payload.specs[c].nullable
                        THEN SliceNullBitmap(payload.columns[c].bitmap, start, end - start)
                        ELSE <<>>,
             cells |-> SubSeq(payload.columns[c].cells, start + 1, end)]]]

-----------------------------------------------------------------------------
(* Filling the driver's buffers with the rows start .. start + len - 1.      *)

\* An i32, i64 or timestamp buffer: values and indicators.
FillWords(column, start, len) ==
    [i \in 1 .. len |->
        IF IsNull(column.bitmap, start + i - 1) THEN Null ELSE column.cells[start + i]]

\* A text or binary buffer: cells set one by one.
FillBytes(column, start, len) ==
    [i \in 1 .. len |->
        LET r == start + i - 1
        IN  IF IsNull(column.bitmap, r) THEN Null ELSE column.cells[r + 1]]

FillColumn(spec, column, start, len) ==
    IF spec.kind \in Words THEN FillWords(column, start, len) ELSE FillBytes(column, start, len)

\* The rows the driver reads from the buffers.
BufferRows(payload, start, len) ==
    LET filled == [c \in 1 .. Len(payload.specs) |->
                     FillColumn(payload.specs[c], payload.columns[c], start, len)]
    IN  [i \in 1 .. len |-> [c \in 1 .. Len(payload.specs) |-> filled[c][i]]]
=============================================================================
