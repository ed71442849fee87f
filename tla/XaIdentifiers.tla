---------------------------- MODULE XaIdentifiers ----------------------------
(***************************************************************************)
(* The identifiers of XA branches: Xid, how each engine's statements spell *)
(* one, under which name the server keeps the branch, and what recovery    *)
(* reads back from the server's list.                                      *)
(*                                                                         *)
(* Text is a sequence of one-character strings and a binary component is a *)
(* sequence of bytes.  The lengths are scaled down: MaxLen stands for the  *)
(* 64 bytes of X/Open, ServerLen for the 64 bytes a component has at a     *)
(* MySQL server, GidLen for the 199 characters of a PostgreSQL gid, and    *)
(* MaxFormat for the largest i32.                                          *)
(***************************************************************************)
EXTENDS Integers, Sequences, FiniteSets, SequencesExt

CONSTANTS
    MaxLen,         \* XID_MAX_GTRID_LEN, XID_MAX_BQUAL_LEN
    ServerLen,      \* longest component of a name at a MySQL server
    GidLen,         \* longest gid of PostgreSQL
    MaxFormat,      \* largest format id
    None            \* no Xid, no value

ASSUME LengthsAssumption == {MaxLen, ServerLen, GidLen} \subseteq Nat \ {0}
ASSUME FormatAssumption == MaxFormat \in 0 .. 8    \* format ids have one digit

Engines == {"MySQL", "Postgres", "Oracle"}

IsI32(i) == i \in -MaxFormat - 1 .. MaxFormat

\* Xid::new.
XidNew(format, gtrid, bqual) ==
    IF Len(gtrid) \in 1 .. MaxLen /\ Len(bqual) <= MaxLen
    THEN [format |-> format, gtrid |-> gtrid, bqual |-> bqual]
    ELSE None
-----------------------------------------------------------------------------
(* Hexadecimal text.                                                       *)

HexLut == <<"0", "1", "2", "3", "4", "5", "6", "7", "8", "9", "a", "b", "c", "d", "e", "f">>
HexLutUpper == <<"0", "1", "2", "3", "4", "5", "6", "7", "8", "9", "A", "B", "C", "D", "E", "F">>

EncodeWith(lut, bytes) ==
    [i \in 1 .. 2 * Len(bytes) |->
        LET byte == bytes[(i + 1) \div 2] IN
        lut[(IF i % 2 = 1 THEN byte \div 16 ELSE byte % 16) + 1]]

hex_encode(bytes) == EncodeWith(HexLut, bytes)
hex_encode_upper(bytes) == EncodeWith(HexLutUpper, bytes)

IsHex(c) == c \in Range(HexLut) \cup Range(HexLutUpper)
hex_nibble(c) == (CHOOSE i \in 1 .. 16 : c \in {HexLut[i], HexLutUpper[i]}) - 1

\* Either case is read; text that is not pairs of digits is not.
hex_decode(s) ==
    IF Len(s) % 2 = 0 /\ \A i \in DOMAIN s : IsHex(s[i])
    THEN [i \in 1 .. Len(s) \div 2 |-> 16 * hex_nibble(s[2 * i - 1]) + hex_nibble(s[2 * i])]
    ELSE None

Decoded(format, gtridHex, bqualHex) ==
    LET g == hex_decode(gtridHex)
        b == hex_decode(bqualHex)
    IN  IF None \in {format, g, b} THEN None ELSE XidNew(format, g, b)
-----------------------------------------------------------------------------
(* Format ids as text.                                                     *)

Digits == SubSeq(HexLut, 1, 10)

IntText(i) == IF i < 0 THEN <<"-", Digits[1 - i]>> ELSE <<Digits[i + 1]>>

\* str::parse::<i32>: a sign is allowed, leading zeros are, other values are not.
ParseI32(s) ==
    LET signed == s # <<>> /\ Head(s) \in {"-", "+"}
        ds == IF signed THEN Tail(s) ELSE s
        size == FoldLeft(LAMBDA v, c : 10 * v + hex_nibble(c), 0, ds)
        value == IF signed /\ Head(s) = "-" THEN -size ELSE size
    IN  IF ds # <<>> /\ Range(ds) \subseteq Range(Digits) /\ IsI32(value) THEN value ELSE None
-----------------------------------------------------------------------------
(* PostgreSQL: one string.                                                 *)

encode_postgres(x) ==
    IntText(x.format) \o <<"_">> \o hex_encode(x.gtrid) \o <<"_">> \o hex_encode(x.bqual)

\* Mutant: a name without a branch qualifier is taken for another client's.
DecodePostgresQualified(s) ==
    LET bars == {i \in DOMAIN s : s[i] = "_"} IN
    IF Cardinality(bars) < 2 \/ Last(s) = "_" THEN None
    ELSE LET a == Min(bars)  b == Min(bars \ {a}) IN
         Decoded(ParseI32(SubSeq(s, 1, a - 1)), SubSeq(s, a + 1, b - 1), SubSeq(s, b + 1, Len(s)))

decode_postgres(s) ==
    LET bars == {i \in DOMAIN s : s[i] = "_"} IN
    IF Cardinality(bars) < 2 THEN None
    ELSE LET a == Min(bars)  b == Min(bars \ {a}) IN
         Decoded(ParseI32(SubSeq(s, 1, a - 1)), SubSeq(s, a + 1, b - 1), SubSeq(s, b + 1, Len(s)))
-----------------------------------------------------------------------------
(* MySQL, MariaDB, DB2: three arguments, kept by the server as they are.   *)

\* Mutant: the branch qualifier is left out.
EncodeMysqlGlobalOnly(x) == [format |-> x.format, gtrid |-> hex_encode(x.gtrid), bqual |-> <<>>]

encode_mysql_components(x) ==
    [format |-> x.format, gtrid |-> hex_encode(x.gtrid), bqual |-> hex_encode(x.bqual)]

\* A row of XA RECOVER: format id, two lengths, and both components in one column.
RecoverRow(n) ==
    [formatID |-> IntText(n.format), gtrid_length |-> Len(n.gtrid), bqual_length |-> Len(n.bqual),
     data |-> n.gtrid \o n.bqual]

OrZero(format) == IF format = None THEN 0 ELSE format

decode_mysql_row(row) ==
    LET g == row.gtrid_length  b == row.bqual_length IN
    IF Len(row.data) < g + b THEN None
    ELSE Decoded(OrZero(ParseI32(row.formatID)), SubSeq(row.data, 1, g), SubSeq(row.data, g + 1, g + b))
-----------------------------------------------------------------------------
(* Oracle: HEXTORAW literals, so the server keeps the bytes; its list is   *)
(* read with RAWTOHEX.                                                     *)

encode_oracle_components(x) ==
    [format |-> x.format, gtrid |-> hex_encode_upper(x.gtrid), bqual |-> hex_encode_upper(x.bqual)]

HexToRaw(n) == [format |-> n.format, gtrid |-> hex_decode(n.gtrid), bqual |-> hex_decode(n.bqual)]

oracle_xid_literal(x) == HexToRaw(encode_oracle_components(x))

\* FORMATID is a NUMBER: one that is no i32 is read as 0.
decode_oracle_row(n) ==
    Decoded(OrZero(ParseI32(IntText(n.format))),
            hex_encode_upper(n.gtrid), hex_encode_upper(n.bqual))
-----------------------------------------------------------------------------
(* The name of a branch at the server, and the Xid recovery makes of it.   *)

ServerName(kind, x) ==
    CASE kind = "Postgres" -> encode_postgres(x)
      [] kind = "MySQL" -> encode_mysql_components(x)
      [] kind = "Oracle" -> oracle_xid_literal(x)

\* Names the server takes.
NameFits(kind, n) ==
    CASE kind = "Postgres" -> Len(n) <= GidLen
      [] kind = "MySQL" -> Len(n.gtrid) <= ServerLen /\ Len(n.bqual) <= ServerLen
      [] kind = "Oracle" -> TRUE

ReadBack(kind, n) ==
    CASE kind = "Postgres" -> decode_postgres(n)
      [] kind = "MySQL" -> decode_mysql_row(RecoverRow(n))
      [] kind = "Oracle" -> decode_oracle_row(n)

\* Names that cannot be read are left out.
apply_xa_recover(kind, names) == {ReadBack(kind, n) : n \in names} \ {None}
=============================================================================
