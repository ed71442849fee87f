------------------------------ MODULE MCStreams ------------------------------
(* Small instances of Streams for TLC. *)
EXTENDS Streams

CONSTANTS s1, s2

\* The result of one stream may have no rows; the other has no cursor.
TwoResults == [s \in Streams |-> IF s = s1 THEN {"rows", "empty"} ELSE {"none"}]
=============================================================================
