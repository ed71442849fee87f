-------------------------- MODULE MCStreamContents --------------------------
(* Statements with up to three items: result sets of one and three bytes   *)
(* and row counts.                                                         *)
EXTENDS StreamContents

Items ==
    {[tag |-> 0, payload |-> <<11>>], [tag |-> 0, payload |-> <<21, 22, 23>>],
     [tag |-> 1, payload |-> <<31>>]}
MCItemLists == UNION {[1 .. n -> Items] : n \in 1 .. 3}
=============================================================================
