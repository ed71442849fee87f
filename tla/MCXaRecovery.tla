---------------------------- MODULE MCXaRecovery ----------------------------
(***************************************************************************)
(* TLC instance of XaRecovery.                                             *)
(***************************************************************************)
EXTENDS XaRecovery

\* Two branches of one global transaction, one whose name some servers refuse,
\* and two that are no Xids.
MCInputs == {[gtrid |-> <<26>>, bqual |-> <<>>], [gtrid |-> <<26>>, bqual |-> <<171>>],
             [gtrid |-> <<26, 171>>, bqual |-> <<26, 171>>],
             [gtrid |-> <<>>, bqual |-> <<26>>], [gtrid |-> <<26, 26, 26>>, bqual |-> <<>>]}

\* Names that read back as an Xid of ours without being one, and one that does not.
MCOthers == [e \in Engines |->
    CASE e = "Postgres" -> {<<"+", "0", "_", "1", "A", "_">>, <<"0", "_", "1", "_">>}
      [] e = "MySQL" -> {[format |-> 0, gtrid |-> <<"1", "A">>, bqual |-> <<>>],
                         [format |-> 0, gtrid |-> <<"1">>, bqual |-> <<"a", "a", "b">>]}
      [] e = "Oracle" -> {[format |-> 9, gtrid |-> <<26>>, bqual |-> <<>>],
                          [format |-> 9, gtrid |-> <<>>, bqual |-> <<26>>]}]
=============================================================================
