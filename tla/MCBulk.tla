------------------------------- MODULE MCBulk -------------------------------
(* Small instances of Bulk for TLC. *)
EXTENDS Bulk

Column(kind, nullable, maxLen) == [kind |-> kind, nullable |-> nullable, maxLen |-> maxLen]
KeyColumn == Column("i32", FALSE, 0)

\* A nullable integer, a nullable text of two bytes and a timestamp after it, a
\* binary column without a length; and a column that is too wide.
MCTables ==
    {<<KeyColumn, Column("i64", TRUE, 0)>>,
     <<KeyColumn, Column("text", TRUE, 2), Column("timestamp", FALSE, 0)>>,
     <<KeyColumn, Column("binary", FALSE, 0)>>,
     <<KeyColumn, Column("decimal", FALSE, 4)>>}

MCNullSets == {{}, {0}, {7, 8}}
=============================================================================
