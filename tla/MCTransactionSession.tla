------------------------ MODULE MCTransactionSession ------------------------
(***************************************************************************)
(* A small instance of TransactionSession: begins that differ in every     *)
(* setting, at the edges of the units, and names at those of the grammar.  *)
(***************************************************************************)
EXTENDS TransactionSession

Ask(iso, dialect, mode, lock) == [iso |-> iso, dialect |-> dialect, mode |-> mode, lock |-> lock]

\* Lock timeouts in microseconds; the last is beyond the largest u32 here.
MCAsks == {Ask("rc", "auto", "rw", 0), Ask("ser", "auto", "ro", 999),
           Ask("ru", "auto", "rw", 1000000), Ask("rr", "auto", "rw", 1500000),
           Ask("ser", "auto", "rw", 5000000), Ask("rc", "sql92", "ro", 2000000),
           Ask("ser", "sqlserver", "rw", 1000)}

\* Those of callers who name the dialect of their server.
NamedDialect == {Ask("rc", "sql92", "rw", 2000000)}

MCNames == {<<"letter">>, <<"underscore", "digit">>, <<"digit">>,
            <<"letter", "letter", "letter">>, <<>>}
=============================================================================
