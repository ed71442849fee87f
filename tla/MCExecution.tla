---------------------------- MODULE MCExecution -----------------------------
(* Instances of Execution for TLC.  Payload bytes are chosen to look like   *)
(* magic words where that could mislead a decoder.                          *)
EXTENDS Execution

Engine(columnar, compression) == [columnar |-> columnar, compression |-> compression]

AllEngines == {Engine(FALSE, FALSE), Engine(TRUE, FALSE), Engine(TRUE, TRUE)}

-----------------------------------------------------------------------------
Sql(text, args) == [text |-> text, args |-> args]
P(dir, kind, v) == [dir |-> dir, kind |-> kind, v |-> v]
Call(path, sql, params) == [path |-> path, sql |-> sql, params |-> params, sets |-> 0]

Plain == Sql("q", <<>>)
Inputs == { <<>>,
            <<P(0, "int", -1), P(0, "text", <<OUT1>>), P(0, "null", 0)>>,
            <<P(0, "bin", <<>>), P(0, "big", 300)>> }
Directed == { <<P(0, "int", 7), P(1, "int", 0)>>,
              <<P(2, "text", <<4>>), P(0, "big", -5), P(1, "big", 0)>>,
              <<P(0, "null", 0), P(0, "decimal", <<1>>)>>,
              <<P(1, "bin", <<>>)>>,
              <<P(2, "null", 0)>> }
Refs == { <<Sql("p", <<"?">>), <<P(1, "ref", 0)>>>>,
          <<Sql("p", <<"?", ",", "?">>), <<P(1, "ref", 0), P(1, "ref", 0)>>>>,
          <<Sql("p", <<"?", ",", "?">>), <<P(0, "int", 7), P(1, "ref", 0)>>>>,
          <<Sql("p", <<"?", ",", "?">>), <<P(1, "ref", 0), P(1, "text", <<8>>)>>>>,
          <<Sql("p", <<"?", ",", "?", ",", "?">>), <<P(0, "int", 7), P(1, "ref", 0), P(1, "int", 0)>>>> }

SmallCalls ==
    {Call(p, q, <<>>) : p \in {"direct", "cached"}, q \in {Plain, Sql("", <<>>)}}
    \cup {Call(p, Plain, i) : p \in {"params", "multi_params"}, i \in Inputs}
    \cup {Call("multi", Plain, <<>>)}
    \cup {Call("directed", Plain, d) : d \in Directed}
    \cup {Call("directed", r[1], r[2]) : r \in Refs}
    \cup {[Call("batch", Plain, <<P(0, "int", 7)>>) EXCEPT !.sets = 2]}

-----------------------------------------------------------------------------
Col(name, code) == [name |-> <<name>>, code |-> code]
Cursor(columns, rows) == [kind |-> "cursor", columns |-> columns, rows |-> rows]
RowCount(n) == [kind |-> "count", n |-> n]
Script(results, deferred) == [results |-> results, text |-> <<9, OUT1>>, deferred |-> deferred]
Long(script) == [script EXCEPT !.text = <<9, OUT1, 5>>]

People == Cursor(<<Col(65, 4), Col(66, 12)>>, << <<<<2, 5, 8>>, <<RC1, OUT1>>>>, <<None, <<>>>> >>)
\* The least i32 with a blank, one too many, a text, and a signed i64.
Numbers == Cursor(<<Col(65, 4), Col(68, -5)>>,
                  << <<<<Minus, 3, 2, 7, 6, 8, Space>>, <<Plus, 4, 0, 0, 0, 0>>>>,
                     <<<<3, 2, 7, 6, 8>>, <<Minus, 8, 3, 8, 8, 6, 0, 9>>>>,
                     <<<<Minus>>, <<Space, 1>>>> >>)
Blobs == Cursor(<<Col(67, -2), Col(68, -5)>>, << <<None, <<7, 3>>>>, <<<<0, ODBC>>, None>> >>)
Nothing == Cursor(<<Col(65, 4)>>, <<>>)
Chunks == Cursor(<<Col(Json, 12)>>, << <<<<1, 2>>>>, <<<<3>>>> >>)

SmallScripts ==
    { Script(<<People>>, FALSE), Long(Script(<<Numbers>>, FALSE)), Script(<<Chunks>>, FALSE), Script(<<RowCount(3)>>, FALSE),
      Script(<<People, Blobs>>, TRUE), Script(<<RowCount(0), Nothing, RowCount(260)>>, TRUE),
      Long(Script(<<Nothing, RowCount(1), Blobs>>, TRUE)) }

=============================================================================
