------------------------ MODULE MCTransactionHelpers ------------------------
(***************************************************************************)
(* Small instances of TransactionHelpers, and with it of Transactions: one *)
(* thread runs the helper, one calls the native API directly.              *)
(***************************************************************************)
EXTENDS TransactionHelpers

\* Bound: a behaviour uses two of the connections, any two.
TwoConnections == Cardinality({c \in Conns : connState[c] # "New"}) <= 2
=============================================================================
