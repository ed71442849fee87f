----------------------------- MODULE MCXaHelpers -----------------------------
(***************************************************************************)
(* TLC instance of XaHelpers, and with it of XaBranches.                   *)
(***************************************************************************)
EXTENDS XaHelpers, TLC

\* Neither connections nor xids are told apart.
Symmetry == Permutations(Conns) \cup Permutations(Xids)
=============================================================================
