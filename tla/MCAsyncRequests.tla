-------------------------- MODULE MCAsyncRequests --------------------------
(* Small instances of AsyncRequests for TLC. *)
EXTENDS AsyncRequests, TLC

Symmetry == Permutations(Tickets) \cup Permutations(Conns)
=============================================================================
