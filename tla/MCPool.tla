------------------------------- MODULE MCPool -------------------------------
(* Small instances of Pool for TLC. *)
EXTENDS Pool, TLC

Symmetry == Permutations(Threads)

\* No more than one rollback is refused.
OneRefusal == Cardinality(refused) <= 1
=============================================================================
