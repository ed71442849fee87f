------------------------------ MODULE MCCalls ------------------------------
(* Small instances of Calls for TLC. *)
EXTENDS Calls, TLC

Symmetry == Permutations(Threads)

\* A connection is shared, or there is a second one.  Both threads of a shared
\* connection are busy with it, and a second one gives them nothing more to wait
\* for than the global mutex.
SharedAlone == shared # {} => sessions = 1
=============================================================================
