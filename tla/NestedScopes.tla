---------------------------- MODULE NestedScopes ----------------------------
(***************************************************************************)
(* What a transaction with nested scopes promises, whatever the server's   *)
(* syntax: a scope that succeeds keeps its work, a scope that fails undoes *)
(* all of its work and no other, and the transaction commits or discards   *)
(* what is left as a whole.                                                *)
(***************************************************************************)
EXTENDS Integers, Sequences, SequencesExt

CONSTANT Writes     \* the statements that may be executed

VARIABLES
    open,           \* whether a transaction is open
    work,           \* its statements, in order
    bases,          \* for each open scope, outermost first, the work before it
    ended,          \* how the last scope ended
    durable         \* the statements that are committed, in order

vars == <<open, work, bases, ended, durable>>

Init == open = FALSE /\ work = <<>> /\ bases = <<>> /\ ended = "none" /\ durable = <<>>

Begin ==
    /\ ~open
    /\ open' = TRUE
    /\ UNCHANGED <<work, bases, ended, durable>>

Do(w) ==
    /\ IF open THEN work' = Append(work, w) /\ UNCHANGED durable
               ELSE durable' = Append(durable, w) /\ UNCHANGED work
    /\ UNCHANGED <<open, bases, ended>>

Enter ==
    /\ open
    /\ bases' = Append(bases, work)
    /\ UNCHANGED <<open, work, ended, durable>>

Keep ==
    /\ bases # <<>>
    /\ bases' = Front(bases) /\ ended' = "kept"
    /\ UNCHANGED <<open, work, durable>>

Undo ==
    /\ bases # <<>>
    /\ work' = Last(bases)
    /\ bases' = Front(bases) /\ ended' = "undone"
    /\ UNCHANGED <<open, durable>>

End(result) ==
    /\ open /\ bases = <<>>
    /\ open' = FALSE /\ work' = <<>>
    /\ durable' = durable \o result
    /\ UNCHANGED <<bases, ended>>

Next ==
    \/ Begin \/ Enter \/ Keep \/ Undo
    \/ \E w \in Writes : Do(w)
    \/ End(work) \/ End(<<>>)

Spec == Init /\ [][Next]_vars
=============================================================================
