SPECIFICATION XSpec
CONSTANTS
    Conns = {c1, c2}
    Xids = {x1, x2}
    MaxXaIds = 3
    RmFaults = {"start", "end", "prepare", "commit", "rollback"}
    None = None
SYMMETRY Symmetry
INVARIANTS  OnlyAskedCommits XaSuccessIsCommitted
PROPERTIES PreparedIsStable
\* Every connection may have been closed and every handle spent.
CHECK_DEADLOCK FALSE
