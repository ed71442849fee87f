\* A plain connection that may be shared, and a pooled one with two sessions.
SPECIFICATION Spec
CONSTANTS
    Threads = {t1, t2}
    PlainIds = {a}
    PooledIds = {p}
    MaxStmts = 1
    Singles = {s1}
    Batches = {b1}
    Limits = {1, 2}
    Sizes = {1, 2}
    MaxSessions = 2
    MaxRequests = 2
    Shareable = {a}
    SharedFns = {"query", "multi", "mparams", "execute"}
    None = None
SYMMETRY Symmetry
INVARIANTS
    OwnResult
    NotReexecuted
    NoCircularWait
    ErrorsAreIsolated
CONSTRAINT SharedAlone
CHECK_DEADLOCK FALSE
