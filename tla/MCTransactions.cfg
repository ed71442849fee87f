\* A connection that obeys, one that may fail, and one on which calls may overlap.
SPECIFICATION HSpec
CONSTANTS
    Threads = {h, t}
    HelperThreads = {h}
    Conns = {c1, c2, c3}
    Shared = {c3}
    Faulty = {c2}
    Writes = {w1, w2}
    MaxTxns = 2
    Helper = "runInTransaction"
    None = None
INVARIANTS
    TableFollowsConnections
    HelpersTellTheTruth
PROPERTIES
    ImplementsAtomic
CONSTRAINT TwoConnections
CHECK_DEADLOCK FALSE
