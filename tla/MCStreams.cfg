\* Two threads and two streams on one connection under fairness: one that may be
\* polled, with two batches of two chunks or without rows and with a worker that may
\* panic, and one without a cursor.  The disconnect may find a transaction.
SPECIFICATION FairSpec
CONSTANTS
    Threads = {t1, t2}
    Conns = {c1}
    Streams = {s1, s2}
    AsyncStreams = {s1}
    MaxBatches = 2
    s1 = s1
    s2 = s2
    Results <- TwoResults
    Pieces = 2
    Panics = {s1}
    None = None
INVARIANTS
    ChunksInOrder
    CancelIsHeard
PROPERTIES
    DroppedStreamsLetGo
    DisconnectReturns
\* All streams may have ended and all connections been closed.
CHECK_DEADLOCK FALSE
