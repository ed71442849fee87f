\* A buffer-mode stream beside another or beside a multi-result stream, chunks that
\* cut frames inside and after their headers, small buffers, results at and above the
\* threshold, and every fault but a lost length.
SPECIFICATION Spec
CONSTANTS
    Streams = {1, 2}
    MultiStreams = {2}
    Sizes = {3, 5}
    ItemLists <- MCItemLists
    ChunkSizes = {1, 4}
    BufLens = {1, 4}
    Threshold = 3
    WriteChunkSize = 2
    Faults = {"execute", "create", "spill", "write", "remove"}
    SharedMillisecond = FALSE
    None = None
INVARIANTS
    ResultIsOwn
    NoOrphanFiles
PROPERTIES
    ItemsAsTheyArrive
\* Every stream may have ended.
CHECK_DEADLOCK FALSE
