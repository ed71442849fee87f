\* Up to nine rows, so that a bitmap has a second byte and ranges start inside
\* one; three connections' worth of work over two; executes may fail half way.
SPECIFICATION Spec
CONSTANTS
    MaxColumns = 3
    MaxBulkRows = 9
    MaxCellLen = 3
    Null = Null
    Malformed = Malformed
    Tables <- MCTables
    RowCounts = {0, 1, 4, 9}
    NullSets <- MCNullSets
    Parallelisms = {1, 2, 3, 4}
    ParamSet = 2
    PoolSize = 2
    NativeModes = {TRUE, FALSE}
    NativeInTxn = FALSE
    Faults = {"checkout", "begin", "execute", "native"}
    None = None
INVARIANTS
    OnlyPayloadRows
    ReportIsTrue
    FailedWorkIsUndone
\* A behaviour is one call.
CHECK_DEADLOCK FALSE
