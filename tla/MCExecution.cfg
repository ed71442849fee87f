SPECIFICATION Spec
CONSTANTS
    None = None
    I32Len = 2
    I64Len = 3
    CompressAbove = 5
    MaxParamPayload = 4
    Engines <- AllEngines
    Plugins = {"oracle", "other"}
    Calls <- SmallCalls
    Scripts <- SmallScripts
    Faults = {"execute", "fetch", "more"}
    Limiting = {"oracle"}
    RowLimit = 1
    MaxPositional = 2
    MaxOutText = 2
INVARIANTS AnswerIsWhole InputsArrive TruncationDetected
