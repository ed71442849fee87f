SPECIFICATION Spec
CONSTANTS
    MaxLen = 2
    ServerLen = 2
    GidLen = 9
    MaxFormat = 8
    None = None
    Workers = {w1, w2}
    Inputs <- MCInputs
    OurFormat = 0
    Others <- MCOthers
    MaxBranches = 3
    MaxFaults = 1
INVARIANTS ResolvedAsDecided CommitAnswerIsTrue
PROPERTIES InDoubtResolved
