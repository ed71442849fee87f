\* A call with a deadline, whose query may never end, and one without, in either
\* order; the worker is lost once, and any timer may run out at any time.
SPECIFICATION CFairSpec
CONSTANTS
    Ids = {1, 2}
    Tickets = {e, p}
    Pollers = {p}
    Endless = {e}
    MaxOpen = 1
    MaxRestarts = 1
    Error = Error
    None = None
INVARIANTS
    AnswersAreOwn
    NothingLeftBehind
PROPERTIES
    CallersAnswered
CHECK_DEADLOCK FALSE
