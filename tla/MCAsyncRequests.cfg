\* Two connections, three starts, two slots, ids modulo 3: the counter wraps
\* into ids that are in use.
SPECIFICATION Spec
CONSTANTS
    Conns = {c1, c2}
    Tickets = {k1, k2, k3}
    MaxRequests = 2
    MaxAttempts = 3
    IdModulus = 3
    None = None
SYMMETRY Symmetry
INVARIANTS
    DeliveredAtMostOnce
    HonouredCancelGivesNoData
    RequestsHaveConnections
    IdAvailableBelowCap
PROPERTIES
    ImplementsTable
CHECK_DEADLOCK FALSE
