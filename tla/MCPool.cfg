\* Pool 1 is closed and resized only while idle, pool 2 at any time.
SPECIFICATION Spec
CONSTANTS
    Threads = {t1, t2}
    Sizes = {1, 2}
    PooledBase = 5
    MaxPools = 2
    MaxInsts = 2
    MaxCheckouts = 3
    Quiet = {1}
SYMMETRY Symmetry
INVARIANTS
    CheckoutsWithinSize
    IdsServeOneUser
    CleanCheckout
CONSTRAINT OneRefusal
CHECK_DEADLOCK FALSE
