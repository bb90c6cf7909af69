SPECIFICATION Spec
CONSTANTS
    Tasks = {t1, t2, t3, t4}
    Observed = {t1, t2, t3, t4}
    Conns = {k1, k2}
    NoConn = NoConn
    PoolSize = 1
    MaxOverflow = 1
    MayClose = FALSE
    AbortMayFail = FALSE
SYMMETRY Symmetry
INVARIANTS
    NoHoldAndWait
