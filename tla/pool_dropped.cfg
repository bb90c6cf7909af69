SPECIFICATION HangingSpec
CONSTANTS
    Tasks = {t1, t2}
    Observed = {t1, t2}
    Conns = {k1}
    NoConn = NoConn
    PoolSize = 1
    MaxOverflow = 0
    MayClose = FALSE
    AbortMayFail = FALSE
PROPERTIES
    DroppedSessionLeaves
