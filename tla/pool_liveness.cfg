SPECIFICATION HangingSpec
CONSTANTS
    Tasks = {t1, t2, t3}
    Observed = {t1}
    Conns = {k1, k2}
    NoConn = NoConn
    PoolSize = 1
    MaxOverflow = 1
    MayClose = FALSE
    AbortMayFail = FALSE
PROPERTIES
    CheckInCompletes
    CheckoutEnds
    EveryStepEnds
