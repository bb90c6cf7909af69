SPECIFICATION Spec
CONSTANTS
    Tasks = {t1, t2, t3}
    Observed = {t1, t2, t3}
    Conns = {k1, k2, k3, k4}
    NoConn = NoConn
    PoolSize = 1
    MaxOverflow = 1
    MayClose = TRUE
    AbortMayFail = TRUE
SYMMETRY Symmetry
INVARIANTS
    TypeOK
    ExclusiveCheckout
    CountExact
    TransientTokens
    NoPoisonedIdle
    OffloadsBounded
    TokenLeftForCheckIn
PROPERTIES
    ImplementsPool
