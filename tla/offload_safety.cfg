\* Two calls for one token, on either event loop; everything may fail.
SPECIFICATION CancelSpec
CONSTANTS
    Calls = {c1, c2}
    Tokens = 1
    HookMayFail = TRUE
    RecoveryMayFail = TRUE
    Backends = {"asyncio", "trio"}
INVARIANTS
    TypeOK
    TokensMatchWorkers
    DriverConcurrencyBounded
    NothingOutlivesTheCall
    NoUnwatchedThread
    AbortedCallRaises
    ErrorNeverAborts
    GenuineErrorSurfacesBare
    FailedRecoverySurfaces
    SurvivorSettled
    BackendParity
PROPERTIES
    LateCancelKeepsConnection
    ImplementsContract
    RecoveryCompletes
    EveryCallEnds
    CancelledCallEnds
