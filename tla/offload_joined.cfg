SPECIFICATION Spec
CONSTANTS
    Calls = {c1}
    Tokens = 1
    HookMayFail = FALSE
    RecoveryMayFail = TRUE
    Backends = {"asyncio"}
INVARIANTS
    WorkerJoinedBeforeRecovery
