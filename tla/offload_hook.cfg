SPECIFICATION Spec
CONSTANTS
    Calls = {c1}
    Tokens = 1
    HookMayFail = TRUE
    RecoveryMayFail = TRUE
    Backends = {"asyncio"}
INVARIANTS
    CancellationAlwaysReraised
