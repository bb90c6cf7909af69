SPECIFICATION Spec
CONSTANTS
    Tasks = {owner, t1}
    Owner = owner
    AbortMayFail = FALSE
    Nested = FALSE
INVARIANTS
    ReturnedClean
