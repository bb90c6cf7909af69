SPECIFICATION FairSpec
CONSTANTS
    Tasks = {owner, t1, t2}
    Owner = owner
    AbortMayFail = TRUE
    Nested = TRUE
INVARIANTS
    TypeOK
    GuardMatchesCall
    OneCallAtATime
    ReturnedClean
PROPERTIES
    BusyOnlyWhenShared
    GuardReleased
