\* Three threads under fair scheduling, holders that eventually release;
\* allocation always succeeds.
CONSTANTS
    Thread = {t1, t2, t3}
    None = None
    AllocMayFail = FALSE
SPECIFICATION FairSpec
INVARIANTS
    MutualExclusion
    ObjectTellsState
PROPERTIES
    WriterPreference
    ImplementsRWLock
    EverybodyServed
CHECK_DEADLOCK TRUE
