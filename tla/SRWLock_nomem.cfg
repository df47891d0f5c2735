\* Three threads, allocation may fail: what still holds.
CONSTANTS
    Thread = {t1, t2, t3}
    None = None
    AllocMayFail = TRUE
SYMMETRY ThreadSymmetry
SPECIFICATION Spec
INVARIANTS
    StateSurvivesFailure
    NoStrandedWaiter
CHECK_DEADLOCK TRUE
