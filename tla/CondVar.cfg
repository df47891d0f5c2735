\* Three sleepers and a setter under fair scheduling, timeouts and failures allowed.
CONSTANTS
    Thread = {s1, s2, s3, setter}
    Setter = setter
    None = None
    MayFail = TRUE
SPECIFICATION FairSpec
INVARIANTS
    ListWellFormed
    TrueIffWoken
    LockHeldOnReturn
    NoLostWakeup
PROPERTIES
    EverybodyLeaves
\* Every thread ends once the condition is true.
CHECK_DEADLOCK FALSE
