\* Three sessions, two process ids, crashes, utility processes that may stay.
CONSTANTS
    Session = {1, 2, 3}
    Pid = {p1, p2}
    NoPid = NoPid
    MaxTries = 1
SPECIFICATION SessionFairSpec
INVARIANTS
    LeftoversAreTold
    RunningKeepsProfile
PROPERTIES
    SummaryIsWritten
\* The sessions are over.
CHECK_DEADLOCK FALSE
