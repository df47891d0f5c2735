\* Two clients of any kind, a stop at any moment, fair scheduling.
CONSTANTS
    Client = {c1, c2}
    None = None
SPECIFICATION FairSpec
INVARIANTS
    RequestsAreWhole
    RightAnswer
PROPERTIES
    Stops
    Served
\* The launcher ends.
CHECK_DEADLOCK FALSE
