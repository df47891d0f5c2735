SPECIFICATION Spec
CONSTANTS
    BridgeNeedsPE = TRUE
    MaxCrashes = 2
INVARIANTS
    FinishedIsDocumented
    DocumentedOrderGoesThrough
    StuckExplained
