SPECIFICATION DialSpec
CONSTANTS
    Gateways <- AllGateways
    MaxStale = 1
    MaxRepeats = 2
INVARIANTS
    FailedLeavesNothing
PROPERTIES
    DialEnds
CHECK_DEADLOCK FALSE
