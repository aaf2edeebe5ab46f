SPECIFICATION TransfersSpec
CONSTANTS
    Task = {t1, t2, t3}
    Levels = {2, 3}
INVARIANTS
    NothingOrphaned
PROPERTIES
    ReferConfirmed
    ToolsReturn
CHECK_DEADLOCK FALSE
