SPECIFICATION FairSpec
CONSTANTS
    Task = {t1, t2}
    MaxGlares = 2
    Errands <- MCErrands
INVARIANTS
    Settled
PROPERTIES
    CauseReported
    EndsFinish
CHECK_DEADLOCK FALSE
