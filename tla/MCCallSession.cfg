\* A secured call: two verb tasks against the reader, every offer and answer re-keys.
SPECIFICATION Spec
CONSTANTS
    t1 = t1
    t2 = t2
    NoTask = NoTask
    Task = {t1, t2}
    Called = {"hold", "unhold", "refresh", "info", "transfer", "bye"}
    Secured = TRUE
    MaxRequests = 3
    MaxAnswers = 1
INVARIANTS
    VerbsExclude
    GateFollowsAgreement
    LatchKept
PROPERTIES
    KeepsPromise
    VerbsEnd
