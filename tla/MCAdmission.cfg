SPECIFICATION AdmissionSpec
CONSTANTS
    Documents <- MCDocuments
    Callers <- MCCallers
    Unresolved = Unresolved
    Offers <- MCOffers
    Knobs <- MCKnobs
    Intercoms <- MCIntercoms
    LegacyOpening <- MCLegacy
    Names = {"door", "gate", "barn", "unsaid"}
    Sessions <- MCSessions
    Proactive <- MCProactive
    Numbers <- MCNumbers
    AllowInline <- MCInline
    AllowFile <- MCFile
INVARIANTS
    ListsDecide
    EffectsAuthorised
    MediaAsAgreed
CHECK_DEADLOCK FALSE
