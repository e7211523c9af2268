SPECIFICATION Spec
CONSTANTS
    Ordinary <- MCOrdinary
    Transfers <- MCTransfers
    LabelIds <- MCLabels
    FreshLabel = 10
    MaxLength = 6
INVARIANTS
    LivenessExact
    DominatorsExact
    LoopsEnteredAtHeader
    PreheadersFound
    SamePaths
CHECK_DEADLOCK FALSE
