SPECIFICATION Spec
CONSTANTS
    WordSize = 16
    Fuel = 150
    Units <- MCUnits
    InlineCaps <- MCInlineCaps
    Spacing = 200
    Inputs <- MCInputs
    FirstId = 30
    FirstLabel = 30
    FoldLimit = 8
INVARIANTS
    BehaviourKept
    SlotsDisjoint
