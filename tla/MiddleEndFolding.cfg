SPECIFICATION Spec
CONSTANTS
    WordSize = 16
    Fuel = 150
    Units <- MCAliasing
    InlineCaps <- MCInlineCaps
    Spacing = 200
    Inputs <- MCInputs
    FirstId = 30
    FirstLabel = 30
    FoldLimit = 8
INVARIANT FoldingSound
