SPECIFICATION Spec
CONSTANTS
    x = x
    y = y
    Names <- MCNames
    CaseValues = {1, 2}
    Menus <- MCMenus
INVARIANT NamesAsC
INVARIANT HomesAsC
INVARIANT JumpsAsWritten
INVARIANT RefusedAsC
CHECK_DEADLOCK FALSE
