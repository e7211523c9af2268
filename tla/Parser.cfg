\* The parser with the compiler's own tables.
SPECIFICATION Spec
CONSTANTS
    Rules <- MCRules
    Actions <- MCActions
    Gotos <- MCGotos
    Words <- MCWords
    Programs <- MCPrograms
    End <- MCEnd
INVARIANT NamesAsDeclared
INVARIANT NothingLeftOver
INVARIANT BodiesAsWritten
PROPERTY OperandsOwn
\* The parse ends.
CHECK_DEADLOCK FALSE
