SPECIFICATION Spec
CONSTANTS
    Capacity = 1
    Interrupts = 1
    Calls <- SmallCalls
INVARIANT OutputComplete
INVARIANT InputComplete
INVARIANT NothingLeft
PROPERTY StreamsConnected
PROPERTY Terminates
CHECK_DEADLOCK FALSE
