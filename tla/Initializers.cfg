SPECIFICATION Spec
CONSTANT Declarations <- Declared
CONSTANT InitialisersOf <- InitialisersFor
CONSTANT MaxInt = 400
INVARIANT FieldsApart
INVARIANT LayoutAsAbi
INVARIANT ClassifiedAsAbi
INVARIANT InitialisedAsC
CHECK_DEADLOCK FALSE
