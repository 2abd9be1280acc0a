SPECIFICATION Spec
CONSTANT Documents <- MCDocuments
CHECK_DEADLOCK FALSE
INVARIANTS
  OuterStaysOut
  BracesBalance
PROPERTIES
  ArgumentsAreMatched
  EdefIsFullExpansion
