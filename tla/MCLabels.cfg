SPECIFICATION Spec
CONSTANT
  Documents <- MCDocuments
CHECK_DEADLOCK FALSE
INVARIANTS
  CurrentAnchorIsInScope
  AnchorAgreesWithLabel
  ReferencesMeetAnchors
  NumbersCount
