SPECIFICATION Spec
CONSTANTS
  Attributes <- FontNames
  Documents <- MCDocuments
  MaxDiv = 1
CHECK_DEADLOCK FALSE
INVARIANTS
  TextIsInItsFont
  ElementsNest
PROPERTY FontChangeShows
