SPECIFICATION Spec
CONSTANTS
  Texts <- AllTexts
  MaxLength = 5
CHECK_DEADLOCK FALSE
INVARIANTS
  CallsOwnEntries
  BranchesAreSelected
PROPERTY
  Terminates
