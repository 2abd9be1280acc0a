SPECIFICATION Spec
CONSTANTS
  Documents <- MCDocuments
  MaxLoops = 8
CHECK_DEADLOCK FALSE
INVARIANTS
  ColumnsAreSpecified
  CellsUseTheirColumn
  RulesAreKept
