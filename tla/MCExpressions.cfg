SPECIFICATION Spec
CONSTANTS
  MaxInteger = 127
  MaxDimension = 63
  Unity = 16
  HalfWord = 8
  FractionDigits = 2
  Count <- CountValue
  Dimen = 13
  FontUnits <- MCFontUnits
  Documents <- MCDocuments
INVARIANTS
  ScaleRounds
  ExpressionIsExact
  NumberIsExact
CHECK_DEADLOCK FALSE
