SPECIFICATION Spec
CONSTANT Documents <- MCDocuments
CHECK_DEADLOCK FALSE
INVARIANTS
  IdsAreUnique
  CitationsAreSolved
  EntriesAreSelected
  FieldsAreInherited
  LabelsTellApart
