SPECIFICATION Spec
CONSTANTS
  Documents <- MCDocuments
  EveryEof <- MCEveryEof
  Classes <- MCClasses
  DefaultClass = "std"
CHECK_DEADLOCK FALSE
INVARIANTS
  PackagesAreReadAsMeant
  UnusedAreReported
  TextInOrder
  RunawayIsReported
PROPERTY
  Terminates
