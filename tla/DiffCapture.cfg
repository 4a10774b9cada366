SPECIFICATION Spec
CONSTANTS
  PipeCapacity = 3
  ReadMax = 4
  MaxJson = 5
CHECK_DEADLOCK FALSE
INVARIANTS
  TypeOK
  CompleteCapture
  OutputRestored
  OnlyTheAnswer
PROPERTIES
  FittingDiffEnds
