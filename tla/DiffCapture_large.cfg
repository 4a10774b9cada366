SPECIFICATION Spec
CONSTANTS
  PipeCapacity = 3
  ReadMax = 4
  MaxJson = 4
CHECK_DEADLOCK FALSE
PROPERTIES
  DiffEnds
