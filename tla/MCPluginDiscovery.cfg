SPECIFICATION Spec
CONSTANTS
  PathDirs <- MCPath
  Names <- MCNames
  InOrder <- MCInOrder
  Unprefixed <- MCUnprefixed
  FirstWord <- MCFirstWord
  FileSystems <- MCFiles
  Builtins <- MCBuiltins
  Implicit <- MCImplicit
  MaxChanges = 1
CHECK_DEADLOCK FALSE
INVARIANTS
  TypeOK
  FirstInPathWins
  SteadyPluginsFound
  EveryNameResolves
PROPERTIES
  PatientlyRuns
