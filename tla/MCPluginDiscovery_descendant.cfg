SPECIFICATION Spec
CONSTANTS
  PathDirs <- MCPath
  Names <- MCNames
  InOrder <- MCInOrder
  Unprefixed <- MCUnprefixed
  FirstWord <- MCFirstWord
  FileSystems <- MCOneFile
  Builtins <- MCBuiltins
  Implicit <- MCImplicit
  MaxChanges = 0
CHECK_DEADLOCK FALSE
PROPERTIES
  CommandRuns
