SPECIFICATION CompareSpec
CONSTANTS
  Keys <- MCKeys
  Details <- MCDetails
  Trees <- MCTrees
  NoTree = NoTree
  MaxItems = 2
CHECK_DEADLOCK FALSE
INVARIANTS
  NewSocketsShown
