SPECIFICATION WalkSpec
CONSTANTS
  Width = 2
  MaxDepth = 2
  Trees <- GoodTrees
  Options <- Commands
  MaxSwaps = 1
  MaxFaults = 1
INVARIANTS
  Accounted
  RowsAgree
  EscapeNeedsASwap
  CanonTellsApart
CHECK_DEADLOCK FALSE
