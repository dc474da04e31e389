SPECIFICATION Spec
CONSTANTS
  Pids = {1, 2, 3, 4}
  System = {4}
  Roots = {1, 4}
  MaxBirths = 4
  MaxMoves = 2
  MaxOdd = 1
INVARIANTS
  ReportIsTrue
  SurvivorsExplained
  ChildrenFirst
  StrangerOnlyByReuse
CHECK_DEADLOCK FALSE
