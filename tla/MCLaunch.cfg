SPECIFICATION Spec
CONSTANTS
  MaxText = 4
  Requests <- AllRequests
INVARIANTS
  ArgumentsArrive
  BatchIsInert
  NothingLeftBehind
  NeverLoose
CHECK_DEADLOCK FALSE
