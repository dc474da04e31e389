CONSTANTS
  Width = 2
  MaxTries = 2
  MaxItems = 2
  MaxRogue = 0
SPECIFICATION Spec
INVARIANT WorkHasAWorker
CHECK_DEADLOCK FALSE
