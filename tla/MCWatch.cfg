SPECIFICATION FairSpec
CONSTANTS
  MaxChanges = 4
  QueueMax = 2
  OsMax = 2
  MaxFaults = 1
INVARIANTS
  NoSilentGap
  EventIsTheQueue
  StopIsClean
PROPERTIES
  ChangeWakes
CHECK_DEADLOCK FALSE
