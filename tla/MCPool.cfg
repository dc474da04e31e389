SPECIFICATION FairSpec
CONSTANTS
  Width = 2
  MaxTries = 2
  MaxItems = 2
  MaxRogue = 1
INVARIANTS
  ExactlyOnce
  RetryAccount
  NoMissedWakeup
PROPERTIES
  ImplementsBatch
  BatchIsDecided
CHECK_DEADLOCK FALSE
