SPECIFICATION Spec
CONSTANTS
  Publishers = {1, 2}
  Attempts = 2
  MaxMeddling = 2
  MaxFaults = 1
INVARIANTS
  DestinationIsKept
  ResultIsTrue
  NewcomerSurvives
  NoLitter
  GivesUpOnlyWhenChanged
CHECK_DEADLOCK FALSE
