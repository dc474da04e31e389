SPECIFICATION FairSpec
CONSTANTS
  Modes = {"capture", "stream"}
  Streams = {"out"}
  Callbacks = {"out"}
  MaxOut = 1
  InputLen = 1
  PipeSize = 1
  CaptureCap = 1
  MaxKids = 0
  MaxFaults = 1
PROPERTIES
  DeadlineIsEnforced
  KillCompletes
CHECK_DEADLOCK FALSE
