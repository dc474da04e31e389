SPECIFICATION WorkingTreeSpec
CONSTANTS
  Modes = {"capture"}
  Streams = {"out"}
  Callbacks = {}
  MaxOut = 2
  InputLen = 2
  PipeSize = 1
  CaptureCap = 1
  MaxKids = 0
  MaxFaults = 0
PROPERTY
  CaptureCompletes
CHECK_DEADLOCK FALSE
