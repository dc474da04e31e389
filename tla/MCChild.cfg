SPECIFICATION Spec
CONSTANTS
  Modes = {"capture", "stream", "channels", "inherit"}
  Streams = {"out"}
  Callbacks = {"out"}
  MaxOut = 2
  InputLen = 1
  PipeSize = 1
  CaptureCap = 1
  MaxKids = 1
  MaxFaults = 1
INVARIANTS
  DoneMeansOver
  ReleaseIsClean
  AllOutputReported
  VerdictIsTrue
PROPERTIES
  ImplementsPromise
CHECK_DEADLOCK FALSE
