SPECIFICATION Spec
CONSTANTS
    MaxPtys = 2
    OutCap = 2
    InCap = 1
    Chunk = 2
    WriteChunk = 1
    QueueLimit = 2
    SendLen = 2
    MaxSaid = 3
    MaxSends = 1
    MaxFaults = 1
INVARIANTS OutputIsKept SendIsOver TeardownIsClean
PROPERTY CallsReturn
CHECK_DEADLOCK FALSE
