\* Liveness of Stop when the console host keeps the pipe until it is closed.
SPECIFICATION FairSpec
CONSTANTS
    MaxQueued = 1
    ReadBuffer = 1
    MaxDimension = 8
    TakeSizes <- OneByte
    Columns <- Narrow
    ExitCodes <- OneCode
    PipeOut = 1
    MaxBytes = 2
    MaxSessions = 1
PROPERTIES
    StopReturns
