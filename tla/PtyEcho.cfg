\* A long Write to a child that answers each byte it reads.
SPECIFICATION LiveChildSpec
CONSTANTS
    MaxQueued = 2
    ReadBuffer = 1
    Modulus = 9
    TakeSizes <- OneByte
    WriteSizes <- LongWrite
    Columns <- Narrow
    ExitCodes <- OneCode
    Ignorable <- NoSignal
    KernelOut = 1
    KernelIn = 1
    Echo = TRUE
    MaxBytes = 7
    MaxSessions = 1
PROPERTIES
    WriteReturns
