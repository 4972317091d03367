\* Liveness: Stop returns, an exit is reported and no byte stays behind, with
\* Write holding the mutex and a queue of one byte.
SPECIFICATION FairSpec
CONSTANTS
    MaxQueued = 1
    ReadBuffer = 1
    Modulus = 9
    TakeSizes <- OneByte
    WriteSizes <- ShortWrite
    Columns <- Narrow
    ExitCodes <- OneCode
    Ignorable <- HupAndTerm
    KernelOut = 1
    KernelIn = 1
    Echo = FALSE
    MaxBytes = 2
    MaxSessions = 1
PROPERTIES
    StopReturns ExitReported EveryByteConsumed
