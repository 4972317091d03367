\* The whole transport over two sessions: more bytes than the queue holds, with
\* partial reads and drains that race the reader, and a child that may ignore
\* the gentler signals.
SPECIFICATION Spec
CONSTANTS
    MaxQueued = 3
    ReadBuffer = 2
    Modulus = 9
    TakeSizes <- TwoSizes
    WriteSizes <- ShortWrite
    Columns <- Narrow
    ExitCodes <- OneCode
    Ignorable <- HupAndTerm
    KernelOut = 3
    KernelIn = 1
    Echo = FALSE
    MaxBytes = 4
    MaxSessions = 2
INVARIANTS
    TypeOK QueueBounded QueueAccounting StreamIntact ExitedMeansDrained
    SnapshotCoherent EscalationOwnsPid StopComplete
PROPERTIES
    KeepsContract
