\* The whole transport over two sessions, with every failure of Start, fair
\* threads, and a console host that may keep the pipe or leave.
SPECIFICATION FairSpec
CONSTANTS
    MaxQueued = 1
    ReadBuffer = 2
    MaxDimension = 8
    TakeSizes <- OneByte
    Columns <- EdgeSizes
    ExitCodes <- CodesTo259
    PipeOut = 2
    MaxBytes = 2
    MaxSessions = 2
INVARIANTS
    TypeOK HandlesStayOpen NoHandleLeak SnapshotCoherent
PROPERTIES
    KeepsContract StopReturnsIfHostLeaves BlockedReaderReleased ExitReported
