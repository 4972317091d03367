\* Three sessions, each of which may fail, exit early or be restarted, with more
\* output than a tick takes.
SPECIFICATION FairSpec
CONSTANTS
    MaxQueued = 2
    Codes <- OneCode
    Signals <- NoSignals
    PerTick = 1
    MaxBytes = 3
    MaxSessions = 3
INVARIANTS
    TypeOK OneNoticeForAnEnd
PROPERTIES
    SilentTickHidesNothing OutputReachesScreen EndIsTold
CHECK_DEADLOCK FALSE
