SPECIFICATION Spec
CONSTANTS
    QSize = 3
    Backlog = 2
    MaxJobs = 4
INVARIANTS
    TypeOK
    RingHoldsBacklog
    InOrderOnce
    DrainedAtExit
    BackupFirst
PROPERTIES
    ImplementsJobQueue
    ShutdownEnds
CHECK_DEADLOCK FALSE
