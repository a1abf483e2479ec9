SPECIFICATION Spec
CONSTANTS
    QSize = 2
    Backlog = 3
    MaxJobs = 4
INVARIANTS
    DrainedAtExit
CHECK_DEADLOCK FALSE
