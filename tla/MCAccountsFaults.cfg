SPECIFICATION SafeSpec
CONSTANTS
    NumSlots = 2
    Name = {"ann"}
    Login = {"ann"}
    TooLong = {}
    Cut <- MCCut
    Item = {"ore"}
    MaxUsers = 2
    MaxJobs = 2
    MaxLogins = 2
    MaxValue = 1
    Plays = {"work", "profile"}
    Faults = TRUE
    Patient = FALSE
    Reloads = TRUE
INVARIANTS
    TypeOK
    UniqueNames
    SessionsComplete
CHECK_DEADLOCK FALSE
