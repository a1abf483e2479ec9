SPECIFICATION SafeSpec
CONSTANTS
    NumSlots = 2
    Name = {"ann"}
    Login = {"ann"}
    TooLong = {}
    Cut <- MCCut
    Item = {"ore"}
    MaxUsers = 1
    MaxJobs = 2
    MaxLogins = 2
    MaxValue = 0
    Plays = {}
    Faults = FALSE
    Patient = FALSE
    Reloads = FALSE
INVARIANTS
    OneSession
CHECK_DEADLOCK FALSE
