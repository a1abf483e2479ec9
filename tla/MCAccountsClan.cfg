SPECIFICATION SafeSpec
CONSTANTS
    NumSlots = 1
    Name = {"ann"}
    Login = {"ann"}
    TooLong = {}
    Cut <- MCCut
    Item = {"ore"}
    MaxUsers = 2
    MaxJobs = 2
    MaxLogins = 2
    MaxValue = 0
    Plays = {"profile"}
    Faults = FALSE
    Patient = FALSE
    Reloads = FALSE
PROPERTIES
    ClanStored
CHECK_DEADLOCK FALSE
