SPECIFICATION Spec
CONSTANTS
    NumSlots = 2
    Name = {"ann", "bob"}
    Login = {"ann", "bob", "anna"}
    TooLong = {"anna"}
    Cut <- MCCut
    Item = {"ore"}
    MaxUsers = 2
    MaxJobs = 2
    MaxLogins = 2
    MaxValue = 1
    Plays = {"item", "level", "money"}
    Faults = FALSE
    Patient = TRUE
    Reloads = TRUE
INVARIANTS
    OneShortSession
PROPERTIES
    Conserved
    LoginAnswered
CHECK_DEADLOCK FALSE
