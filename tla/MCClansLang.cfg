SPECIFICATION Spec
CONSTANTS
    Slot = {s1, s2}
    Account = {1, 2}
    Shared = {2}
    Langs = {1}
    ClanName = {elf}
    Amount = {}
    Buyable = {}
    MaxClans = 1
    MaxJobs = 1
    MaxRequests = 1
    MaxBank = 0
    MaxFaults = 0
SYMMETRY Slots
INVARIANTS
    ClanKnown
CHECK_DEADLOCK FALSE
