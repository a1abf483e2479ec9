SPECIFICATION Spec
CONSTANTS
    Slot = {s1, s2}
    Account = {a1, a2}
    Shared = {}
    Langs = {0}
    ClanName = {elf}
    Amount = {1000}
    Buyable = {"add_money"}
    MaxClans = 2
    MaxJobs = 2
    MaxRequests = 1
    MaxBank = 1000
    MaxFaults = 1
SYMMETRY Symmetry
INVARIANTS
    TypeOK
    UniqueClanNames
    CacheAgrees
    ClanKnown
PROPERTIES
    BankKept
CHECK_DEADLOCK FALSE
