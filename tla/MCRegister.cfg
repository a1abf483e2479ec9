SPECIFICATION FairSpec
CHECK_DEADLOCK FALSE
CONSTANTS
  Protocol = {1, 2}
  Settings = {{1}, {1, 2}}
  Initial = {1}
  Threads = 2
  MaxJobs = 3
  MaxSerial = 1
  MaxChanges = 2
  MaxFaults = 1
INVARIANTS TypeOK KnownDelivered
PROPERTY Registered
