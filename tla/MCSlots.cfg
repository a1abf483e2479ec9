SPECIFICATION FairSpec
CHECK_DEADLOCK FALSE
CONSTANTS
  MaxClients = 2
  Addrs = {"port1", "port2"}
  Ip <- MCIp
  Limits = {1, 2}
  Codes = {"c"}
  NoCode = NoCode
  None = None
  MaxSessions = 3
INVARIANTS LayersAgree Admitted AuthedIsOwn StateKept CodeIsProtected
PROPERTIES AddressLimit Freed
