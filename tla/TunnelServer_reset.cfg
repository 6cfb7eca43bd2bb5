SPECIFICATION FairSpec
CONSTANTS
  Clients = {a}
  Blocks = {p}
  Fds = {0, 1, 2}
  PREFIXES = 2
  MaxConns = 1
  MaxSends = 1
  MaxTun = 0
  MaxAssigns = 0
  MaxExits = 0
  MaxInputs = 1
PROPERTY DisconnectNoticed
CHECK_DEADLOCK FALSE
