SPECIFICATION LinkSpec
CONSTANTS
  Clients = {a}
  Me = a
  Blocks = {p}
  Fds = {0, 1}
  PREFIXES = 2
  MaxConns = 3
  MaxSends = 2
  MaxTun = 1
  MaxAssigns = 1
  MaxExits = 0
  MaxInputs = 3
  MaxFaults = 1
INVARIANTS LinkTypeOK OneSocket
PROPERTIES ServerSpec Reconnects RoutedToConnection CloseNoticed
CHECK_DEADLOCK FALSE
