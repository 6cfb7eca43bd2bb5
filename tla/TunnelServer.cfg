SPECIFICATION Spec
CONSTANTS
  Clients = {a, b}
  Blocks = {p}
  Fds = {0, 1}
  PREFIXES = 2
  MaxConns = 2
  MaxSends = 2
  MaxTun = 2
  MaxAssigns = 2
  MaxExits = 1
  MaxInputs = 3
INVARIANTS TypeOK EntryOfConnection RoutesToOwner NothingForgotten
SYMMETRY Symmetry
CHECK_DEADLOCK FALSE
