CONSTANTS
  LoginServers = {1}
  Clients = {c1}
  AccountNames = {}
  TokenNames = {t1}
  Anonymous = {}
  Origins = {o1, o2}
  None = None
  MaxPassports = 2
  MaxRoles = 2
  MaxStarts = 2
  MaxLosses = 0
SPECIFICATION AccSpec
SYMMETRY Symmetry
INVARIANTS
  FreshRole
\* Nothing happens any more once the bounds are reached.
CHECK_DEADLOCK FALSE
