CONSTANTS
  LoginServers = {8}
  Clients = {c1}
  AccountNames = {a1}
  TokenNames = {t1, t2}
  Anonymous = {}
  Origins = {o1}
  None = None
  MaxPassports = 4
  MaxRoles = 1
  MaxStarts = 1
  MaxLosses = 0
SPECIFICATION AccSpec
SYMMETRY Symmetry
INVARIANTS
  FreshPassport
\* Nothing happens any more once the bounds are reached.
CHECK_DEADLOCK FALSE
