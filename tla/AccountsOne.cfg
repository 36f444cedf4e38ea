CONSTANTS
  LoginServers = {1}
  Clients = {c1}
  AccountNames = {}
  TokenNames = {t1}
  Anonymous = {}
  Origins = {o1, o2}
  None = None
  MaxPassports = 3
  MaxRoles = 6
  MaxStarts = 3
  MaxLosses = 1
SPECIFICATION RetrySpec
INVARIANTS
  SameRoleAgain
PROPERTIES
  ImplementsDirectory
  RoleAtLast
\* Nothing happens any more once the bounds are reached.
CHECK_DEADLOCK FALSE
