CONSTANTS
  Servers = {s1}
  MaxId = 2
  Menu <- FullMenu
  Passports = {"p"}
  Roles = {r1}
  MaxTime = 7
  MaxBoots = 3
  MaxFails = 0
  IdGaps = FALSE
  ClockSteps = FALSE
SPECIFICATION PacedSpec
INVARIANTS
  RoleSees
PROPERTIES
  InOrder
  RoleOnce
  Settled
\* Nothing happens any more once the bounds are reached.
CHECK_DEADLOCK FALSE
