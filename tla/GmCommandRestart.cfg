CONSTANTS
  Servers = {s1}
  MaxId = 1
  Menu <- OrderMenu
  Passports = {"p"}
  Roles = {}
  MaxTime = 4
  MaxBoots = 2
  MaxFails = 0
  IdGaps = FALSE
  ClockSteps = FALSE
SPECIFICATION GmSpec
INVARIANTS
  AuthAsRequested
\* Nothing happens any more once the bounds are reached.
CHECK_DEADLOCK FALSE
