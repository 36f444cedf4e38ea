CONSTANTS
  Servers = {s1}
  MaxId = 2
  Menu <- FullMenu
  Passports = {"p"}
  Roles = {}
  MaxTime = 4
  MaxBoots = 2
  MaxFails = 1
  IdGaps = TRUE
  ClockSteps = TRUE
SPECIFICATION GmSpec
INVARIANTS
  GmTypeOK
PROPERTIES
  StatusForward
\* Nothing happens any more once the bounds are reached.
CHECK_DEADLOCK FALSE
