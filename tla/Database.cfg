CONSTANTS
  Servers = {s1, s2}
  MaxId = 2
  Menu <- ShortMenu
  Passports = {"p"}
  Roles = {}
  MaxTime = 3
  MaxBoots = 3
  MaxFails = 1
  IdGaps = TRUE
  ClockSteps = FALSE
  LoginServers = {0, 1}
  Clients = {c1, c2}
  AccountNames = {a1}
  TokenNames = {}
  Anonymous = {}
  Origins = {o1}
  None = None
  MaxPassports = 2
  MaxRoles = 1
  MaxStarts = 3
  MaxLosses = 1
  Logins = {l1}
  GameServers = {g1, g2}
  NoServer = NoServer
  MaxLost = 1
  MaxRestarts = 0
  Objects = {"a", "b"}
  Managers = {"a", "b"}
  ManagerOf <- OwnManager
  AutoManagers = {"a"}
  Interval = 0
  RemoveDelay = 1
  MaxUse = 1
  MaxChanges = 2
  Fallible = {"b"}
SPECIFICATION Spec
SYMMETRY Symmetry
INVARIANTS
  AccTypeOK
  RunningWasApplied
  OncePerBoot
  FreshPassport
  EntranceHasRole
  OnePerLoginServer
  EntranceRecent
  UpIsAlive
  AssertOnlyAfterShutdown
  ReadsLastChange
  StoredAtStop
PROPERTIES
  StoredForward
\* Nothing happens any more once the bounds are reached.
CHECK_DEADLOCK FALSE
