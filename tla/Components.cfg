CONSTANTS
  Objects = {"a"}
  Managers = {"a"}
  ManagerOf <- OwnManager
  AutoManagers = {"a"}
  Interval = 2
  RemoveDelay = 1
  MaxUse = 2
  MaxChanges = 3
  Fallible = {"a"}
  Byte = {"x", "y"}
  Garbage = "?"
  InitLen = 2
  LeastLen = 3
  MaxRead = 2
  MaxAppend = 3
  MaxLen = 6
  Payload = {0, 1, 2}
  MaxCells = 5
  MaxBreaks = 2
  IdStart = 1
  IdNumMax = 9
  Step = 2
  IdInit = 2
  Increase = 1
  Keys = {"a", "b", "c"}
  Capacity = 2
  AliveTime = 0
  NoKey = "none"
  MaxVersion = 1
  Logins = {"l"}
  GameServers = {"g"}
  NoServer = "none"
  MaxLost = 1
  MaxRestarts = 1
SPECIFICATION Spec
INVARIANTS
  ComponentsTypeOK
  ContentsInBlock
  FramesIntact
  ChangesKept
PROPERTIES
  SavedAtLast
  BytesInOrder
  
  GivenOutInTurn
  LongestUnusedGoes
  ClosedIsCleared
\* Nothing happens any more once the bounds are reached.
CHECK_DEADLOCK FALSE
