CONSTANTS
  Clients = {c1}
  Fds = {f1}
  None = None
  MaxPacketOverLoad = 3
  MaxIn = 1
  MaxOut = 1
  AddMayFail = FALSE
  KickFlags = {}
  MayStop = TRUE
SPECIFICATION FairSpec
PROPERTY StopEndsWorld
CHECK_DEADLOCK FALSE
