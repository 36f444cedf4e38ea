CONSTANTS
  Clients = {c1, c2}
  Fds = {f1}
  None = None
  MaxPacketOverLoad = 3
  MaxIn = 1
  MaxOut = 1
  AddMayFail = FALSE
  KickFlags = {}
  MayStop = FALSE
SPECIFICATION Spec
INVARIANT DerefFindsClient
