CONSTANTS
  Clients = {c1, c2}
  Fds = {f1}
  None = None
  MaxPacketOverLoad = 3
  MaxIn = 1
  MaxOut = 1
  AddMayFail = FALSE
  KickFlags = {"flush"}
  MayStop = FALSE
SPECIFICATION DrainSpec
PROPERTIES
  ClosedIsReaped
  KickedIsClosed
