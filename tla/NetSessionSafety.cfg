\* Two connections share one descriptor: the second is accepted on the number
\* the first one closed.
CONSTANTS
  Clients = {c1, c2}
  Fds = {f1}
  None = None
  MaxPacketOverLoad = 1
  MaxIn = 2
  MaxOut = 1
  AddMayFail = TRUE
  KickFlags = {"flush"}
  MayStop = TRUE
SPECIFICATION Spec
SYMMETRY Symmetry
INVARIANTS
  TypeOK
  SessionPointerSafe
  CloseOwnSocket
  FreedIsQuiet
  CallbackOnLiveObject
  OfflineOnce
  NoLostWakeup
\* The process ends after a termination signal.
CHECK_DEADLOCK FALSE
