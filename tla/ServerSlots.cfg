SPECIFICATION Spec
CONSTANTS
  MaxConnections = 3
  ReadbufSize = 2
  Sockets = {s1, s2, s3}
  INVALID_SOCKET = INVALID_SOCKET
  Bytes = {}
  ByteBase = 2
  MaxAvail = 0
  SendRoom = 0
  MaxOutput = 0
  PollMayFail = TRUE
SYMMETRY SocketSymmetry
INVARIANTS
  TypeOK
  NoLostSlot
  SocketOwned
  NoZombie
CHECK_DEADLOCK FALSE
