SPECIFICATION Spec
CONSTANTS
  MaxConnections = 2
  ReadbufSize = 2
  Sockets = {s1, s2}
  INVALID_SOCKET = INVALID_SOCKET
  Bytes = {}
  ByteBase = 2
  MaxAvail = 0
  SendRoom = 0
  MaxOutput = 0
  PollMayFail = TRUE
SYMMETRY SocketSymmetry
INVARIANTS
  PollAssert
