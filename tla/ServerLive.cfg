SPECIFICATION ReadingSpec
CONSTANTS
  MaxConnections = 1
  ReadbufSize = 2
  Sockets = {s1, s2}
  INVALID_SOCKET = INVALID_SOCKET
  Bytes = {1, 3}
  ByteBase = 0
  MaxAvail = 1
  SendRoom = 1
  MaxOutput = 1
  PollMayFail = FALSE
PROPERTIES
  GoneIsDropped
  DoomedIsDropped
  NobodyWaits
