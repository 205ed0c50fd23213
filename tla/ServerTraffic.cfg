SPECIFICATION FramingSpec
CONSTANTS
  MaxConnections = 1
  ReadbufSize = 2
  Sockets = {s1}
  INVALID_SOCKET = INVALID_SOCKET
  Bytes = {0, 1}
  ByteBase = 2
  MaxAvail = 2
  SendRoom = 2
  MaxOutput = 2
  MaxReceived = 7
  PollMayFail = FALSE
INVARIANTS
  ReadInBounds
  MessagesOfStream
  PollAssert
PROPERTIES
  GracefulDisconnect
  CallbackContract
