SPECIFICATION StreamSpec
CONSTANTS
  MaxConnections = 2
  ObserveCalls = FALSE
  MaxMessages = 4
  MaxPackets = 2
  BufSize = 24
  LoginSize = 8
  NoticeSize = 1
  NoticeRequest = 1
  GameMessages = {"other"}
INVARIANTS
  MessagesInOrder
  PacketOwnership
PROPERTIES
  WriteBufferStable
