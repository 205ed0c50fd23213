SPECIFICATION GameSpec
CONSTANTS
  MaxConnections = 1
  ObserveCalls = FALSE
  MaxPackets = 3
  BufSize = 24
  LoginSize = 5
  NoticeSize = 3
  NoticeRequest = 4
  GameMessages = {"other"}
INVARIANTS
  NoPacketLeak
