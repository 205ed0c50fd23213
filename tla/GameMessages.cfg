SPECIFICATION GameFairSpec
CONSTANTS
  MaxConnections = 1
  ObserveCalls = FALSE
  MaxPackets = 3
  BufSize = 24
  LoginSize = 5
  NoticeSize = 3
  NoticeRequest = 4
  GameMessages = {"garbled", "empty", "logout", "bad_say", "item", "say_14", "say_15", "say", "other"}
INVARIANTS
  GameTypeOK
  WrapAlwaysFits
  QueueShape
PROPERTIES
  GivenUpIsFinal
  LossesAreDrops
  ToldIsDropped
