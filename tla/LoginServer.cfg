SPECIFICATION LoginFairSpec
CONSTANTS
  MaxConnections = 2
  ObserveCalls = FALSE
  Keys = {k1, k2}
  Nothing = Nothing
  WriteBufSize = 512
  AnswerSizes <- RealSizes
INVARIANTS
  LoginTypeOK
  NoSecretLeft
PROPERTIES
  OneAnswer
  LoginEnds
