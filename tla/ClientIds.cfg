SPECIFICATION IdSpec
CONSTANTS
  MaxConnections = 2
  ObserveCalls = FALSE
  CounterBase = 3
  MaxDrops = 4
INVARIANTS
  IdsDistinguish
CHECK_DEADLOCK FALSE
