SPECIFICATION ArenaSpec
CONSTANTS
  PageSize = 4
  VirtualSizes = {3, 31}
  Granularities = {3, 8}
  Base = 4
  HeaderSize = 3
  Sizes = {0, 3, 9, 17}
  Alignments = {1, 2, 8}
  MaxAddress = 24
INVARIANTS
  ArenaTypeOK
  BlocksCommitted
  BlocksDisjoint
  OnDemand
CHECK_DEADLOCK FALSE
