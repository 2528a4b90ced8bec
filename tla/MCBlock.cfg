CONSTANTS
  H = 8
  MaxBlocks = 130
  None = None
  Cores = {c1, c2}
  Authorizers = {a1, a2}
  PoolMaxSize = 3
  QueueSize = 2
  MaxAuths = 2
SPECIFICATION MCSpec
INVARIANTS RecentBlocks RangesComplete PoolsInv
PROPERTIES PoolsInOrder
CHECK_DEADLOCK FALSE
