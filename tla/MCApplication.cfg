CONSTANTS
  Threads = {t1, t2}
  Timeout = 1
  Granularity = 1
  Delay = 0
  W = 2
  MaxTime = 4
  Sessions = {s1, s2, s3}
  Requesters = {r1}
  MaxCallbacks = 4
  ManagerCallbacks = 2
  SignalOnMain = TRUE
  MaxSets = 3
  SenderMoves = 1
  ReceiverMoves = 1
  None = None
  Null = Null
SPECIFICATION MCSpec
INVARIANTS ApplicationInv AlarmIsLate StallDetected MetricsServedInv ChannelInv
PROPERTIES StopsInOrder ApplicationEnds ChannelProgress
CHECK_DEADLOCK FALSE
