CONSTANTS
  Keys = {k1}
  Subscribers = {s1, s2}
  SetIds = {0}
  Publishers = {p1, p2}
  MaxHandles = 2
  MaxEvents = 2
  Parts = {"engine", "dispatcher", "modules"}
  Threads = {a}
  MaxAccesses = 0
  EngineIds = {a}
  Callers = {a}
  MaxCalls = 0
  HandlersCount = 1
  PoolSize = 1
  Uploaders = {k1, k2}
  MaxTasks = 2
  Schedulers = {}
  MaxBinds = 0
  BoundUploaders = {}
  MaxBoundTasks = 0
  Libraries <- Sound
  MaxFinished = 2
  None = None
  Nothing = Nothing
SPECIFICATION MCFairSpec
PROPERTIES NotificationsArrive DispatcherProgress RequestsAnswered
CHECK_DEADLOCK FALSE
