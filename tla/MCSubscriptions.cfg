CONSTANTS
  Keys = {k1, k2}
  Subscribers = {s1, s2}
  SetIds = {0}
  Publishers = {p1}
  MaxHandles = 2
  MaxEvents = 2
  Parts = {"engine", "dispatcher", "bound", "manager", "object", "modules"}
  Threads = {a, b, c}
  MaxAccesses = 3
  EngineIds = {a, b}
  Callers = {a, b, c}
  MaxCalls = 4
  HandlersCount = 1
  PoolSize = 1
  Uploaders = {k1, k2}
  MaxTasks = 3
  Schedulers = {s1, s2}
  MaxBinds = 2
  BoundUploaders = {k1}
  MaxBoundTasks = 2
  Libraries <- SomeLibraries
  MaxFinished = 3
  None = None
  Nothing = Nothing
SPECIFICATION MCSpec
INVARIANTS IteratorsValid OneEntryPerSubscription DispatcherInv ManagerInv ObjectInv ModulesInv
CHECK_DEADLOCK FALSE
