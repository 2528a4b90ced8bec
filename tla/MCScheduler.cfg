CONSTANTS
  Tasks = {t}
  Timeouts = {0, 1, 2}
  DefaultWait = 5
  MaxTime = 3
  MaxArrivals = 3
  None = None
  Waiters = {w1, w2}
  Setters = {s1, s2}
SPECIFICATION MCSpec
INVARIANTS NoOversleep BusyIsHonest
PROPERTIES ImplementsDeadlineQueue ImplementsEvent SchedulerProgress
CHECK_DEADLOCK FALSE
