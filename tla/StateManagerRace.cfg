CONSTANTS
  Requesters = {r1, r2}
  MaxCallbacks = 1
  SignalOnMain = FALSE
  None = None
SPECIFICATION Spec
INVARIANTS ReadyToStopAtEnd
CHECK_DEADLOCK FALSE
