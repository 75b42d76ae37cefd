SPECIFICATION Spec
CONSTANTS
  Thread = {t1, t2}
  MaxCalls = 1
  Prefetch = 1
  MaxDelay = 4
  FaultKind = {}
  MaxFaults = 0
INVARIANT RaisesOnlyIfDisturbed
CHECK_DEADLOCK FALSE
