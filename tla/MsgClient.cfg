SPECIFICATION FairSpec
CONSTANTS
  Thread = {t1}
  MaxCalls = 2
  Prefetch = 2
  MaxDelay = 4
  FaultKind = {"reap", "down", "broken_write", "channel_error", "handler_error", "crash", "stop"}
  MaxFaults = 2
INVARIANTS TypeOK RaisesOnlyIfDisturbed NoLeak
PROPERTIES AtLeastOnce ConsumerSurvives
CHECK_DEADLOCK FALSE
