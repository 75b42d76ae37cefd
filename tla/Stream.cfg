SPECIFICATION FairSpec
CONSTANTS
  Session = {"open", "other"}
  Fickle = {"other"}
  MaxQueued = 1
  MaxAlerts = 3
  MaxFaults = 1
INVARIANTS TypeOK SlowHarmsOnlyItself
PROPERTIES AlertsFlow LeaversForgotten
CHECK_DEADLOCK FALSE
