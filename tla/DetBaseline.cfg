SPECIFICATION Spec
CONSTANTS
  web = web
  Service = {web}
  MinSamples = 2
  Dwell = 3
  MaxSuppressed = 2
  Replicas = 2
  Maturity = 3
  Corroboration = 0
  Cost = {12, 40}
  Rate = {102, 140}
  WarmCost <- MCWarmCost
  WarmRate <- MCWarmRate
  FaultKind = {"error", "reconnect", "restart", "duplicate"}  MaxFaults = 1
  MaxScrape = 2
  MaxTraffic = 2
  MaxHour = 1
INVARIANTS TypeOK BaselineUnpoisoned SuppressionBounded CpuKeepsLearning FlaggedOnlyIfHeard DwellUpToRepeats NeverAutonomous
CHECK_DEADLOCK FALSE
