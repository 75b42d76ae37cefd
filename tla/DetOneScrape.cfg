SPECIFICATION Spec
CONSTANTS
  web = web
  Service = {web}
  MinSamples = 2
  Dwell = 3
  MaxSuppressed = 2
  Replicas = 3
  Maturity = 3
  Corroboration = 0
  Cost = {12, 40}
  Rate = {102, 140}
  WarmCost <- MCWarmCost
  WarmRate <- MCWarmRate
  FaultKind = {}  MaxFaults = 0
  MaxScrape = 1
  MaxTraffic = 1
  MaxHour = 0
INVARIANT IncidentSpansScrapes
CHECK_DEADLOCK FALSE
