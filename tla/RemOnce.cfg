SPECIFICATION FairSpec
CONSTANTS
  a1 = a1  a2 = a2  a3 = a3  svcV = svcV  svcK = svcK  svcG = svcG  NoService = NoService
  Anomaly = {a1, a2}
  Service = {svcV}
  Protected = {}
  Deployed = {svcV}
  InitialSpec <- MCInitialSpec
  ServiceOf <- AllOnV
  Pod = {"p1"}
  Guarded = {}
  Offered = {"throttle", "freeze_scaling"}
  Authority = {"autonomous"}
  MaxActions = 4  Window = 1
  MaxPerService = 2  ServiceWindow = 1
  RollbackWindow = 1
  FaultKind = {"redelivery", "retry", "publish_error", "autoscale"}  MaxFaults = 1
  MaxTime = 0  MaxRequests = 4
INVARIANTS ServiceExecutedCeiling ThrottlesNeverStack DispatchedIsInFlight
INVARIANTS ReconstructableUnlessCut UndoRestoresPrior AllReversedIsOriginal
PROPERTY EventuallyAnswered
CHECK_DEADLOCK FALSE
