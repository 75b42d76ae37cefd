SPECIFICATION Spec
CONSTANTS
  a1 = a1  a2 = a2  a3 = a3  svcV = svcV  svcK = svcK  svcG = svcG  NoService = NoService
  Anomaly = {a1}
  Service = {svcV}
  Protected = {}
  Deployed = {svcV}
  InitialSpec <- MCInitialSpec
  ServiceOf <- AllOnV
  Pod = {"p1"}
  Guarded = {}
  Offered = {"throttle"}
  Authority = {"autonomous"}
  MaxActions = 1  Window = 1
  MaxPerService = 1  ServiceWindow = 1
  RollbackWindow = 1
  FaultKind = {"redelivery"}  MaxFaults = 1
  MaxTime = 0  MaxRequests = 1
INVARIANT PatchReconstructable
CHECK_DEADLOCK FALSE
