SPECIFICATION Spec
CONSTANTS
  a1 = a1  a2 = a2  a3 = a3  svcV = svcV  svcK = svcK  svcG = svcG  NoService = NoService
  Anomaly = {a1, a2, a3}
  Service = {svcV, svcK, svcG}
  Protected = {svcK}
  Deployed = {svcV, svcK, svcG}
  InitialSpec <- MCInitialSpec
  ServiceOf <- OneOnEach
  Pod = {"p1"}
  Guarded = {svcG}
  Offered = {"throttle", "alert_only"}
  Authority = {"autonomous", "approval"}
  MaxActions = 1  Window = 1
  MaxPerService = 2  ServiceWindow = 1
  RollbackWindow = 0
  FaultKind = {"redelivery", "error", "edit", "anomaly_redelivery", "retry", "publish_error", "policy_publish_error", "lost"}  MaxFaults = 1
  MaxTime = 1  MaxRequests = 3
INVARIANTS TypeOK ProtectedUntouched ExecutedCeiling ApprovedBeforePatch
PROPERTIES ExpiredIsFinal IsAuditTrail
CHECK_DEADLOCK FALSE
