SPECIFICATION FairSpec
CONSTANTS
  Pod = {"pod1", "pod2"}
  Mortal = {"pod1"}
  Workload = {"web", "agent"}
  Replicated = {"web"}
  InitialOwner <- Replicas
  Ttl = 2
  MaxTime = 2
  MaxChurn = 1
  MaxFaults = 1
INVARIANTS TypeOK BookedUnderOwnName
PROPERTY ForgottenOnceGone
CHECK_DEADLOCK FALSE
