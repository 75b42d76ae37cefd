SPECIFICATION Spec
CONSTANTS
  web = web  bare = bare  dns = dns  webPod = webPod  app = app  kube = kube  NoPod = NoPod
  strong = strong  fair = fair  weak = weak  grown = grown  system = system
  throttleAll = throttleAll  askFirst = askFirst  onlyAbuse = onlyAbuse
  Anomaly = {strong}
  Service = {web}
  Pod = {webPod}
  Namespace = {app}
  OwnerOf <- MCOwnerOf
  NamespaceOf <- MCNamespaceOf
  Policy = {throttleAll, askFirst}
  Rule <- MCRule
  InitialPolicies = {throttleAll}
  Report <- MCReport
  Protected = {}
  DeploymentWindow = 1
  SecurityWindow = 0
  FaultKind = {}  MaxFaults = 0
  MaxEvents = 1
  MaxTime = 1
INVARIANT DeploymentCorrelated
CHECK_DEADLOCK FALSE
