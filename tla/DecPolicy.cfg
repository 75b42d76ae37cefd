SPECIFICATION Spec
CONSTANTS
  web = web  bare = bare  dns = dns  webPod = webPod  app = app  kube = kube  NoPod = NoPod
  strong = strong  fair = fair  weak = weak  grown = grown  system = system
  throttleAll = throttleAll  askFirst = askFirst  onlyAbuse = onlyAbuse
  Anomaly = {strong, fair, system}
  Service = {web, bare, dns}
  Pod = {webPod, bare}
  Namespace = {app, kube}
  OwnerOf <- MCOwnerOf
  NamespaceOf <- MCNamespaceOf
  Policy = {throttleAll, askFirst}
  Rule <- MCRule
  InitialPolicies = {throttleAll}
  Report <- MCReport
  Protected = {dns}
  DeploymentWindow = 1
  SecurityWindow = 0
  FaultKind = {"error", "reconnect", "restart"}  MaxFaults = 1
  MaxEvents = 2
  MaxTime = 1
INVARIANTS TypeOK SecurityOutranksDeployment
PROPERTY KeepsContract
CHECK_DEADLOCK FALSE
