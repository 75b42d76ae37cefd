-------------------------- MODULE MCDecisionPolicy --------------------------
(***************************************************************************)
(* Instances of DecisionPolicy for TLC.  web is a Deployment whose pod has *)
(* a generated name, bare a pod nothing controls (so its service is the    *)
(* pod itself), dns a protected service.                                   *)
(***************************************************************************)
EXTENDS DecisionPolicy

CONSTANTS web, bare, dns, webPod, app, kube, strong, fair, weak, grown, system,
          throttleAll, askFirst, onlyAbuse

MCOwnerOf == [p \in Pod |-> IF p = webPod THEN web ELSE p]
MCNamespaceOf == [s \in Service |-> IF s = dns THEN kube ELSE app]

(* Confidences on both sides of the thresholds, and on them.               *)
MCReport ==
  [a \in Anomaly |->
    [service |-> IF a = system THEN dns ELSE IF a = fair THEN bare ELSE web,
     cost |-> 1,
     confidence |-> IF a = weak THEN 599 ELSE IF a = fair THEN 849 ELSE 850,
     explained |-> a = grown]]

MCRule ==
  [p \in Policy |->
    [classifications |-> IF p = onlyAbuse THEN {"suspected_abuse"} ELSE {},
     min_confidence |-> 0, min_cost |-> 1, services |-> {},
     requires_approval |-> p = askFirst,
     action |-> "throttle",
     priority |-> IF p = throttleAll THEN 100 ELSE 10]]
=============================================================================
