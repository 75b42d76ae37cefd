--------------------------- MODULE MCRemediation ----------------------------
(***************************************************************************)
(* Instances of Remediation for TLC: svcV is a Deployment with an HPA,     *)
(* svcK one the executor protects, svcG one decision-policy protects.  CPU *)
(* limits start at 5 (units of 100m), replica ceilings at 3 with 2         *)
(* replicas running.                                                       *)
(***************************************************************************)
EXTENDS Remediation

CONSTANTS a1, a2, a3, svcV, svcK, svcG

MCInitialSpec == [s \in Service |-> [cpu |-> 5, max |-> 3, replicas |-> 2]]

(* Anomalies on one workload, or one on each.                              *)
AllOnV == [a \in Anomaly |-> svcV]
OneOnEach == [a \in Anomaly |-> CASE a = a1 -> svcV [] a = a2 -> svcK [] OTHER -> svcG]
=============================================================================
