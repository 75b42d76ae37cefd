---------------------------- MODULE MCCollection ----------------------------
(***************************************************************************)
(* An instance of Collection for TLC: both pods start as replicas of the   *)
(* Deployment "web"; "agent" is a DaemonSet.                               *)
(***************************************************************************)
EXTENDS Collection

Replicas == [p \in Pod |-> "web"]
=============================================================================
