----------------------------- MODULE MCDetector -----------------------------
(***************************************************************************)
(* Instances of Detector for TLC: one workload, whose pods have cost ten   *)
(* and twelve so far while it served 100 and 102 requests a second.        *)
(***************************************************************************)
EXTENDS Detector

CONSTANT web

MCWarmCost == Updated(Updated(NoStats, 10), 12)
MCWarmRate == Updated(Updated(NoStats, 100), 102)
=============================================================================
