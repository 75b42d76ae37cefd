---------------------------- MODULE MCIncidents -----------------------------
(***************************************************************************)
(* An instance of Incidents for TLC: anomalies are numbered as flagged.    *)
(***************************************************************************)
EXTENDS Incidents

MCAnomaly == 1 .. 2
=============================================================================
