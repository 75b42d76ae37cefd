----------------------------- MODULE AuditTrail -----------------------------
(***************************************************************************)
(* What the audit trail promises its readers (infra/sql/init.sql, NFR-5):  *)
(* it only grows, and every entry is justified by an earlier one it points *)
(* back at, so that the state of an incident and the reason for every      *)
(* action are "derived by reading forward".  Three services write it       *)
(* without talking to each other; Remediation implements this module, and  *)
(* Incidents is a reader that relies on nothing else.                      *)
(***************************************************************************)
EXTENDS Naturals, Sequences

CONSTANTS
  Anomaly,   (* anomaly ids                                                 *)
  Remedies   (* the actions a decision may ask for                          *)

VARIABLE trail

None == 0

Entry(a, parent, ref, action, result) ==
  [anomaly |-> a, parent |-> parent, ref |-> ref, action |-> action, result |-> result]

Write(a, parent, ref, action, result) ==
  trail' = Append(trail, Entry(a, parent, ref, action, result))

Having(result) == {i \in DOMAIN trail : trail[i].result = result}

TrailInit == trail = << >>

(* decision-policy decides on an anomaly: at once, or subject to approval. *)
Decide(a, remedy) ==
  \E result \in {"dispatched", "pending_approval"} : Write(a, None, None, remedy, result)

(* Or it withholds action: nothing may answer such an entry.               *)
Withhold(a, action) ==
  \/ Write(a, None, None, action, "blocked_by_protected_floor")
  \/ action = "alert_only" /\ Write(a, None, None, action, "alert_only_no_action_taken")
  \/ action # "alert_only" /\ Write(a, None, None, action, "alert_only_low_confidence")

(* A human approves: the dispatch is for what entry p asked approval for.  *)
Approve(p) ==
  /\ p \in Having("pending_approval")
  /\ Write(trail[p].anomaly, p, None, trail[p].action, "dispatched")

(* A human asks to reverse what entry e carried out.                       *)
AskReversal(e) ==
  /\ e \in Having("executed")
  /\ Write(trail[e].anomaly, e, e, "rollback", "dispatched")

(* A dispatch is answered: it never left, or the executor's outcome.  Only *)
(* a reversal is answered by a reversal, of the entry it was asked to      *)
(* reverse.                                                                *)
DispatchFailed(d) ==
  /\ d \in Having("dispatched")
  /\ Write(trail[d].anomaly, d, None, trail[d].action, "dispatch_failed")

RemedyOutcome ==
  {"executed", "no_op", "unsupported_action", "blocked_by_protected_floor",
   "blocked_by_global_rate_limit", "blocked_by_per_service_rate_limit"}

Outcome(d) ==
  /\ d \in Having("dispatched")
  /\ \/ \E result \in RemedyOutcome :
          /\ trail[d].action # "rollback"
          /\ Write(trail[d].anomaly, d, None, trail[d].action, result)
     \/ \E result \in {"rolled_back", "rollback_window_expired"} :
          /\ trail[d].action = "rollback"
          /\ Write(trail[d].anomaly, d, trail[d].ref, "rollback", result)
     \/ /\ trail[d].action = "rollback"
        /\ Write(trail[d].anomaly, d, None, "rollback", "rollback_failed_no_reference")

TrailNext ==
  /\ trail' # trail
  /\ \/ \E a \in Anomaly, remedy \in Remedies : Decide(a, remedy)
     \/ \E a \in Anomaly, action \in Remedies \cup {"alert_only"} : Withhold(a, action)
     \/ \E i \in DOMAIN trail :
          Approve(i) \/ AskReversal(i) \/ DispatchFailed(i) \/ Outcome(i)

TrailSpec == TrailInit /\ [][TrailNext]_trail
=============================================================================
