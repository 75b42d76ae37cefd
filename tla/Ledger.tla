------------------------------- MODULE Ledger -------------------------------
(***************************************************************************)
(* The audit ledger `actions_log` (infra/sql/init.sql), the one piece of   *)
(* state that decision-policy, api-bff and remediation-executor share.     *)
(*                                                                         *)
(* A ledger is a sequence of rows and a row's id is its position: the      *)
(* table is append-only (BEFORE UPDATE / BEFORE DELETE triggers raise), so *)
(* no row ever moves or changes.  Order of insertion and order of          *)
(* executed_at agree, because every writer stamps the row on insertion.    *)
(***************************************************************************)
EXTENDS Naturals, Sequences, FiniteSets

CONSTANTS
  Anomaly,     (* anomaly ids                                               *)
  Service,     (* service ids, "namespace/workload"                         *)
  NoService    (* the empty service "" api-bff puts in a rollback message   *)

ASSUME NoServiceIsNoService == NoService \notin Service

None == 0  (* NULL in parent_action_id and rollback_ref: row ids start at 1 *)

(* RemediationAction values the executor implements, and the two it does   *)
(* not (quarantine, terminate), which it answers alike.                    *)
Remedy == {"throttle", "freeze_scaling", "unsupported"}

(* prior_state: what rollback() needs to restore.  A CPU limit and a       *)
(* replica ceiling are both naturals here (see Cluster in Executor).       *)
Snapshot == [kind : {"cpu", "max"}, service : Service, value : Nat]
NoSnapshot == [kind |-> "none", service |-> NoService, value |-> 0]

Outcome ==
  {"executed", "no_op", "rolled_back", "blocked_by_protected_floor",
   "blocked_by_global_rate_limit", "blocked_by_per_service_rate_limit",
   "unsupported_action", "rollback_failed_no_reference",
   "rollback_window_expired"}

Decision == {"dispatched", "pending_approval"}

(* Decisions to do nothing, with the reason.                               *)
Withheld ==
  {"blocked_by_protected_floor", "alert_only_no_action_taken",
   "alert_only_low_confidence"}

RowFields ==
  [anomaly : Anomaly, parent : Nat, ref : Nat,
   action  : Remedy \cup {"alert_only", "rollback"},
   mode    : {"autonomous", "approved"},
   at      : Nat,
   result  : Outcome \cup Decision \cup Withheld \cup {"dispatch_failed"},
   service : Service \cup {NoService},
   prior   : Snapshot \cup {NoSnapshot}]
Row == {r \in RowFields : r.result = "pending_approval" => r.action \in Remedy}

(* Rows the rate limiter counts.                                           *)
Counted(row) == row.result \in {"executed", "rolled_back"}

(* Mutant: `executed_at > since` where the code has `>=`.                  *)
RecentActionsExclusive(log, t, window) ==
  {i \in DOMAIN log : Counted(log[i]) /\ log[i].at + window > t}

(* The ids of the rows of `log` stamped no earlier than `window` before    *)
(* `t` and counted by the limiter.                                         *)
RecentActions(log, t, window) ==
  {i \in DOMAIN log : Counted(log[i]) /\ log[i].at + window >= t}

RecentActionsOn(log, t, window, s) ==
  {i \in RecentActions(log, t, window) : log[i].service = s}

(* Mutant: the query forgets its anomaly_id filter.                        *)
RowsOfAnyAnomaly(log, a, result) == {i \in DOMAIN log : log[i].result = result}

(* Rows of anomaly a with the given result; ORDER BY executed_at DESC      *)
(* LIMIT 1 yields the latest of them, if there is any.                     *)
RowsOf(log, a, result) ==
  {i \in DOMAIN log : log[i].anomaly = a /\ log[i].result = result}

Latest(ids) == {i \in ids : \A j \in ids : j <= i}

(* "Current state is derived by reading forward": a decision is answered   *)
(* once some row points back at it.                                        *)
Answered(log, i) == \E j \in DOMAIN log : log[j].parent = i
=============================================================================
