-------------------------- MODULE DecisionContract --------------------------
(***************************************************************************)
(* What the Decision & Policy Engine promises the rest of the system,      *)
(* whatever its policies say: authority is a function of confidence and    *)
(* only of confidence; policy may narrow it and never widen it; a          *)
(* protected service and a movement that traffic explains authorise        *)
(* nothing; each delivery of an anomaly is decided on at most once, and on *)
(* the classification stored with it, so that the trail explains the       *)
(* decision; and nothing is requested that is not in the ledger first.     *)
(* DecisionPolicy implements this specification.                           *)
(***************************************************************************)
EXTENDS Naturals, Sequences, FiniteSets

CONSTANTS
  Anomaly,    (* anomaly ids                                                *)
  Report,     (* what the detector reported: service, cost, confidence (in  *)
              (* thousandths), and whether traffic explains the movement    *)
  Protected   (* services under a protected namespace prefix                *)

VARIABLES
  deliveries, (* how often each anomaly was handed to the engine            *)
  verdict,    (* the classification stored with each anomaly                *)
  rows,       (* the decisions appended to actions_log                      *)
  sent        (* the row ids whose remediation.requested was published      *)

Verdict == {"legitimate_traffic_growth", "suspected_abuse",
            "likely_bug_from_deployment", "misconfiguration_or_waste"}

AutonomousThreshold == 850
ApprovalThreshold   == 600

Authority(confidence) ==
  IF confidence >= AutonomousThreshold THEN "autonomous"
  ELSE IF confidence >= ApprovalThreshold THEN "approval"
  ELSE "alert_only"

Permitted(row) ==
  LET report == Report[row.anomaly] IN
  /\ ~report.explained
  /\ row.result \in {"dispatched", "pending_approval"} =>
       report.service \notin Protected /\ row.action # "alert_only"
  /\ row.result = "dispatched" =>
       Authority(report.confidence) = "autonomous" /\ row.mode = "autonomous"
  /\ row.result = "pending_approval" =>
       Authority(report.confidence) # "alert_only" /\ row.mode = "approved"

Init ==
  /\ deliveries = [a \in Anomaly |-> 0]
  /\ verdict = [a \in Anomaly |-> "unclassified"]
  /\ rows = << >> /\ sent = {}

Deliver ==
  /\ \E a \in Anomaly : deliveries' = [deliveries EXCEPT ![a] = @ + 1]
  /\ UNCHANGED <<verdict, rows, sent>>

Classify ==
  /\ \E a \in Anomaly, class \in Verdict : verdict' = [verdict EXCEPT ![a] = class]
  /\ UNCHANGED <<deliveries, rows, sent>>

DecisionsOn(a) == {i \in DOMAIN rows : rows[i].anomaly = a}

(* A delivery is decided on at most once, and on the stored class.         *)
Decide ==
  /\ Len(rows') = Len(rows) + 1
  /\ LET row == rows'[Len(rows) + 1] IN
     /\ rows' = Append(rows, row)
     /\ Permitted(row)
     /\ row.because = verdict[row.anomaly]
     /\ Cardinality(DecisionsOn(row.anomaly)) < deliveries[row.anomaly]
  /\ UNCHANGED <<deliveries, verdict, sent>>

Request ==
  /\ \E i \in DOMAIN rows : rows[i].result = "dispatched" /\ sent' = sent \cup {i}
  /\ UNCHANGED <<deliveries, verdict, rows>>

Next == Deliver \/ Classify \/ Decide \/ Request

Spec == Init /\ [][Next]_<<deliveries, verdict, rows, sent>>
=============================================================================
