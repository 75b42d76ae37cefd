--------------------------- MODULE DecisionPolicy ---------------------------
(***************************************************************************)
(* The Decision & Policy Engine (services/decision-policy/app).  Three     *)
(* consumer threads share two in-memory dicts: the lifecycle and security  *)
(* threads write them, the anomaly thread reads them to classify.  The     *)
(* anomaly thread then updates the anomaly's row, reads the policies table *)
(* (which an SRE edits through api-bff meanwhile), appends a decision to   *)
(* the ledger, and publishes it when it is autonomous.                     *)
(*                                                                         *)
(* _handle_anomaly is one action per read of shared state and per call to  *)
(* the database or broker:                                                 *)
(*    security -> deployment -> annotate -> match -> record -> publish     *)
(* and a restart may strike between any two, which also empties the dicts. *)
(***************************************************************************)
EXTENDS Integers, Sequences, FiniteSets

CONSTANTS
  Anomaly, Service, Pod, Namespace,
  NoPod,             (* resource.pod of an event that is not about a pod    *)
  OwnerOf,           (* the workload the collector's resolver names for a   *)
                     (* pod: the pod itself when nothing controls it        *)
  NamespaceOf,
  Policy, Rule,      (* policy ids, and the row each stands for             *)
  InitialPolicies,   (* the policies table at the start                     *)
  Report, Protected, (* see DecisionContract                                *)
  DeploymentWindow,  (* RECENT_DEPLOYMENT_WINDOW_MINUTES                    *)
  SecurityWindow,    (* SECURITY_SIGNAL_WINDOW_MINUTES                      *)
  FaultKind, MaxFaults,
  MaxEvents,         (* bound: lifecycle events, signals and policy edits   *)
  MaxTime            (* bound: ticks of the clock                           *)

Verdict == {"legitimate_traffic_growth", "suspected_abuse",
            "likely_bug_from_deployment", "misconfiguration_or_waste"}
Action  == {"alert_only", "throttle"}  (* one remedy stands for all         *)

RuleRow ==
  [classifications : SUBSET Verdict, min_confidence : Nat, min_cost : Nat,
   services : SUBSET Service, requires_approval : BOOLEAN,
   action : Action, priority : Int]
ReportRow == [service : Service, cost : Nat, confidence : Nat, explained : BOOLEAN]

ASSUME DecisionAssumption ==
  /\ IsFiniteSet(Anomaly)
  /\ OwnerOf \in [Pod -> Service]
  /\ NamespaceOf \in [Service -> Namespace]
  /\ Rule \in [Policy -> RuleRow]
  /\ InitialPolicies \subseteq Policy
  /\ Report \in [Anomaly -> ReportRow]
  /\ Protected \subseteq Service
  /\ DeploymentWindow \in Nat /\ SecurityWindow \in Nat
  /\ MaxFaults \in Nat /\ MaxEvents \in Nat /\ MaxTime \in Nat

VARIABLES
  lifecycle,       (* decision-policy.lifecycle                             *)
  security,        (* decision-policy.security                              *)
  inbox,           (* decision-policy.anomalies                             *)
  recent_events,   (* _recent_events: when a key last saw a deployment      *)
  recent_security, (* _recent_security: when a service last saw a signal    *)
  task,            (* the anomaly the third thread is handling              *)
  policies,        (* the policies table                                    *)
  verdict,         (* anomalies.classification                              *)
  rows, sent,      (* see DecisionContract                                  *)
  now, events, faults,
  deployed,        (* history: when a deployment of a service was last seen *)
  deliveries,      (* history: how often each anomaly was delivered         *)
  dropped          (* history: anomalies nacked without requeue             *)

memory == <<recent_events, recent_security, deployed>>
queues == <<lifecycle, security, inbox>>
tables == <<policies, verdict, rows, sent>>
history == <<deliveries, dropped>>
vars == <<queues, memory, task, tables, now, events, faults, history>>

Contract == INSTANCE DecisionContract

LifecycleEvent == [deployment_like : BOOLEAN, pod : Pod \cup {NoPod}, about : Service]

DecisionRow ==
  [anomaly : Anomaly, action : Action, mode : {"autonomous", "approved"},
   result  : {"blocked_by_protected_floor", "alert_only_no_action_taken",
              "alert_only_low_confidence", "pending_approval", "dispatched"},
   because : Verdict]  (* history: the classification the decision was made on *)

EmptyDict == [k \in {} |-> 0]

NoTask == [pc |-> "idle"]
NoRow  == [result |-> "none"]
Task ==
  [pc : {"security", "deployment", "annotate", "match", "record", "publish", "ack"},
   anomaly   : Anomaly,
   class     : Verdict \cup {"unclassified"},
   row       : DecisionRow \cup {NoRow},
   signalled : SUBSET Nat,  (* history: what the dicts held when the        *)
   deployed  : SUBSET Nat]  (* anomaly was delivered, at most one time each *)

Init ==
  /\ lifecycle = << >> /\ security = << >>
  /\ \E order \in [1 .. Cardinality(Anomaly) -> Anomaly] :
       /\ \A i, j \in DOMAIN order : order[i] = order[j] => i = j
       /\ inbox = order
  /\ recent_events = EmptyDict /\ recent_security = EmptyDict /\ deployed = EmptyDict
  /\ task = NoTask
  /\ policies = InitialPolicies
  /\ verdict = [a \in Anomaly |-> "unclassified"]
  /\ rows = << >> /\ sent = {}
  /\ now = 0 /\ events = 0 /\ faults = 0
  /\ deliveries = [a \in Anomaly |-> 0]
  /\ dropped = {}

At(pc) == task.pc = pc
ServiceOfTask == Report[task.anomaly].service
Event == events < MaxEvents /\ events' = events + 1
Fault(kind) == kind \in FaultKind /\ faults < MaxFaults /\ faults' = faults + 1

(* d[k] = t of a Python dict, and d.get(k) as a set of at most one value.  *)
Put(d, k, t) == [x \in DOMAIN d \cup {k} |-> IF x = k THEN t ELSE d[x]]
Get(d, k) == {d[x] : x \in DOMAIN d \cap {k}}
Recent(times, window) == \E t \in times : now <= t + window

----------------------------------------------------------------------------
(* The lifecycle and security threads                                      *)

(* Mutant: no fallback to the namespace when the event names no pod.       *)
KeyOfPodOnly(event) == event.pod

(* "namespace/pod", or the namespace alone for a Deployment or HPA event.  *)
Key(event) == IF event.pod # NoPod THEN event.pod ELSE NamespaceOf[event.about]

HandleLifecycle ==
  /\ lifecycle # << >>
  /\ LET event == Head(lifecycle) IN
     IF event.deployment_like
     THEN /\ recent_events' = Put(recent_events, Key(event), now)
          /\ deployed' = Put(deployed, event.about, now)
     ELSE UNCHANGED <<recent_events, deployed>>
  /\ lifecycle' = Tail(lifecycle)
  /\ UNCHANGED <<security, inbox, recent_security, task, tables, now, events, faults, history>>

HandleSecuritySignal ==
  /\ security # << >>
  /\ recent_security' = Put(recent_security, Head(security), now)
  /\ security' = Tail(security)
  /\ UNCHANGED <<lifecycle, inbox, recent_events, deployed, task, tables, now, events, faults, history>>

----------------------------------------------------------------------------
(* The anomaly thread                                                      *)

Take ==
  /\ At("idle")
  /\ inbox # << >>
  /\ LET a == Head(inbox) IN
     /\ task' = [pc |-> "security", anomaly |-> a, class |-> "unclassified", row |-> NoRow,
                 signalled |-> Get(recent_security, Report[a].service),
                 deployed |-> Get(deployed, Report[a].service)]
     /\ deliveries' = [deliveries EXCEPT ![a] = @ + 1]
  /\ inbox' = Tail(inbox)
  /\ UNCHANGED <<lifecycle, security, memory, tables, now, events, faults, dropped>>

(* Mutant: deployment correlation is consulted before security.            *)
ReadDeploymentFirst ==
  /\ At("security")
  /\ task' =
       IF Report[task.anomaly].explained
       THEN [task EXCEPT !.class = "legitimate_traffic_growth", !.pc = "annotate"]
       ELSE IF Recent(Get(recent_events, ServiceOfTask), DeploymentWindow)
       THEN [task EXCEPT !.class = "likely_bug_from_deployment", !.pc = "annotate"]
       ELSE [task EXCEPT !.pc = "deployment"]
  /\ UNCHANGED <<queues, memory, tables, now, events, faults, history>>

(* _classify, first half: the detector's verdict is final, and security    *)
(* corroboration outranks deployment correlation.                          *)
ReadSecurity ==
  /\ At("security")
  /\ task' =
       IF Report[task.anomaly].explained
       THEN [task EXCEPT !.class = "legitimate_traffic_growth", !.pc = "annotate"]
       ELSE IF Recent(Get(recent_security, ServiceOfTask), SecurityWindow)
       THEN [task EXCEPT !.class = "suspected_abuse", !.pc = "annotate"]
       ELSE [task EXCEPT !.pc = "deployment"]
  /\ UNCHANGED <<queues, memory, tables, now, events, faults, history>>

(* _classify, second half: the dict is keyed by pod or namespace, and      *)
(* looked up by service.                                                   *)
ReadDeployment ==
  /\ At("deployment")
  /\ task' = [task EXCEPT !.pc = "annotate", !.class =
                IF Recent(Get(recent_events, ServiceOfTask), DeploymentWindow)
                THEN "likely_bug_from_deployment" ELSE "misconfiguration_or_waste"]
  /\ UNCHANGED <<queues, memory, tables, now, events, faults, history>>

(* UPDATE anomalies SET classification; a movement that traffic explains   *)
(* ends here.                                                              *)
Annotate ==
  /\ At("annotate")
  /\ verdict' = [verdict EXCEPT ![task.anomaly] = task.class]
  /\ task' = [task EXCEPT !.pc = IF task.class = "legitimate_traffic_growth"
                                 THEN "ack" ELSE "match"]
  /\ UNCHANGED <<queues, memory, policies, rows, sent, now, events, faults, history>>

(* policy_matches: an absent field (here 0, or an empty list) matches all. *)
Matches(p) ==
  LET rule == Rule[p]
      report == Report[task.anomaly] IN
  /\ report.confidence >= rule.min_confidence
  /\ rule.classifications # {} => task.class \in rule.classifications
  /\ report.cost >= rule.min_cost
  /\ rule.services # {} => report.service \in rule.services

(* ORDER BY priority ASC, first match; rows of equal priority come in any  *)
(* order.                                                                  *)
FirstMatch ==
  LET matching == {p \in policies : Matches(p)} IN
  {p \in matching : \A q \in matching : Rule[p].priority <= Rule[q].priority}

(* Mutant: approval demands a weak score and a policy that asks for it.    *)
ResultNeedingBoth(p) ==
  LET report == Report[task.anomaly]
      authority == Contract!Authority(report.confidence) IN
  IF report.service \in Protected THEN "blocked_by_protected_floor"
  ELSE IF Rule[p].action = "alert_only" THEN "alert_only_no_action_taken"
  ELSE IF authority = "alert_only" THEN "alert_only_low_confidence"
  ELSE IF authority = "approval" /\ Rule[p].requires_approval THEN "pending_approval"
  ELSE "dispatched"

(* The floor, the policy's action, and the authority the confidence earns, *)
(* in the order the handler checks them.                                   *)
Result(p) ==
  LET report == Report[task.anomaly]
      authority == Contract!Authority(report.confidence) IN
  IF report.service \in Protected THEN "blocked_by_protected_floor"
  ELSE IF Rule[p].action = "alert_only" THEN "alert_only_no_action_taken"
  ELSE IF authority = "alert_only" THEN "alert_only_low_confidence"
  ELSE IF authority = "approval" \/ Rule[p].requires_approval THEN "pending_approval"
  ELSE "dispatched"

RowFor(p) ==
  [anomaly |-> task.anomaly, action |-> Rule[p].action,
   mode |-> IF Result(p) = "pending_approval" THEN "approved" ELSE "autonomous",
   result |-> Result(p), because |-> task.class]

(* No policy matched: alert only, and not even a row.                      *)
Match ==
  /\ At("match")
  /\ IF FirstMatch = {} THEN task' = [task EXCEPT !.pc = "ack"]
     ELSE \E p \in FirstMatch : task' = [task EXCEPT !.pc = "record", !.row = RowFor(p)]
  /\ UNCHANGED <<queues, memory, tables, now, events, faults, history>>

Record ==
  /\ At("record")
  /\ rows' = Append(rows, task.row)
  /\ task' = [task EXCEPT !.pc = IF task.row.result = "dispatched" THEN "publish" ELSE "ack"]
  /\ UNCHANGED <<queues, memory, policies, verdict, sent, now, events, faults, history>>

(* The row just recorded is the last: only this thread appends here.       *)
Publish ==
  /\ At("publish")
  /\ sent' = sent \cup {Len(rows)}
  /\ task' = [task EXCEPT !.pc = "ack"]
  /\ UNCHANGED <<queues, memory, policies, verdict, rows, now, events, faults, history>>

Ack ==
  /\ At("ack")
  /\ task' = NoTask
  /\ UNCHANGED <<queues, memory, tables, now, events, faults, history>>

----------------------------------------------------------------------------
(* Faults                                                                  *)

(* A call to the database or the broker raises: consume() nacks without    *)
(* requeue and the anomaly is gone.                                        *)
Raise ==
  /\ \E pc \in {"annotate", "match", "record", "publish"} : At(pc)
  /\ Fault("error")
  /\ dropped' = dropped \cup {task.anomaly}
  /\ task' = NoTask
  /\ UNCHANGED <<queues, memory, tables, now, events, deliveries>>

(* The broker connection drops under the handler: the ack fails and the    *)
(* anomaly is delivered again to the same process.                         *)
AckFails ==
  /\ At("ack")
  /\ Fault("reconnect")
  /\ inbox' = <<task.anomaly>> \o inbox
  /\ task' = NoTask
  /\ UNCHANGED <<lifecycle, security, memory, tables, now, events, history>>

(* The pod restarts: the unacknowledged anomaly comes back and both dicts  *)
(* start empty.                                                            *)
Restart ==
  /\ Fault("restart")
  /\ inbox' = IF At("idle") THEN inbox ELSE <<task.anomaly>> \o inbox
  /\ task' = NoTask
  /\ recent_events' = EmptyDict /\ recent_security' = EmptyDict /\ deployed' = EmptyDict
  /\ UNCHANGED <<lifecycle, security, tables, now, events, history>>

----------------------------------------------------------------------------
(* The rest of the system                                                  *)

(* The collector publishes an event about a pod (deployment-like or not),  *)
(* or about the Deployment or HPA of a service.                            *)
Observe ==
  /\ Event
  /\ \E event \in LifecycleEvent :
       /\ event.pod # NoPod => event.about = OwnerOf[event.pod]
       /\ lifecycle' = Append(lifecycle, event)
  /\ UNCHANGED <<security, inbox, memory, task, tables, now, faults, history>>

Signal ==
  /\ Event
  /\ \E s \in Service : security' = Append(security, s)
  /\ UNCHANGED <<lifecycle, inbox, memory, task, tables, now, faults, history>>

(* create_policy and delete_policy of api-bff.                             *)
EditPolicies ==
  /\ Event
  /\ \E p \in Policy : policies' = IF p \in policies THEN policies \ {p} ELSE policies \cup {p}
  /\ UNCHANGED <<queues, memory, task, verdict, rows, sent, now, faults, history>>

Tick ==
  /\ now < MaxTime
  /\ now' = now + 1
  /\ UNCHANGED <<queues, memory, task, tables, events, faults, history>>

HandleAnomaly ==
  Take \/ ReadSecurity \/ ReadDeployment \/ Annotate \/ Match \/ Record \/ Publish \/ Ack

Next ==
  \/ HandleLifecycle \/ HandleSecuritySignal \/ HandleAnomaly
  \/ Raise \/ AckFails \/ Restart
  \/ Observe \/ Signal \/ EditPolicies \/ Tick

Spec == Init /\ [][Next]_vars

----------------------------------------------------------------------------
(* Properties                                                              *)

IsDict(d, keys) == DOMAIN d \subseteq keys /\ d \in [DOMAIN d -> Nat]

TypeOK ==
  /\ lifecycle \in Seq(LifecycleEvent)
  /\ security \in Seq(Service)
  /\ inbox \in Seq(Anomaly)
  /\ IsDict(recent_events, Pod \cup Namespace)
  /\ IsDict(recent_security, Service)
  /\ IsDict(deployed, Service)
  /\ task \in Task \cup {NoTask}
  /\ policies \subseteq Policy
  /\ verdict \in [Anomaly -> Verdict \cup {"unclassified"}]
  /\ rows \in Seq(DecisionRow)
  /\ sent \subseteq Nat
  /\ now \in Nat /\ events \in Nat /\ faults \in Nat
  /\ deliveries \in [Anomaly -> Nat]
  /\ dropped \subseteq Anomaly

(* "Policy can narrow [authority] further but never widen it": whatever    *)
(* the policies are and however they are edited while an anomaly is being  *)
(* handled, every decision appended and every request sent is one the      *)
(* contract permits: made once per delivery, on the class that is stored,  *)
(* although every redelivery classifies afresh.                            *)
KeepsContract == Contract!Spec

(* "Security corroboration outranks deployment correlation", across the    *)
(* three threads: a signal the process had handled before the anomaly was  *)
(* delivered, and that is still inside its window, is never classified     *)
(* away as a deployment bug or as waste.                                   *)
SecurityOutranksDeployment ==
  ~At("idle") /\ task.class \in {"likely_bug_from_deployment", "misconfiguration_or_waste"} =>
    ~Recent(task.signalled, SecurityWindow)

(* "Cost spike shortly after a deploy": an anomaly on a service whose      *)
(* deployment this process saw within the window is not classified as      *)
(* plain waste.                                                            *)
DeploymentCorrelated ==
  ~At("idle") /\ task.class = "misconfiguration_or_waste" =>
    ~Recent(task.deployed, DeploymentWindow)
=============================================================================
