---------------------------- MODULE Remediation -----------------------------
(***************************************************************************)
(* The remediation loop: decision-policy and api-bff append a decision to  *)
(* the ledger and then publish it; the executor (module Executor) answers  *)
(* it.  The ledger and the queue are different systems and no transaction  *)
(* spans them, so a decision lives in `outbox` between its row's commit    *)
(* and its publication.                                                    *)
(*                                                                         *)
(* How decision-policy arrives at a decision is module DecisionPolicy's    *)
(* subject; here a policy asks for any action on an anomaly, and the       *)
(* confidence grants any authority over it.                                *)
(***************************************************************************)
EXTENDS Executor

CONSTANTS
  ServiceOf,   (* the service each anomaly was flagged on                   *)
  Guarded,     (* services under decision-policy's own protected prefixes:  *)
               (* its configuration, which need not be the executor's       *)
  Offered,     (* the actions policies ask for in this instance             *)
  Authority,   (* the authorities confidences grant in this instance        *)
  MaxRequests  (* bound: anomalies decision-policy has taken, and approve   *)
               (* and rollback requests an SRE has made, together           *)

ASSUME RemediationAssumption ==
  /\ ServiceOf \in [Anomaly -> Service]
  /\ Guarded \subseteq Service
  /\ Offered \subseteq Remedy \cup {"alert_only"}
  /\ Authority \subseteq {"autonomous", "approval", "alert_only"}
  /\ MaxRequests \in Nat

VARIABLES
  inbox,    (* anomalies decision-policy has not taken yet                  *)
  outbox,   (* decisions in the ledger whose publish() has not returned     *)
  clicks    (* approve and rollback requests made so far                    *)

vars == <<ledger, queue, work, cluster, now, patches, orphans, faults, inbox, outbox, clicks>>

(* A publish() under way: its first attempt, or the one retry.             *)
Origin == {"decision-policy", "api-bff"}
Outgoing == [origin : Origin, msg : Message, attempt : {1, 2}]

Init ==
  /\ ExecutorInit
  /\ ledger = << >>
  /\ inbox  = Anomaly
  /\ outbox = {}
  /\ clicks = 0

----------------------------------------------------------------------------
(* decision-policy                                                         *)

DecisionRow(a, parent, ref, action, mode, result, s) ==
  [anomaly |-> a, parent |-> parent, ref |-> ref, action |-> action,
   mode |-> mode, at |-> now, result |-> result, service |-> s,
   prior |-> NoSnapshot]

NextId == Len(ledger) + 1

MayRequest == Cardinality(Anomaly \ inbox) + clicks < MaxRequests

Take(a) ==
  /\ a \in inbox
  /\ MayRequest
  /\ inbox' = inbox \ {a}

(* What comes before authority: decision-policy's own protected floor, and *)
(* policies that only alert.                                               *)
Actionable(a, action) == ServiceOf[a] \notin Guarded /\ action \in Remedy

(* The decision to do nothing is a row too, of no parent and with no       *)
(* message: the floor comes first, then the policy, then the confidence.   *)
Withhold(a, action) ==
  /\ Take(a)
  /\ \/ ~Actionable(a, action)
     \/ "alert_only" \in Authority
  /\ ledger' = Append(ledger, DecisionRow(a, None, None, action, "autonomous",
                IF ServiceOf[a] \in Guarded THEN "blocked_by_protected_floor"
                ELSE IF action \in Remedy THEN "alert_only_low_confidence"
                ELSE "alert_only_no_action_taken", ServiceOf[a]))
  /\ UNCHANGED <<queue, work, cluster, now, patches, orphans, faults, outbox, clicks>>

(* Confidence at the autonomous band: record `dispatched`, then publish.   *)
DispatchAutonomous(a, remedy) ==
  /\ Take(a) /\ Actionable(a, remedy)
  /\ "autonomous" \in Authority
  /\ ledger' = Append(ledger, DecisionRow(a, None, None, remedy, "autonomous",
                                          "dispatched", ServiceOf[a]))
  /\ outbox' = outbox \cup
       {[origin |-> "decision-policy", attempt |-> 1,
         msg |-> [decision |-> NextId, anomaly |-> a, service |-> ServiceOf[a],
                  action |-> remedy, mode |-> "autonomous", target |-> None]]}
  /\ UNCHANGED <<queue, work, cluster, now, patches, orphans, faults, clicks>>

(* Mutant: the approval branch misses its return and falls through to the  *)
(* publish.                                                                *)
AwaitApprovalAndPublish(a, remedy) ==
  /\ Take(a) /\ Actionable(a, remedy)
  /\ "approval" \in Authority
  /\ ledger' = Append(ledger, DecisionRow(a, None, None, remedy, "approved",
                                          "pending_approval", ServiceOf[a]))
  /\ outbox' = outbox \cup
       {[origin |-> "decision-policy", attempt |-> 1,
         msg |-> [decision |-> NextId, anomaly |-> a, service |-> ServiceOf[a],
                  action |-> remedy, mode |-> "autonomous", target |-> None]]}
  /\ UNCHANGED <<queue, work, cluster, now, patches, orphans, faults, clicks>>

(* Confidence in the approval band, or a policy that requires approval.    *)
AwaitApproval(a, remedy) ==
  /\ Take(a) /\ Actionable(a, remedy)
  /\ "approval" \in Authority
  /\ ledger' = Append(ledger, DecisionRow(a, None, None, remedy, "approved",
                                          "pending_approval", ServiceOf[a]))
  /\ UNCHANGED <<queue, work, cluster, now, patches, orphans, faults, outbox, clicks>>

(* decision-policy dies, or loses its connection, before the anomaly's ack *)
(* reaches the broker: the anomaly comes back.  If the decision was still  *)
(* unpublished its message dies with the process.                          *)
RedeliverAnomaly(a) ==
  /\ a \notin inbox
  /\ Fault("anomaly_redelivery")
  /\ inbox' = inbox \cup {a}
  /\ outbox' = {o \in outbox : o.origin = "decision-policy" => o.msg.anomaly # a}
  /\ UNCHANGED <<ledger, queue, work, cluster, now, patches, orphans, clicks>>

----------------------------------------------------------------------------
(* api-bff                                                                 *)

Click == MayRequest /\ clicks' = clicks + 1

(* POST /actions/{anomaly_id}/approve: dispatches the anomaly's latest     *)
(* pending decision, whether or not it has been approved before.           *)
Approve(a) ==
  \E row \in Latest(RowsOf(ledger, a, "pending_approval")) :
    /\ Click
    /\ ledger' = Append(ledger, DecisionRow(a, row, None, ledger[row].action,
                                            "approved", "dispatched", ServiceOf[a]))
    /\ outbox' = outbox \cup
         {[origin |-> "api-bff", attempt |-> 1,
           msg |-> [decision |-> NextId, anomaly |-> a, service |-> ServiceOf[a],
                    action |-> ledger[row].action, mode |-> "approved",
                    target |-> None]]}
    /\ UNCHANGED <<queue, work, cluster, now, patches, orphans, faults, inbox>>

(* POST /actions/{anomaly_id}/rollback: asks the executor to reverse the   *)
(* anomaly's latest executed action, whether or not it has been reversed.  *)
RequestRollback(a) ==
  \E row \in Latest(RowsOf(ledger, a, "executed")) :
    /\ Click
    /\ ledger' = Append(ledger, DecisionRow(a, row, row, "rollback", "approved",
                                            "dispatched", ledger[row].service))
    /\ outbox' = outbox \cup
         {[origin |-> "api-bff", attempt |-> 1,
           msg |-> [decision |-> NextId, anomaly |-> a, service |-> NoService,
                    action |-> "rollback", mode |-> "absent", target |-> row]]}
    /\ UNCHANGED <<queue, work, cluster, now, patches, orphans, faults, inbox>>

----------------------------------------------------------------------------
(* Publishing                                                              *)

Publish(o) ==
  /\ o \in outbox
  /\ queue' = Append(queue, o.msg)
  /\ outbox' = outbox \ {o}
  /\ UNCHANGED <<ledger, work, cluster, now, patches, orphans, faults, inbox, clicks>>

(* A write that raises may have reached the broker all the same.           *)
MaybeTaken(o) == queue' \in {queue, Append(queue, o.msg)}

(* The first write raises: publish() drops the connection and writes again *)
(* on a new one, whatever anybody does in between.                         *)
Retry(o) ==
  /\ o \in outbox /\ o.attempt = 1
  /\ Fault("retry")
  /\ MaybeTaken(o)
  /\ outbox' = (outbox \ {o}) \cup {[o EXCEPT !.attempt = 2]}
  /\ UNCHANGED <<ledger, work, cluster, now, patches, orphans, inbox, clicks>>

(* Mutant: the 503 is raised before the dispatch_failed row is appended.   *)
PublishOrFailUnrecorded(o) ==
  /\ o \in outbox /\ o.origin = "api-bff" /\ o.attempt = 2
  /\ "publish_error" \in FaultKind
  /\ MaybeTaken(o)
  /\ outbox' = outbox \ {o}
  /\ UNCHANGED <<ledger, work, cluster, now, patches, orphans, faults, inbox, clicks>>

(* The retry raises too.  api-bff answers with a row of its own and a 503, *)
(* although the executor may yet answer the decision as well.              *)
PublishOrFail(o) ==
  /\ o \in outbox /\ o.origin = "api-bff" /\ o.attempt = 2
  /\ "publish_error" \in FaultKind
  /\ MaybeTaken(o)
  /\ ledger' = Append(ledger, DecisionRow(o.msg.anomaly, o.msg.decision, None,
                              o.msg.action, "approved", "dispatch_failed",
                              ledger[o.msg.decision].service))
  /\ outbox' = outbox \ {o}
  /\ UNCHANGED <<work, cluster, now, patches, orphans, faults, inbox, clicks>>

(* decision-policy does not: the exception leaves _handle_anomaly and      *)
(* consume() drops the anomaly, without requeue and without another row.   *)
PublishRaises(o) ==
  /\ o \in outbox /\ o.origin = "decision-policy" /\ o.attempt = 2
  /\ "policy_publish_error" \in FaultKind
  /\ MaybeTaken(o)
  /\ outbox' = outbox \ {o}
  /\ UNCHANGED <<ledger, work, cluster, now, patches, orphans, faults, inbox, clicks>>

(* basic_publish without publisher confirms: a write into a connection the *)
(* broker has already given up on returns normally and the message is gone.*)
PublishLost(o) ==
  /\ o \in outbox
  /\ Fault("lost")
  /\ outbox' = outbox \ {o}
  /\ UNCHANGED <<ledger, queue, work, cluster, now, patches, orphans, inbox, clicks>>

----------------------------------------------------------------------------
Decide ==
  \E a \in Anomaly :
    \/ \E action \in Offered :
         Withhold(a, action) \/ DispatchAutonomous(a, action) \/ AwaitApproval(a, action)
    \/ RedeliverAnomaly(a)

Operate == \E a \in Anomaly : Approve(a) \/ RequestRollback(a)

Send ==
  \E o \in outbox :
    Publish(o) \/ Retry(o) \/ PublishOrFail(o) \/ PublishRaises(o) \/ PublishLost(o)

Next ==
  \/ ExecutorNext /\ UNCHANGED <<inbox, outbox, clicks>>
  \/ Decide
  \/ Operate
  \/ Send

Spec == Init /\ [][Next]_vars

(* Scheduling: every service runs its consumer loop forever and nothing    *)
(* blocks it, so a publish that can be made is made, and a pod that can    *)
(* take or advance a message does.  Nobody is obliged to click or to fail. *)
PodStep(p) == (Deliver(p) \/ Handle(p)) /\ UNCHANGED <<inbox, outbox, clicks>>

FairSpec ==
  /\ Spec
  /\ WF_vars(\E o \in outbox : Publish(o))
  /\ \A p \in Pod : WF_vars(PodStep(p))

----------------------------------------------------------------------------
(* Properties                                                              *)

TypeOK ==
  /\ ExecutorTypeOK
  /\ inbox \subseteq Anomaly
  /\ outbox \subseteq Outgoing
  /\ clicks \in Nat

(* Safety floor: no pod ever patches a protected workload, whatever the    *)
(* message, the fault or the number of pods.  The rollback path has no     *)
(* protected check of its own; it is safe only because every prior state   *)
(* in the ledger was captured behind one.                                  *)
ProtectedUntouched == \A i \in DOMAIN patches : patches[i].service \notin Protected

(* What one pod's rolling window really bounds: in the `Window` minutes up *)
(* to any execution in the ledger there are at most MaxActions of them,    *)
(* through every redelivery, duplicate and failure.                        *)
ExecutedCeiling ==
  \A j \in DOMAIN ledger : ledger[j].result = "executed" =>
    Cardinality({i \in 1 .. j : /\ ledger[i].result = "executed"
                                /\ ledger[i].at + Window >= ledger[j].at})
      <= MaxActions

(* The same for each service under its own ceiling and window.             *)
ServiceExecutedCeiling ==
  \A j \in DOMAIN ledger : ledger[j].result = "executed" =>
    Cardinality({i \in 1 .. j : /\ ledger[i].result = "executed"
                                /\ ledger[i].service = ledger[j].service
                                /\ ledger[i].at + ServiceWindow >= ledger[j].at})
      <= MaxPerService

Remedies == {i \in DOMAIN patches : ~patches[i].undo}

(* "every action [must] be reconstructable": once the message that caused  *)
(* it is settled, each remedy applied to the cluster has an executed row   *)
(* answering its decision and holding exactly the value it overwrote.      *)
HoldsDecision(d) ==
  \/ \E p \in Pod : ~At(p, "idle") /\ work[p].msg.decision = d
  \/ \E i \in DOMAIN queue : queue[i].decision = d
Reconstructable(q) ==
  \E j \in DOMAIN ledger :
    /\ ledger[j].parent = q.decision
    /\ ledger[j].result = "executed"
    /\ ledger[j].prior = [kind |-> q.kind, service |-> q.service, value |-> q.before]
PatchReconstructable ==
  \A i \in Remedies : HoldsDecision(patches[i].decision) \/ Reconstructable(patches[i])

(* What the executor does keep of it: only a handler cut off between its   *)
(* patch and its row leaves a remedy that no row explains, while no crash  *)
(* before the patch or after the row, no copy and no repetition does.      *)
PatchedNow(d) == \E p \in Pod : Patched(p) /\ work[p].msg.decision = d
ReconstructableUnlessCut ==
  \A i \in Remedies :
    \/ PatchedNow(patches[i].decision)
    \/ Reconstructable(patches[i])
    \/ patches[i].decision \in orphans

(* "A retried/duplicate throttle for an already-throttled workload is a    *)
(* no-op": between two throttles of one workload there is a reversal of a  *)
(* throttle, so that however often a message is published, delivered or    *)
(* clicked, no throttle saves the throttled limit as the one to restore.   *)
(* (A copy that arrives after the reversal throttles again.)               *)
ThrottlesNeverStack ==
  \A i, j \in Remedies :
    (/\ i < j
     /\ patches[i].kind = "cpu" /\ patches[j].kind = "cpu"
     /\ patches[i].service = patches[j].service)
    => \E k \in i .. j : /\ patches[k].undo /\ patches[k].kind = "cpu"
                         /\ patches[k].service = patches[j].service

(* Human in the loop: a remedy reaches the cluster either on autonomous    *)
(* authority or through an approval of a decision, on the same anomaly and *)
(* for the same remedy, that was recorded as pending.                      *)
ApprovedBeforePatch ==
  \A i \in Remedies :
    LET d == ledger[patches[i].decision] IN
    \/ d.mode = "autonomous"
    \/ /\ d.parent # None
       /\ ledger[d.parent].result = "pending_approval"
       /\ ledger[d.parent].anomaly = d.anomaly
       /\ ledger[d.parent].action = d.action

(* A reversal undoes what it says it does: it writes back the prior value  *)
(* of an executed row of the same anomaly, to the service that row acted   *)
(* on, although the rollback message itself names no service.              *)
UndoRestoresPrior ==
  \A i \in DOMAIN patches : patches[i].undo =>
    LET d == ledger[patches[i].decision] IN
    /\ d.ref # None
    /\ ledger[d.ref].result = "executed"
    /\ ledger[d.ref].anomaly = d.anomaly
    /\ ledger[d.ref].service = patches[i].service
    /\ ledger[d.ref].prior.value = patches[i].after

Reversed(i) ==
  \E j \in DOMAIN ledger : ledger[j].result = "rolled_back" /\ ledger[j].ref = i

(* Reading the ledger forward tells the truth about the cluster: when      *)
(* every throttle it reports has been rolled back, in whatever order the   *)
(* clicks came, each workload has the CPU limit it started with, unless a  *)
(* handler was cut off between a patch and its row.                        *)
AllReversedIsOriginal ==
  (/\ orphans = {}
   /\ \A p \in Pod : At(p, "idle")
   /\ \A i \in DOMAIN ledger : ledger[i].result = "executed" => Reversed(i))
  => \A s \in Service : cluster[s].cpu = InitialSpec[s].cpu

(* An expired rollback window stays closed: once the executor has refused  *)
(* to reverse a row because its window had passed, no later request for    *)
(* the same row, however many are clicked, restores it.                    *)
ExpiredIsFinal ==
  [][\A i \in DOMAIN ledger :
       (/\ ledger[i].result = "rollback_window_expired"
        /\ patches' # patches)
       => LET q == patches'[Len(patches')] IN
          q.undo => ledger[q.decision].ref # ledger[i].ref]_vars

Dispatched(i) == i \in DOMAIN ledger /\ ledger[i].result = "dispatched"

(* The ledger never implies work in flight that is not: a dispatched       *)
(* decision without an answer is still on its way to the executor, in the  *)
(* publisher, in the queue or in a pod's hands.                            *)
DispatchedIsInFlight ==
  \A i \in DOMAIN ledger : Dispatched(i) =>
    \/ Answered(ledger, i)
    \/ HoldsDecision(i)
    \/ \E o \in outbox : o.msg.decision = i

(* The ledger three uncoordinated services write is an audit trail: it     *)
(* only grows, and each row answers, approves or reverses an earlier row   *)
(* of the same anomaly, for the same action, that called for it.           *)
Readable(row) ==
  [anomaly |-> row.anomaly, parent |-> row.parent, ref |-> row.ref,
   action |-> row.action, result |-> row.result]

Trail == INSTANCE AuditTrail WITH
           Remedies <- Remedy,
           trail <- [i \in DOMAIN ledger |-> Readable(ledger[i])]

IsAuditTrail == Trail!TrailSpec

(* Every dispatched decision is eventually answered, by an outcome of the  *)
(* executor or by api-bff's dispatch_failed: again and again there is none *)
(* that waits.                                                             *)
EventuallyAnswered ==
  []<>(\A i \in DOMAIN ledger : Dispatched(i) => Answered(ledger, i))
=============================================================================
