------------------------------ MODULE Executor ------------------------------
(***************************************************************************)
(* The Remediation Executor (services/remediation-executor/app): the one   *)
(* component with write access to the cluster.  It consumes                *)
(* remediation.requested messages one at a time, passes each through its   *)
(* gates, patches a Deployment or an HPA, appends the outcome to the       *)
(* ledger, and acknowledges the message.                                   *)
(*                                                                         *)
(* handle() is one call in the source, but each of its calls to the        *)
(* database, the Kubernetes API and the broker can fail or be the last     *)
(* thing a dying pod does, and other pods and the operator act in between. *)
(* So a message advances through                                           *)
(*     gate -> read -> patch -> record -> ack                              *)
(* one step per external call, and a fault may strike between any two.     *)
(***************************************************************************)
EXTENDS Ledger

CONSTANTS
  Pod,             (* executor pods consuming the queue: one Deployment     *)
                   (* replica, two while a rolling update overlaps          *)
  Protected,       (* services under a protected namespace prefix           *)
  Deployed,        (* services that are Deployments (others answer 404)     *)
  InitialSpec,     (* what each workload's spec says before any remediation *)
  MaxActions,      (* MAX_ACTIONS_PER_WINDOW                                *)
  Window,          (* RATE_LIMIT_WINDOW_MINUTES                             *)
  MaxPerService,   (* MAX_ACTIONS_PER_SERVICE                               *)
  ServiceWindow,   (* SERVICE_RATE_LIMIT_WINDOW_MINUTES                     *)
  RollbackWindow,  (* ROLLBACK_WINDOW_MINUTES                               *)
  FaultKind,       (* which faults this instance suffers                    *)
  MaxFaults,       (* bound: faults in a behaviour                          *)
  MaxTime          (* bound: ticks of the clock                             *)

(* A workload: its container CPU limit (in units of the throttle limit, 0  *)
(* for none), its HPA's maxReplicas (0: no HPA targets it), and the        *)
(* replica count the HPA reports.  A count of 0 stands both for a workload *)
(* scaled to zero and for an HPA that has not reported: both are no_op.    *)
Workload == [cpu : Nat, max : Nat, replicas : Nat]
ThrottleLimit == 1

ASSUME ExecutorAssumption ==
  /\ Protected \subseteq Service
  /\ Deployed \subseteq Service
  /\ InitialSpec \in [Service -> Workload]
  /\ MaxActions \in Nat /\ Window \in Nat
  /\ MaxPerService \in Nat /\ ServiceWindow \in Nat
  /\ RollbackWindow \in Nat
  /\ MaxFaults \in Nat /\ MaxTime \in Nat

VARIABLES
  ledger,   (* actions_log                                                  *)
  queue,    (* remediation-executor.actions: messages ready for delivery    *)
  work,     (* work[p]: the message pod p holds unacknowledged, and how far *)
  cluster,  (* the workloads' specs and status                              *)
  now,      (* the clock every service reads, in minutes                    *)
  patches,  (* history: every patch any pod has applied                     *)
  orphans,  (* history: decisions whose patch a handler applied and did not *)
            (* live to record                                               *)
  faults    (* how many faults have struck                                  *)

executorVars == <<ledger, queue, work, cluster, now, patches, orphans, faults>>

(* remediation.requested, as decision-policy and approve publish it, and   *)
(* as api-bff publishes a rollback: with an empty service and no mode.     *)
RemedyMessage ==
  [decision : Nat, anomaly : Anomaly, service : Service, action : Remedy,
   mode : {"autonomous", "approved"}, target : {None}]
RollbackMessage ==
  [decision : Nat, anomaly : Anomaly, service : {NoService}, action : {"rollback"},
   mode : {"absent"}, target : Nat]
Message == RemedyMessage \cup RollbackMessage

NoWork == [pc |-> "idle"]
Stage == {"gate", "read", "patch", "record", "ack"}
Busy ==
  [pc : Stage, msg : Message, result : Outcome,
   prior : Snapshot \cup {NoSnapshot}, apply : Nat]
Work == {d \in Busy : d.pc = "patch" => d.prior # NoSnapshot} \cup {NoWork}

Patch == [decision : Nat, service : Service, kind : {"cpu", "max"},
          before : Nat, after : Nat, undo : BOOLEAN, at : Nat]

ExecutorInit ==
  /\ queue   = << >>
  /\ work    = [p \in Pod |-> NoWork]
  /\ cluster = InitialSpec
  /\ now     = 0
  /\ patches = << >>
  /\ orphans = {}
  /\ faults  = 0

----------------------------------------------------------------------------
(* Helpers                                                                 *)

At(p, pc) == work[p].pc = pc

(* The state pod p enters: the row it will record, and the value it is     *)
(* about to patch into the field that `prior` names.                       *)
Step(p, pc, result, prior, apply) ==
  work' = [work EXCEPT ![p] = [pc |-> pc, msg |-> work[p].msg, result |-> result,
                               prior |-> prior, apply |-> apply]]

(* Mutant: an early return that forgets record().                          *)
ConcludeSilently(p, result) == Step(p, "ack", result, NoSnapshot, 0)

(* handle() decides on `result` without touching the cluster.              *)
Conclude(p, result) == Step(p, "record", result, NoSnapshot, 0)

Fault(kind) ==
  /\ kind \in FaultKind
  /\ faults < MaxFaults
  /\ faults' = faults + 1

IsRollback(m) == m.action = "rollback"
HasReference(m) ==
  m.target \in DOMAIN ledger /\ ledger[m.target].prior # NoSnapshot

(* rollback_deadline = executed_at + ROLLBACK_WINDOW_MINUTES, set exactly  *)
(* on the rows that carry a prior state.                                   *)
Expired(row) == now > row.at + RollbackWindow

(* Mutant: `>` where the code has `>=`.                                    *)
ServiceLimitPassed(s) ==
  Cardinality(RecentActionsOn(ledger, now, ServiceWindow, s)) > MaxPerService

GlobalLimitHit == Cardinality(RecentActions(ledger, now, Window)) >= MaxActions
ServiceLimitHit(s) ==
  Cardinality(RecentActionsOn(ledger, now, ServiceWindow, s)) >= MaxPerService

Field(w, kind) == IF kind = "cpu" THEN w.cpu ELSE w.max
WithField(w, kind, v) ==
  IF kind = "cpu" THEN [w EXCEPT !.cpu = v] ELSE [w EXCEPT !.max = v]

----------------------------------------------------------------------------
(* Consuming                                                               *)

(* The broker delivers the next message to pod p.                          *)
Deliver(p) ==
  /\ At(p, "idle")
  /\ queue # << >>
  /\ work' = [work EXCEPT ![p] = [pc |-> "gate", msg |-> Head(queue),
                                  result |-> "no_op", prior |-> NoSnapshot,
                                  apply |-> 0]]
  /\ queue' = Tail(queue)
  /\ UNCHANGED <<ledger, cluster, now, patches, orphans, faults>>

(* Mutant: the deadline runs from the rollback request instead of from the *)
(* execution it reverses.                                                  *)
AdmitRollbackByRequestTime(p) ==
  LET m == work[p].msg IN
  /\ IF ~HasReference(m) THEN Conclude(p, "rollback_failed_no_reference")
     ELSE IF Expired(ledger[m.decision]) THEN Conclude(p, "rollback_window_expired")
     ELSE Step(p, "patch", "rolled_back", ledger[m.target].prior,
               ledger[m.target].prior.value)

(* A rollback is admitted when its target has a prior state and the        *)
(* rollback window is still open.  Neither the protected floor nor the     *)
(* rate limits are consulted on this path.                                 *)
AdmitRollback(p) ==
  LET m == work[p].msg IN
  /\ IF ~HasReference(m) THEN Conclude(p, "rollback_failed_no_reference")
     ELSE IF Expired(ledger[m.target]) THEN Conclude(p, "rollback_window_expired")
     ELSE Step(p, "patch", "rolled_back", ledger[m.target].prior,
               ledger[m.target].prior.value)

(* Mutant: the executor trusts decision-policy's floor and drops its own.  *)
AdmitRemedyNoFloor(p) ==
  LET s == work[p].msg.service IN
  IF GlobalLimitHit THEN Conclude(p, "blocked_by_global_rate_limit")
  ELSE IF ServiceLimitHit(s) THEN Conclude(p, "blocked_by_per_service_rate_limit")
  ELSE IF work[p].msg.action = "unsupported" THEN Conclude(p, "unsupported_action")
  ELSE Step(p, "read", "no_op", NoSnapshot, 0)

(* Every other request passes the protected floor, then the two ceilings.  *)
AdmitRemedy(p) ==
  LET s == work[p].msg.service IN
  IF s \in Protected THEN Conclude(p, "blocked_by_protected_floor")
  ELSE IF GlobalLimitHit THEN Conclude(p, "blocked_by_global_rate_limit")
  ELSE IF ServiceLimitHit(s) THEN Conclude(p, "blocked_by_per_service_rate_limit")
  ELSE IF work[p].msg.action = "unsupported" THEN Conclude(p, "unsupported_action")
  ELSE Step(p, "read", "no_op", NoSnapshot, 0)

Gate(p) ==
  /\ At(p, "gate")
  /\ IF IsRollback(work[p].msg) THEN AdmitRollback(p) ELSE AdmitRemedy(p)
  /\ UNCHANGED <<ledger, queue, cluster, now, patches, orphans, faults>>

(* Mutant: no "already throttled" test, so a repeat records 100m as the    *)
(* limit to restore.                                                       *)
ReadDeploymentAgain(p) ==
  LET s == work[p].msg.service IN
  /\ At(p, "read") /\ work[p].msg.action = "throttle"
  /\ IF s \notin Deployed THEN Conclude(p, "no_op")
     ELSE Step(p, "patch", "executed",
               [kind |-> "cpu", service |-> s, value |-> cluster[s].cpu], ThrottleLimit)
  /\ UNCHANGED <<ledger, queue, cluster, now, patches, orphans, faults>>

(* throttle() reads the Deployment: 404 and "already throttled" are no_op. *)
ReadDeployment(p) ==
  LET s == work[p].msg.service IN
  /\ At(p, "read") /\ work[p].msg.action = "throttle"
  /\ IF s \notin Deployed \/ cluster[s].cpu = ThrottleLimit
     THEN Conclude(p, "no_op")
     ELSE Step(p, "patch", "executed",
               [kind |-> "cpu", service |-> s, value |-> cluster[s].cpu], ThrottleLimit)
  /\ UNCHANGED <<ledger, queue, cluster, now, patches, orphans, faults>>

(* Mutant: the replica count is saved as the ceiling to restore.           *)
ReadAutoscalerSavingCount(p) ==
  LET s == work[p].msg.service
      w == cluster[s] IN
  /\ At(p, "read") /\ work[p].msg.action = "freeze_scaling"
  /\ IF w.max = 0 \/ w.replicas = 0 \/ w.max = w.replicas
     THEN Conclude(p, "no_op")
     ELSE Step(p, "patch", "executed",
               [kind |-> "max", service |-> s, value |-> w.replicas], w.replicas)
  /\ UNCHANGED <<ledger, queue, cluster, now, patches, orphans, faults>>

(* freeze_scaling() lists the HPAs: none, no replicas, or a ceiling that   *)
(* already equals the replica count are no_op.  The count it reads is the  *)
(* ceiling it will patch, whatever the count is by then.                   *)
ReadAutoscaler(p) ==
  LET s == work[p].msg.service
      w == cluster[s] IN
  /\ At(p, "read") /\ work[p].msg.action = "freeze_scaling"
  /\ IF w.max = 0 \/ w.replicas = 0 \/ w.max = w.replicas
     THEN Conclude(p, "no_op")
     ELSE Step(p, "patch", "executed",
               [kind |-> "max", service |-> s, value |-> w.max], w.replicas)
  /\ UNCHANGED <<ledger, queue, cluster, now, patches, orphans, faults>>

(* The patch itself: the throttle limit, the frozen ceiling, or the value  *)
(* a rollback restores.                                                    *)
ApplyPatch(p) ==
  LET d == work[p]
      s == d.prior.service
      k == d.prior.kind IN
  /\ At(p, "patch")
  /\ cluster' = [cluster EXCEPT ![s] = WithField(@, k, d.apply)]
  /\ patches' = Append(patches,
       [decision |-> d.msg.decision, service |-> s, kind |-> k,
        before |-> Field(cluster[s], k), after |-> d.apply,
        undo |-> IsRollback(d.msg), at |-> now])
  /\ Step(p, "record", d.result, d.prior, d.apply)
  /\ UNCHANGED <<ledger, queue, now, orphans, faults>>

(* Mutant: the missing mode of a rollback message gets no default.         *)
OutcomeRowNoDefault(d) ==
  [anomaly |-> d.msg.anomaly, parent |-> d.msg.decision,
   ref     |-> IF d.result \in {"rolled_back", "rollback_window_expired"}
               THEN d.msg.target ELSE None,
   action  |-> d.msg.action, mode |-> d.msg.mode, at |-> now, result |-> d.result,
   service |-> d.msg.service,
   prior   |-> IF d.result = "executed" THEN d.prior ELSE NoSnapshot]

(* The outcome row: parent -> the decision, rollback_ref -> the row a      *)
(* rollback reverses.  The mode defaults to autonomous when the message    *)
(* has none, and the target is the service named in the message.           *)
OutcomeRow(d) ==
  [anomaly |-> d.msg.anomaly, parent |-> d.msg.decision,
   ref     |-> IF d.result \in {"rolled_back", "rollback_window_expired"}
               THEN d.msg.target ELSE None,
   action  |-> d.msg.action,
   mode    |-> IF d.msg.mode = "absent" THEN "autonomous" ELSE d.msg.mode,
   at      |-> now,
   result  |-> d.result,
   service |-> d.msg.service,
   prior   |-> IF d.result = "executed" THEN d.prior ELSE NoSnapshot]

Record(p) ==
  /\ At(p, "record")
  /\ ledger' = Append(ledger, OutcomeRow(work[p]))
  /\ Step(p, "ack", work[p].result, work[p].prior, work[p].apply)
  /\ UNCHANGED <<queue, cluster, now, patches, orphans, faults>>

Ack(p) ==
  /\ At(p, "ack")
  /\ work' = [work EXCEPT ![p] = NoWork]
  /\ UNCHANGED <<ledger, queue, cluster, now, patches, orphans, faults>>

----------------------------------------------------------------------------
(* Faults and the environment                                              *)

Patched(p) == At(p, "record") /\ work[p].prior # NoSnapshot

(* The handler of pod p ends here, whatever it has done.                   *)
CutOff(p) ==
  /\ work' = [work EXCEPT ![p] = NoWork]
  /\ orphans' = orphans \cup {d \in {work[p].msg.decision} : Patched(p)}

(* The pod dies, or its connection drops before the ack arrives: the       *)
(* broker puts the unacknowledged message back at the head of the queue.   *)
Redeliver(p) ==
  /\ ~At(p, "idle")
  /\ Fault("redelivery")
  /\ queue' = <<work[p].msg>> \o queue
  /\ CutOff(p)
  /\ UNCHANGED <<ledger, cluster, now, patches>>

(* A database or Kubernetes call raises: consume() logs the exception and  *)
(* nacks without requeue, so the message is gone.                          *)
Raise(p) ==
  /\ \E pc \in {"gate", "read", "patch", "record"} : At(p, pc)
  /\ Fault("error")
  /\ CutOff(p)
  /\ UNCHANGED <<ledger, queue, cluster, now, patches>>

(* Someone edits a workload's spec by hand (external to the program).      *)
OperatorEdit(s) ==
  /\ Fault("edit")
  /\ \E k \in {"cpu", "max"} :
       /\ Field(InitialSpec[s], k) # 0
       /\ cluster' = [cluster EXCEPT ![s] =
                        WithField(@, k, Field(InitialSpec[s], k) + 1)]
  /\ cluster' # cluster
  /\ UNCHANGED <<ledger, queue, work, now, patches, orphans>>

(* The HPA controller moves the replica count under its ceiling (external  *)
(* to the program).                                                        *)
Autoscale(s) ==
  /\ Fault("autoscale")
  /\ \E n \in 1 .. cluster[s].max :
       /\ n # cluster[s].replicas
       /\ cluster' = [cluster EXCEPT ![s].replicas = n]
  /\ UNCHANGED <<ledger, queue, work, now, patches, orphans>>

Tick ==
  /\ now < MaxTime
  /\ now' = now + 1
  /\ UNCHANGED <<ledger, queue, work, cluster, patches, orphans, faults>>

Handle(p) ==
  Gate(p) \/ ReadDeployment(p) \/ ReadAutoscaler(p) \/ ApplyPatch(p) \/ Record(p) \/ Ack(p)

ExecutorNext ==
  \/ \E p \in Pod : Deliver(p) \/ Handle(p) \/ Redeliver(p) \/ Raise(p)
  \/ \E s \in Service : OperatorEdit(s) \/ Autoscale(s)
  \/ Tick

ExecutorTypeOK ==
  /\ ledger  \in Seq(Row)
  /\ queue   \in Seq(Message)
  /\ work    \in [Pod -> Work]
  /\ cluster \in [Service -> Workload]
  /\ now     \in Nat
  /\ patches \in Seq(Patch)
  /\ orphans \subseteq Nat
  /\ faults  \in Nat
=============================================================================
