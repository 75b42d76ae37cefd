-------------------------- MODULE RemediationProofs -------------------------
(***************************************************************************)
(* Theorems about Remediation, for every set of services, anomalies and    *)
(* pods, every limit and window, and every combination of faults.          *)
(***************************************************************************)
EXTENDS Remediation, FiniteSetTheorems, SequenceTheorems, TLAPS

USE NoServiceIsNoService

----------------------------------------------------------------------------
(* Lemmas about sequences and the ledger                                   *)

LEMMA AppendFacts ==
  ASSUME NEW S, NEW s \in Seq(S), NEW e \in S
  PROVE  /\ Append(s, e) \in Seq(S)
         /\ Len(Append(s, e)) = Len(s) + 1
         /\ DOMAIN Append(s, e) = 1 .. (Len(s) + 1)
         /\ DOMAIN s = 1 .. Len(s)
         /\ \A i \in 1 .. Len(s) : Append(s, e)[i] = s[i]
         /\ Append(s, e)[Len(s) + 1] = e
OBVIOUS

(* The limiter's count ranges over a finite set.                           *)
LEMMA RecentFinite ==
  ASSUME NEW log \in Seq(Row), NEW t \in Nat, NEW d \in Nat
  PROVE  /\ IsFiniteSet(RecentActions(log, t, d))
         /\ Cardinality(RecentActions(log, t, d)) \in Nat
<1>1. DOMAIN log = 1 .. Len(log) /\ Len(log) \in Nat
  OBVIOUS
<1>2. IsFiniteSet(1 .. Len(log))
  BY <1>1, FS_Interval
<1>3. RecentActions(log, t, d) \in SUBSET (1 .. Len(log))
  BY <1>1 DEF RecentActions
<1>4. IsFiniteSet(RecentActions(log, t, d))
  BY <1>2, <1>3, FS_Subset
<1>. QED
  BY <1>4, FS_CardinalityType

----------------------------------------------------------------------------
(* Type correctness                                                        *)

LEMMA NotASnapshot == NoSnapshot \notin Snapshot
BY DEF NoSnapshot, Snapshot

LEMMA BusyType ==
  ASSUME NEW p \in Pod, work \in [Pod -> Work], ~At(p, "idle")
  PROVE  /\ work[p] \in Busy
         /\ At(p, "patch") => work[p].prior \in Snapshot
BY DEF Work, At, NoWork, Busy

LEMMA StepType ==
  ASSUME NEW p \in Pod, work \in [Pod -> Work], ~At(p, "idle"),
         NEW pc \in Stage, NEW result \in Outcome,
         NEW prior \in Snapshot \cup {NoSnapshot}, NEW apply \in Nat,
         pc = "patch" => prior # NoSnapshot,
         Step(p, pc, result, prior, apply)
  PROVE  work' \in [Pod -> Work]
<1>1. work[p].msg \in Message
  BY BusyType DEF Busy
<1>. QED
  BY <1>1 DEF Step, Work, Busy

LEMMA ConcludeType ==
  ASSUME NEW p \in Pod, work \in [Pod -> Work], ~At(p, "idle"),
         NEW result \in Outcome, Conclude(p, result)
  PROVE  work' \in [Pod -> Work]
BY StepType DEF Conclude, Stage

LEMMA DeliverType ==
  ASSUME ExecutorTypeOK, NEW p \in Pod, Deliver(p)
  PROVE  ExecutorTypeOK'
<1>1. Head(queue) \in Message /\ Tail(queue) \in Seq(Message)
  BY DEF ExecutorTypeOK, Deliver
<1>2. work' \in [Pod -> Work]
  BY <1>1 DEF ExecutorTypeOK, Deliver, Work, Busy, Stage, Outcome
<1>. QED
  BY <1>1, <1>2 DEF ExecutorTypeOK, Deliver

LEMMA GateType ==
  ASSUME ExecutorTypeOK, NEW p \in Pod, Gate(p)
  PROVE  ExecutorTypeOK'
<1>1. ~At(p, "idle") /\ work \in [Pod -> Work]
  BY DEF Gate, At, ExecutorTypeOK
<1>2. work[p].msg \in Message
  BY <1>1, BusyType DEF Busy
<1>3. CASE AdmitRollback(p)
  <2>1. CASE Conclude(p, "rollback_failed_no_reference") \/ Conclude(p, "rollback_window_expired")
    BY <1>1, <2>1, ConcludeType DEF Outcome, ExecutorTypeOK, Gate
  <2>2. CASE /\ HasReference(work[p].msg)
             /\ Step(p, "patch", "rolled_back", ledger[work[p].msg.target].prior,
                     ledger[work[p].msg.target].prior.value)
    <3>1. ledger[work[p].msg.target] \in Row
      BY <2>2 DEF HasReference, ExecutorTypeOK
    <3>2. ledger[work[p].msg.target].prior \in Snapshot
      BY <2>2, <3>1 DEF HasReference, Row, RowFields
    <3>3. ledger[work[p].msg.target].prior.value \in Nat
      BY <3>2 DEF Snapshot
    <3>4. work' \in [Pod -> Work]
      BY <1>1, <2>2, <3>2, <3>3, StepType, NotASnapshot DEF Stage, Outcome
    <3>. QED
      BY <3>4 DEF ExecutorTypeOK, Gate
  <2>. QED
    BY <1>3, <2>1, <2>2 DEF AdmitRollback
<1>4. CASE AdmitRemedy(p)
  <2>1. work' \in [Pod -> Work]
    BY <1>1, <1>4, StepType, ConcludeType DEF AdmitRemedy, Outcome, Stage
  <2>. QED
    BY <2>1 DEF ExecutorTypeOK, Gate
<1>. QED
  BY <1>3, <1>4 DEF Gate

LEMMA ReadType ==
  ASSUME ExecutorTypeOK, NEW p \in Pod, ReadDeployment(p) \/ ReadAutoscaler(p)
  PROVE  ExecutorTypeOK'
<1>1. ~At(p, "idle") /\ work \in [Pod -> Work]
  BY DEF ReadDeployment, ReadAutoscaler, At, ExecutorTypeOK
<1> DEFINE s == work[p].msg.service
<1>2. work[p].msg.action # "rollback"
  BY DEF ReadDeployment, ReadAutoscaler
<1>3. s \in Service /\ cluster[s] \in Workload
  BY <1>1, <1>2, BusyType DEF Busy, Message, RemedyMessage, RollbackMessage, ExecutorTypeOK
<1>4. CASE ReadDeployment(p)
  <2> DEFINE saved == [kind |-> "cpu", service |-> s, value |-> cluster[s].cpu]
  <2>1. saved \in Snapshot
    BY <1>3 DEF Snapshot, Workload
  <2>2. CASE Conclude(p, "no_op")
    BY <1>1, <1>4, <2>2, ConcludeType DEF Outcome, ExecutorTypeOK, ReadDeployment
  <2>3. CASE Step(p, "patch", "executed", saved, ThrottleLimit)
    <3>1. work' \in [Pod -> Work]
      BY <1>1, <2>1, <2>3, StepType, NotASnapshot DEF Stage, Outcome, ThrottleLimit
    <3>. QED
      BY <1>4, <3>1 DEF ExecutorTypeOK, ReadDeployment
  <2>. QED
    BY <1>4, <2>2, <2>3 DEF ReadDeployment
<1>5. CASE ReadAutoscaler(p)
  <2> DEFINE saved == [kind |-> "max", service |-> s, value |-> cluster[s].max]
  <2>1. saved \in Snapshot /\ cluster[s].replicas \in Nat
    BY <1>3 DEF Snapshot, Workload
  <2>2. CASE Conclude(p, "no_op")
    BY <1>1, <1>5, <2>2, ConcludeType DEF Outcome, ExecutorTypeOK, ReadAutoscaler
  <2>3. CASE Step(p, "patch", "executed", saved, cluster[s].replicas)
    <3>1. work' \in [Pod -> Work]
      BY <1>1, <2>1, <2>3, StepType, NotASnapshot DEF Stage, Outcome
    <3>. QED
      BY <1>5, <3>1 DEF ExecutorTypeOK, ReadAutoscaler
  <2>. QED
    BY <1>5, <2>2, <2>3 DEF ReadAutoscaler
<1>. QED
  BY <1>4, <1>5

LEMMA ApplyPatchType ==
  ASSUME ExecutorTypeOK, NEW p \in Pod, ApplyPatch(p)
  PROVE  ExecutorTypeOK'
<1> DEFINE d == work[p]
           s == d.prior.service
           k == d.prior.kind
<1>1. ~At(p, "idle") /\ work \in [Pod -> Work]
  BY DEF ApplyPatch, At, ExecutorTypeOK
<1>2. d \in Busy /\ d.prior \in Snapshot
  BY <1>1, BusyType DEF ApplyPatch
<1>3. s \in Service /\ k \in {"cpu", "max"} /\ d.apply \in Nat /\ d.msg.decision \in Nat
  BY <1>2 DEF Snapshot, Busy, Message, RemedyMessage, RollbackMessage
<1>4. cluster[s] \in Workload
  BY <1>3 DEF ExecutorTypeOK
<1>5. WithField(cluster[s], k, d.apply) \in Workload /\ Field(cluster[s], k) \in Nat
  BY <1>3, <1>4 DEF WithField, Field, Workload
<1>6. cluster' \in [Service -> Workload]
  BY <1>3, <1>5 DEF ApplyPatch, ExecutorTypeOK
<1>7. patches' \in Seq(Patch)
  <2> DEFINE q == [decision |-> d.msg.decision, service |-> s, kind |-> k,
                   before |-> Field(cluster[s], k), after |-> d.apply,
                   undo |-> IsRollback(d.msg), at |-> now]
  <2>1. IsRollback(d.msg) \in BOOLEAN
    BY DEF IsRollback
  <2>2. q \in Patch
    BY <1>3, <1>5, <2>1 DEF Patch, ExecutorTypeOK
  <2>3. patches' = Append(patches, q)
    BY DEF ApplyPatch
  <2>. QED
    BY <2>2, <2>3 DEF ExecutorTypeOK
<1>8. work' \in [Pod -> Work]
  BY <1>1, <1>2, StepType DEF ApplyPatch, Busy, Stage
<1>. QED
  BY <1>6, <1>7, <1>8 DEF ExecutorTypeOK, ApplyPatch

LEMMA OutcomeRowType ==
  ASSUME NEW d \in Busy, now \in Nat
  PROVE  OutcomeRow(d) \in Row
<1>1. d.msg \in Message /\ d.result \in Outcome /\ d.prior \in Snapshot \cup {NoSnapshot}
  BY DEF Busy
<1>2. /\ d.msg.anomaly \in Anomaly /\ d.msg.decision \in Nat
      /\ d.msg.target \in Nat /\ d.msg.service \in Service \cup {NoService}
      /\ d.msg.action \in Remedy \cup {"rollback"}
      /\ d.msg.mode \in {"autonomous", "approved", "absent"}
  BY <1>1 DEF Message, RemedyMessage, RollbackMessage, None
<1>. QED
  BY <1>1, <1>2 DEF OutcomeRow, Row, RowFields, None, Outcome

LEMMA RecordType ==
  ASSUME ExecutorTypeOK, NEW p \in Pod, Record(p)
  PROVE  ExecutorTypeOK'
<1>1. ~At(p, "idle") /\ work \in [Pod -> Work]
  BY DEF Record, At, ExecutorTypeOK
<1>2. work[p] \in Busy
  BY <1>1, BusyType
<1>3. OutcomeRow(work[p]) \in Row
  BY <1>2, OutcomeRowType DEF ExecutorTypeOK
<1>4. ledger' \in Seq(Row)
  BY <1>3 DEF Record, ExecutorTypeOK
<1>5. work' \in [Pod -> Work]
  BY <1>1, <1>2, StepType DEF Record, Busy, Stage
<1>. QED
  BY <1>4, <1>5 DEF ExecutorTypeOK, Record

LEMMA SettleType ==
  ASSUME ExecutorTypeOK, NEW p \in Pod, Ack(p) \/ Redeliver(p) \/ Raise(p)
  PROVE  ExecutorTypeOK'
<1>1. work' \in [Pod -> Work]
  BY DEF Ack, Redeliver, Raise, CutOff, ExecutorTypeOK, Work
<1>2. ASSUME Redeliver(p) PROVE queue' \in Seq(Message)
  <2>1. work[p].msg \in Message
    BY <1>2, BusyType DEF Redeliver, ExecutorTypeOK, Busy
  <2>2. <<work[p].msg>> \in Seq(Message)
    BY <2>1
  <2>. QED
    BY <1>2, <2>2 DEF Redeliver, ExecutorTypeOK
<1>3. ASSUME Redeliver(p) \/ Raise(p) PROVE orphans' \subseteq Nat
  <2>1. work[p].msg.decision \in Nat
    BY <1>3, BusyType DEF Redeliver, Raise, At, ExecutorTypeOK, Busy, Message, RemedyMessage,
                          RollbackMessage
  <2>. QED
    BY <1>3, <2>1 DEF Redeliver, Raise, CutOff, ExecutorTypeOK
<1>4. /\ UNCHANGED <<ledger, cluster, now, patches>> /\ faults' \in Nat
      /\ Ack(p) => UNCHANGED orphans
      /\ Ack(p) \/ Raise(p) => UNCHANGED queue
  BY DEF Ack, Redeliver, Raise, CutOff, ExecutorTypeOK, Fault
<1>. QED
  BY <1>1, <1>2, <1>3, <1>4 DEF ExecutorTypeOK

LEMMA EnvironmentType ==
  ASSUME ExecutorTypeOK,
         \/ Tick
         \/ \E s \in Service : OperatorEdit(s) \/ Autoscale(s)
  PROVE  ExecutorTypeOK'
<1>1. CASE Tick
  BY <1>1 DEF Tick, ExecutorTypeOK
<1>2. ASSUME NEW s \in Service, OperatorEdit(s) \/ Autoscale(s) PROVE ExecutorTypeOK'
  <2>1. cluster[s] \in Workload /\ InitialSpec[s] \in Workload
    BY ExecutorAssumption DEF ExecutorTypeOK
  <2>2. \A k \in {"cpu", "max"} :
          WithField(cluster[s], k, Field(InitialSpec[s], k) + 1) \in Workload
    BY <2>1 DEF WithField, Field, Workload
  <2>3. \A n \in 1 .. cluster[s].max : [cluster[s] EXCEPT !.replicas = n] \in Workload
    BY <2>1 DEF Workload
  <2>4. cluster' \in [Service -> Workload]
    <3>1. CASE OperatorEdit(s)
      BY <2>2, <3>1 DEF OperatorEdit, ExecutorTypeOK
    <3>2. CASE Autoscale(s)
      BY <2>3, <3>2 DEF Autoscale, ExecutorTypeOK
    <3>. QED
      BY <1>2, <3>1, <3>2
  <2>. QED
    BY <1>2, <2>4 DEF OperatorEdit, Autoscale, ExecutorTypeOK, Fault
<1>. QED
  BY <1>1, <1>2

LEMMA ExecutorType ==
  ASSUME ExecutorTypeOK, ExecutorNext
  PROVE  ExecutorTypeOK'
BY DeliverType, GateType, ReadType, ApplyPatchType, RecordType, SettleType,
   EnvironmentType DEF ExecutorNext, Handle

LEMMA DecisionRowType ==
  ASSUME NEW a \in Anomaly, NEW parent \in Nat, NEW ref \in Nat,
         NEW action \in Remedy \cup {"alert_only", "rollback"},
         NEW mode \in {"autonomous", "approved"},
         NEW result \in Decision \cup Withheld \cup {"dispatch_failed"},
         NEW s \in Service \cup {NoService}, now \in Nat,
         result = "pending_approval" => action \in Remedy
  PROVE  DecisionRow(a, parent, ref, action, mode, result, s) \in Row
BY DEF DecisionRow, Row, RowFields, Decision, Withheld

LEMMA WithholdType ==
  ASSUME TypeOK, NEW a \in Anomaly, NEW action \in Offered, Withhold(a, action)
  PROVE  TypeOK'
<1>1. ServiceOf[a] \in Service /\ action \in Remedy \cup {"alert_only"} /\ now \in Nat
  BY RemediationAssumption DEF TypeOK, ExecutorTypeOK
<1>2. PICK result \in Withheld :
        ledger' = Append(ledger, DecisionRow(a, None, None, action, "autonomous", result,
                                             ServiceOf[a]))
  BY DEF Withhold, Withheld
<1>3. DecisionRow(a, None, None, action, "autonomous", result, ServiceOf[a]) \in Row
  BY <1>1, DecisionRowType DEF None, Withheld
<1>. QED
  BY <1>2, <1>3 DEF Withhold, Take, TypeOK, ExecutorTypeOK

LEMMA DispatchType ==
  ASSUME TypeOK, NEW a \in Anomaly, NEW remedy \in Offered, DispatchAutonomous(a, remedy)
  PROVE  TypeOK'
<1>1. ServiceOf[a] \in Service /\ remedy \in Remedy /\ NextId \in Nat /\ now \in Nat
  BY RemediationAssumption DEF DispatchAutonomous, Actionable, TypeOK, ExecutorTypeOK, NextId
<1>2. DecisionRow(a, None, None, remedy, "autonomous", "dispatched", ServiceOf[a]) \in Row
  BY <1>1, DecisionRowType DEF None, Decision
<1>3. [decision |-> NextId, anomaly |-> a, service |-> ServiceOf[a],
       action |-> remedy, mode |-> "autonomous", target |-> None] \in Message
  BY <1>1 DEF Message, RemedyMessage
<1>4. outbox' \subseteq Outgoing
  BY <1>3 DEF DispatchAutonomous, Outgoing, Origin, TypeOK
<1>. QED
  BY <1>2, <1>4 DEF DispatchAutonomous, Take, TypeOK, ExecutorTypeOK

LEMMA AwaitType ==
  ASSUME TypeOK, NEW a \in Anomaly, NEW remedy \in Offered, AwaitApproval(a, remedy)
  PROVE  TypeOK'
<1>1. ServiceOf[a] \in Service /\ remedy \in Remedy /\ now \in Nat
  BY RemediationAssumption DEF AwaitApproval, Actionable, TypeOK, ExecutorTypeOK
<1>2. DecisionRow(a, None, None, remedy, "approved", "pending_approval", ServiceOf[a]) \in Row
  BY <1>1, DecisionRowType DEF None, Decision
<1>. QED
  BY <1>2 DEF AwaitApproval, Take, TypeOK, ExecutorTypeOK

LEMMA ApproveType ==
  ASSUME TypeOK, NEW a \in Anomaly, Approve(a)
  PROVE  TypeOK'
<1>1. PICK row \in Latest(RowsOf(ledger, a, "pending_approval")) : Approve(a)!(row)
  BY DEF Approve
<1>2. row \in DOMAIN ledger /\ ledger[row].result = "pending_approval"
  BY DEF Latest, RowsOf
<1>3. ledger[row] \in Row /\ row \in Nat /\ NextId \in Nat /\ now \in Nat
  BY <1>2 DEF TypeOK, ExecutorTypeOK, NextId
<1>4. ledger[row].action \in Remedy /\ ServiceOf[a] \in Service
  BY <1>2, <1>3, RemediationAssumption DEF Row
<1>5. DecisionRow(a, row, None, ledger[row].action, "approved", "dispatched", ServiceOf[a]) \in Row
  BY <1>3, <1>4, DecisionRowType DEF None, Decision
<1>6. [decision |-> NextId, anomaly |-> a, service |-> ServiceOf[a],
       action |-> ledger[row].action, mode |-> "approved", target |-> None] \in Message
  BY <1>3, <1>4 DEF Message, RemedyMessage
<1>7. outbox' \subseteq Outgoing
  BY <1>1, <1>6 DEF Outgoing, Origin, TypeOK
<1>. QED
  BY <1>1, <1>5, <1>7 DEF TypeOK, ExecutorTypeOK, Click

LEMMA RequestRollbackType ==
  ASSUME TypeOK, NEW a \in Anomaly, RequestRollback(a)
  PROVE  TypeOK'
<1>1. PICK row \in Latest(RowsOf(ledger, a, "executed")) : RequestRollback(a)!(row)
  BY DEF RequestRollback
<1>2. row \in DOMAIN ledger
  BY DEF Latest, RowsOf
<1>3. ledger[row] \in Row /\ row \in Nat /\ NextId \in Nat /\ now \in Nat
  BY <1>2 DEF TypeOK, ExecutorTypeOK, NextId
<1>4. ledger[row].service \in Service \cup {NoService}
  BY <1>3 DEF Row, RowFields
<1>5. DecisionRow(a, row, row, "rollback", "approved", "dispatched", ledger[row].service) \in Row
  BY <1>3, <1>4, DecisionRowType DEF Decision
<1>6. [decision |-> NextId, anomaly |-> a, service |-> NoService,
       action |-> "rollback", mode |-> "absent", target |-> row] \in Message
  BY <1>3 DEF Message, RollbackMessage
<1>7. outbox' \subseteq Outgoing
  BY <1>1, <1>6 DEF Outgoing, Origin, TypeOK
<1>. QED
  BY <1>1, <1>5, <1>7 DEF TypeOK, ExecutorTypeOK, Click

(* PublishOrFail reads the row of the decision it could not publish, so it *)
(* needs every outgoing message to name a row of the ledger.               *)
OutgoingIsRecorded == \A o \in outbox : o.msg.decision \in DOMAIN ledger

LEMMA SendType ==
  ASSUME TypeOK, OutgoingIsRecorded, Send
  PROVE  TypeOK'
<1>1. PICK o \in outbox : \/ Publish(o) \/ Retry(o)
                          \/ PublishOrFail(o) \/ PublishRaises(o) \/ PublishLost(o)
  BY DEF Send
<1>2. o.msg \in Message /\ o \in Outgoing /\ queue \in Seq(Message)
  BY DEF TypeOK, ExecutorTypeOK, Outgoing
<1>7. ASSUME Retry(o) \/ PublishOrFail(o) \/ PublishRaises(o)
      PROVE  /\ queue' \in Seq(Message) /\ faults' \in Nat
             /\ UNCHANGED <<work, cluster, now, patches, orphans, inbox, clicks>>
  <2>1. MaybeTaken(o) /\ UNCHANGED <<work, cluster, now, patches, orphans, inbox, clicks>>
    BY <1>7 DEF Retry, PublishOrFail, PublishRaises
  <2>2. Append(queue, o.msg) \in Seq(Message)
    BY <1>2
  <2>3. queue' \in Seq(Message)
    BY <1>2, <2>1, <2>2 DEF MaybeTaken
  <2>4. faults' = faults \/ faults' = faults + 1
    BY <1>7 DEF Retry, PublishOrFail, PublishRaises, Fault
  <2>. QED
    BY <2>1, <2>3, <2>4 DEF TypeOK, ExecutorTypeOK
<1>3. CASE Publish(o)
  BY <1>2, <1>3 DEF Publish, TypeOK, ExecutorTypeOK
<1>4. CASE Retry(o)
  <2>1. [o EXCEPT !.attempt = 2] \in Outgoing
    BY <1>2 DEF Outgoing
  <2>. QED
    <3>1. ledger' = ledger /\ outbox' = (outbox \ {o}) \cup {[o EXCEPT !.attempt = 2]}
      BY <1>4 DEF Retry
    <3>. QED
      BY <1>4, <1>7, <2>1, <3>1 DEF TypeOK, ExecutorTypeOK
<1>5. CASE PublishOrFail(o)
  <2>1. ledger[o.msg.decision] \in Row /\ now \in Nat
    BY <1>1 DEF OutgoingIsRecorded, TypeOK, ExecutorTypeOK
  <2>2. /\ ledger[o.msg.decision].service \in Service \cup {NoService}
        /\ o.msg.anomaly \in Anomaly /\ o.msg.decision \in Nat
        /\ o.msg.action \in Remedy \cup {"alert_only", "rollback"}
    BY <1>2, <2>1 DEF Row, RowFields, Message, RemedyMessage, RollbackMessage
  <2>3. DecisionRow(o.msg.anomaly, o.msg.decision, None, o.msg.action, "approved",
                    "dispatch_failed", ledger[o.msg.decision].service) \in Row
    BY <2>1, <2>2, DecisionRowType DEF None
  <2>. QED
    <3>1. /\ outbox' = outbox \ {o}
          /\ ledger' = Append(ledger, DecisionRow(o.msg.anomaly, o.msg.decision, None,
                                 o.msg.action, "approved", "dispatch_failed",
                                 ledger[o.msg.decision].service))
      BY <1>5 DEF PublishOrFail
    <3>2. ledger' \in Seq(Row)
      BY <2>3, <3>1 DEF TypeOK, ExecutorTypeOK
    <3>. QED
      BY <1>5, <1>7, <3>1, <3>2 DEF TypeOK, ExecutorTypeOK
<1>6. CASE PublishRaises(o)
  <2>1. ledger' = ledger /\ outbox' = outbox \ {o}
    BY <1>6 DEF PublishRaises
  <2>. QED
    BY <1>6, <1>7, <2>1 DEF TypeOK, ExecutorTypeOK
<1>8. CASE PublishLost(o)
  BY <1>8 DEF PublishLost, TypeOK, ExecutorTypeOK, Fault
<1>. QED
  BY <1>1, <1>3, <1>4, <1>5, <1>6, <1>8

----------------------------------------------------------------------------
(* How a step changes the ledger: not at all, by a row that decides,       *)
(* withholds or reports a failed dispatch, or by the outcome a pod records.*)

QuietLedger ==
  \/ ledger' = ledger
  \/ \E r \in Row : /\ ledger' = Append(ledger, r)
                     /\ ~Counted(r) /\ r.result # "rollback_window_expired"
                     /\ r.prior = NoSnapshot

LEMMA AppendedType ==
  ASSUME NEW S, NEW s \in Seq(S), NEW e, Append(s, e) \in Seq(S)
  PROVE  e \in S
<1>1. Append(s, e)[Len(s) + 1] = e /\ Len(Append(s, e)) = Len(s) + 1 /\ Len(s) \in Nat
  OBVIOUS
<1>2. Append(s, e)[Len(s) + 1] \in S
  BY <1>1, ElementOfSeq
<1>. QED
  BY <1>1, <1>2

LEMMA DecisionRowQuiet ==
  ASSUME ledger \in Seq(Row), ledger' \in Seq(Row),
         NEW a, NEW parent, NEW ref, NEW action, NEW mode, NEW s,
         NEW result \in Decision \cup Withheld \cup {"dispatch_failed"},
         ledger' = Append(ledger, DecisionRow(a, parent, ref, action, mode, result, s))
  PROVE  QuietLedger
<1> DEFINE r == DecisionRow(a, parent, ref, action, mode, result, s)
<1>1. r \in Row
  BY AppendedType
<1>2. ~Counted(r) /\ r.result # "rollback_window_expired" /\ r.prior = NoSnapshot
  BY DEF DecisionRow, Counted, Decision, Withheld
<1>. QED
  BY <1>1, <1>2 DEF QuietLedger

LEMMA LedgerStep ==
  ASSUME TypeOK, TypeOK', [Next]_vars
  PROVE  QuietLedger \/ \E p \in Pod : Record(p)
<1> USE DEF TypeOK, ExecutorTypeOK
<1>1. CASE ExecutorNext
  BY <1>1 DEF ExecutorNext, Handle, Deliver, Gate, ReadDeployment, ReadAutoscaler, ApplyPatch,
     Ack, Redeliver, Raise, OperatorEdit, Autoscale, Tick, QuietLedger
<1>2. CASE Decide
  <2>1. ASSUME NEW a \in Anomaly, NEW remedy \in Offered, DispatchAutonomous(a, remedy)
        PROVE  QuietLedger
    BY <2>1, DecisionRowQuiet DEF DispatchAutonomous, Decision
  <2>2. ASSUME NEW a \in Anomaly, NEW remedy \in Offered, AwaitApproval(a, remedy)
        PROVE  QuietLedger
    BY <2>2, DecisionRowQuiet DEF AwaitApproval, Decision
  <2>4. ASSUME NEW a \in Anomaly, NEW action \in Offered, Withhold(a, action)
        PROVE  QuietLedger
    BY <2>4, DecisionRowQuiet DEF Withhold, Withheld
  <2>3. ASSUME NEW a \in Anomaly, RedeliverAnomaly(a) PROVE QuietLedger
    BY <2>3 DEF RedeliverAnomaly, QuietLedger
  <2>. QED
    BY <1>2, <2>1, <2>2, <2>3, <2>4 DEF Decide
<1>3. CASE Operate
  <2>1. ASSUME NEW a \in Anomaly, Approve(a) PROVE QuietLedger
    <3>1. PICK row \in Latest(RowsOf(ledger, a, "pending_approval")) : Approve(a)!(row)
      BY <2>1 DEF Approve
    <3>. QED
      BY <3>1, DecisionRowQuiet DEF Decision
  <2>2. ASSUME NEW a \in Anomaly, RequestRollback(a) PROVE QuietLedger
    <3>1. PICK row \in Latest(RowsOf(ledger, a, "executed")) : RequestRollback(a)!(row)
      BY <2>2 DEF RequestRollback
    <3>. QED
      BY <3>1, DecisionRowQuiet DEF Decision
  <2>. QED
    BY <1>3, <2>1, <2>2 DEF Operate
<1>4. CASE Send
  <2>1. ASSUME NEW o \in outbox, PublishOrFail(o) PROVE QuietLedger
    BY <2>1, DecisionRowQuiet DEF PublishOrFail
  <2>2. ASSUME NEW o \in outbox, Publish(o) \/ Retry(o) \/ PublishRaises(o) \/ PublishLost(o)
        PROVE  QuietLedger
    BY <2>2 DEF Publish, Retry, PublishRaises, PublishLost, QuietLedger
  <2>. QED
    BY <1>4, <2>1, <2>2 DEF Send
<1>5. CASE UNCHANGED vars
  BY <1>5 DEF vars, QuietLedger
<1>. QED
  BY <1>1, <1>2, <1>3, <1>4, <1>5 DEF Next

(* The ledger only grows, and no row in it ever changes.                   *)
LEMMA LedgerGrows ==
  ASSUME TypeOK, TypeOK', [Next]_vars
  PROVE  /\ DOMAIN ledger \subseteq DOMAIN ledger'
         /\ \A i \in DOMAIN ledger : ledger'[i] = ledger[i]
<1>1. ASSUME NEW r, ledger' = Append(ledger, r)
      PROVE  /\ DOMAIN ledger \subseteq DOMAIN ledger'
             /\ \A i \in DOMAIN ledger : ledger'[i] = ledger[i]
  BY <1>1 DEF TypeOK, ExecutorTypeOK
<1>. QED
  BY <1>1, LedgerStep DEF QuietLedger, Record

LEMMA NextType ==
  ASSUME TypeOK, OutgoingIsRecorded, [Next]_vars
  PROVE  TypeOK'
<1>1. CASE ExecutorNext /\ UNCHANGED <<inbox, outbox, clicks>>
  BY <1>1, ExecutorType DEF TypeOK
<1>2. CASE Decide
  <2>1. ASSUME NEW a \in Anomaly, RedeliverAnomaly(a) PROVE TypeOK'
    BY <2>1 DEF RedeliverAnomaly, TypeOK, ExecutorTypeOK, Fault
  <2>. QED
    BY <1>2, <2>1, WithholdType, DispatchType, AwaitType DEF Decide
<1>3. CASE Operate
  BY <1>3, ApproveType, RequestRollbackType DEF Operate
<1>4. CASE Send
  BY <1>4, SendType
<1>5. CASE UNCHANGED vars
  BY <1>5 DEF vars, TypeOK, ExecutorTypeOK
<1>. QED
  BY <1>1, <1>2, <1>3, <1>4, <1>5 DEF Next

LEMMA NextRecorded ==
  ASSUME TypeOK, TypeOK', OutgoingIsRecorded, [Next]_vars
  PROVE  OutgoingIsRecorded'
<1>1. DOMAIN ledger \subseteq DOMAIN ledger'
  BY LedgerGrows
<1>2. ASSUME NEW o \in outbox', o \notin outbox PROVE o.msg.decision \in DOMAIN ledger'
  <2>1. CASE ExecutorNext /\ UNCHANGED <<inbox, outbox, clicks>>
    BY <1>2, <2>1
  <2>2. ASSUME NEW a \in Anomaly, NEW remedy \in Offered, DispatchAutonomous(a, remedy)
        PROVE  o.msg.decision \in DOMAIN ledger'
    <3>1. o.msg.decision = Len(ledger) + 1
      BY <1>2, <2>2 DEF DispatchAutonomous, NextId
    <3>. QED
      BY <2>2, <3>1 DEF DispatchAutonomous, TypeOK, ExecutorTypeOK
  <2>3. ASSUME NEW a \in Anomaly, Approve(a) PROVE o.msg.decision \in DOMAIN ledger'
    <3>1. PICK row \in Latest(RowsOf(ledger, a, "pending_approval")) : Approve(a)!(row)
      BY <2>3 DEF Approve
    <3>2. o.msg.decision = Len(ledger) + 1
      BY <1>2, <3>1 DEF NextId
    <3>. QED
      BY <3>1, <3>2 DEF TypeOK, ExecutorTypeOK
  <2>4. ASSUME NEW a \in Anomaly, RequestRollback(a) PROVE o.msg.decision \in DOMAIN ledger'
    <3>1. PICK row \in Latest(RowsOf(ledger, a, "executed")) : RequestRollback(a)!(row)
      BY <2>4 DEF RequestRollback
    <3>2. o.msg.decision = Len(ledger) + 1
      BY <1>2, <3>1 DEF NextId
    <3>. QED
      BY <3>1, <3>2 DEF TypeOK, ExecutorTypeOK
  <2>5. CASE Send
    <3>1. PICK o2 \in outbox : \/ Publish(o2) \/ Retry(o2)
                              \/ PublishOrFail(o2) \/ PublishRaises(o2) \/ PublishLost(o2)
      BY <2>5 DEF Send
    <3>2. Retry(o2) /\ o = [o2 EXCEPT !.attempt = 2]
      BY <1>2, <3>1 DEF Publish, Retry, PublishOrFail, PublishRaises, PublishLost
    <3>3. o2 \in Outgoing
      BY DEF TypeOK
    <3>4. o.msg = o2.msg
      BY <3>2, <3>3 DEF Outgoing
    <3>. QED
      BY <1>1, <3>4 DEF OutgoingIsRecorded
  <2>6. CASE UNCHANGED vars
    BY <1>2, <2>6 DEF vars
  <2>. QED
    BY <1>2, <2>1, <2>2, <2>3, <2>4, <2>5, <2>6
       DEF Next, Decide, Operate, Withhold, AwaitApproval, RedeliverAnomaly
<1>. QED
  BY <1>1, <1>2 DEF OutgoingIsRecorded

LEMMA InitType == Init => TypeOK /\ OutgoingIsRecorded
<1>. SUFFICES ASSUME Init PROVE TypeOK /\ OutgoingIsRecorded
  OBVIOUS
<1>1. /\ << >> \in Seq(Row) /\ << >> \in Seq(Message) /\ << >> \in Seq(Patch)
  BY EmptySeq
<1>2. [p \in Pod |-> NoWork] \in [Pod -> Work]
  BY DEF Work
<1>. QED
  BY <1>1, <1>2, ExecutorAssumption
     DEF Init, ExecutorInit, TypeOK, ExecutorTypeOK, OutgoingIsRecorded

(* Every reachable state is well typed: rows, messages and patches refer   *)
(* to services, decisions and snapshots that exist, and a pod about to     *)
(* patch always holds a prior state to answer for it.                      *)
THEOREM TypeCorrect == Spec => [](TypeOK /\ OutgoingIsRecorded)
<1>1. TypeOK /\ OutgoingIsRecorded /\ [Next]_vars => (TypeOK /\ OutgoingIsRecorded)'
  BY NextType, NextRecorded
<1>. QED
  BY InitType, <1>1, PTL DEF Spec

----------------------------------------------------------------------------
(* The protected floor                                                     *)

Spares(snapshot) == snapshot = NoSnapshot \/ snapshot.service \notin Protected

(* ProtectedUntouched is not inductive: a rollback patches whatever its    *)
(* target row says.  What carries it is that every prior state, in the     *)
(* ledger or in a pod's hands, was captured behind the floor.              *)
FloorInv ==
  /\ \A i \in DOMAIN ledger : Spares(ledger[i].prior)
  /\ \A p \in Pod : ~At(p, "idle") => Spares(work[p].prior)
  /\ \A p \in Pod : At(p, "read") => work[p].msg.service \notin Protected
  /\ ProtectedUntouched

LEMMA FloorWork ==
  ASSUME TypeOK, FloorInv, NEW p \in Pod, Deliver(p) \/ Handle(p) \/ Redeliver(p) \/ Raise(p)
  PROVE  /\ \A q \in Pod : ~At(q, "idle")' => Spares(work'[q].prior)
         /\ \A q \in Pod : At(q, "read")' => work'[q].msg.service \notin Protected
<1> USE DEF At
<1>0. work \in [Pod -> Work]
  BY DEF TypeOK, ExecutorTypeOK
<1>1. \A q \in Pod : q # p => work'[q] = work[q]
  BY <1>0 DEF Deliver, Handle, Gate, AdmitRollback, AdmitRemedy, ReadDeployment,
     ReadAutoscaler, ApplyPatch, Record, Ack, Redeliver, Raise, CutOff, Conclude, Step
<1>2. SUFFICES /\ ~At(p, "idle")' => Spares(work'[p].prior)
               /\ At(p, "read")' => work'[p].msg.service \notin Protected
  BY <1>1 DEF FloorInv
<1>3. CASE Deliver(p)
  BY <1>0, <1>3 DEF Deliver, Spares
<1>4. CASE Gate(p)
  <2>1. CASE AdmitRollback(p)
    BY <1>0, <1>4, <2>1 DEF AdmitRollback, Conclude, Step, Spares, FloorInv, HasReference
  <2>2. CASE AdmitRemedy(p)
    BY <1>0, <1>4, <2>2 DEF AdmitRemedy, Conclude, Step, Spares
  <2>. QED
    BY <1>4, <2>1, <2>2 DEF Gate
<1>5. CASE ReadDeployment(p)
  BY <1>0, <1>5 DEF ReadDeployment, Conclude, Step, Spares, FloorInv
<1>6. CASE ReadAutoscaler(p)
  BY <1>0, <1>6 DEF ReadAutoscaler, Conclude, Step, Spares, FloorInv
<1>7. CASE ApplyPatch(p) \/ Record(p)
  BY <1>0, <1>7 DEF ApplyPatch, Record, Step, FloorInv
<1>8. CASE Ack(p) \/ Redeliver(p) \/ Raise(p)
  BY <1>0, <1>8 DEF Ack, Redeliver, Raise, CutOff, NoWork
<1>. QED
  BY <1>3, <1>4, <1>5, <1>6, <1>7, <1>8 DEF Handle

LEMMA FloorLedger ==
  ASSUME TypeOK, TypeOK', FloorInv, [Next]_vars
  PROVE  \A i \in DOMAIN ledger' : Spares(ledger'[i].prior)
<1>1. CASE ledger' = ledger
  BY <1>1 DEF FloorInv
<1>2. ASSUME NEW r, ledger' = Append(ledger, r), Spares(r.prior)
      PROVE  \A i \in DOMAIN ledger' : Spares(ledger'[i].prior)
  BY <1>2 DEF FloorInv, TypeOK, ExecutorTypeOK
<1>3. ASSUME NEW p \in Pod, Record(p) PROVE Spares(OutcomeRow(work[p]).prior)
  BY <1>3 DEF Record, OutcomeRow, Spares, FloorInv, At
<1>. QED
  BY <1>1, <1>2, <1>3, LedgerStep DEF QuietLedger, Record, Spares

LEMMA FloorPatches ==
  ASSUME TypeOK, FloorInv, NEW p \in Pod, ApplyPatch(p)
  PROVE  ProtectedUntouched'
<1>1. work[p].prior \in Snapshot
  BY BusyType DEF ApplyPatch, At, TypeOK, ExecutorTypeOK
<1>2. work[p].prior.service \notin Protected
  BY <1>1, NotASnapshot DEF FloorInv, ApplyPatch, Spares, At
<1>. QED
  BY <1>2 DEF ApplyPatch, ProtectedUntouched, FloorInv, TypeOK, ExecutorTypeOK

LEMMA FloorStep ==
  ASSUME TypeOK, TypeOK', FloorInv, [Next]_vars
  PROVE  FloorInv'
<1>1. \A i \in DOMAIN ledger' : Spares(ledger'[i].prior)
  BY FloorLedger
<1>2. ASSUME NEW p \in Pod, ApplyPatch(p) PROVE FloorInv'
  BY <1>1, <1>2, FloorWork, FloorPatches DEF FloorInv, Handle
<1>3. ASSUME NEW p \in Pod,
             Deliver(p) \/ Gate(p) \/ ReadDeployment(p) \/ ReadAutoscaler(p)
               \/ Record(p) \/ Ack(p) \/ Redeliver(p) \/ Raise(p)
      PROVE  FloorInv'
  <2>1. patches' = patches
    BY <1>3 DEF Deliver, Gate, ReadDeployment, ReadAutoscaler, Record, Ack, Redeliver, Raise
  <2>. QED
    BY <1>1, <1>3, <2>1, FloorWork DEF FloorInv, Handle, ProtectedUntouched
<1>4. ASSUME UNCHANGED <<work, patches>> PROVE FloorInv'
  BY <1>1, <1>4 DEF FloorInv, ProtectedUntouched, At
<1>5. CASE ExecutorNext
  BY <1>2, <1>3, <1>4, <1>5 DEF ExecutorNext, Handle, OperatorEdit, Autoscale, Tick
<1>6. CASE Decide \/ Operate \/ Send \/ UNCHANGED vars
  BY <1>4, <1>6 DEF Decide, Withhold, DispatchAutonomous, AwaitApproval, RedeliverAnomaly, Operate,
     Approve, RequestRollback, Send, Publish, Retry, PublishOrFail, PublishRaises, PublishLost, vars
<1>. QED
  BY <1>5, <1>6 DEF Next

(* The protected floor holds for any number of pods and under every fault: *)
(* no behaviour of the remediation loop, reversals included, patches a     *)
(* protected workload.                                                     *)
THEOREM FloorHolds == Spec => []ProtectedUntouched
<1>1. Init => FloorInv
  BY DEF Init, ExecutorInit, FloorInv, ProtectedUntouched, At, NoWork
<1>2. TypeOK /\ TypeOK' /\ FloorInv /\ [Next]_vars => FloorInv'
  BY FloorStep
<1>3. FloorInv => ProtectedUntouched
  BY DEF FloorInv
<1>. QED
  BY TypeCorrect, <1>1, <1>2, <1>3, PTL DEF Spec

----------------------------------------------------------------------------
(* The rate limits                                                         *)

(* The limits are checked at the gate and recorded steps later, so they    *)
(* rest on nobody else recording an action in between: on one pod.         *)
OnePod == \A p, q \in Pod : p = q

PastGate(p) ==
  \/ At(p, "read")
  \/ (At(p, "patch") \/ At(p, "record")) /\ work[p].result = "executed"

(* Both windows have room for one more action on service s.                *)
Room(s) ==
  /\ Cardinality(RecentActions(ledger, now, Window)) < MaxActions
  /\ Cardinality(RecentActionsOn(ledger, now, ServiceWindow, s)) < MaxPerService

(* A pod past the gate holds a permit that time and other writers' rows    *)
(* cannot revoke: the counts it saw can only shrink until it records.      *)
CeilingInv ==
  /\ \A p \in Pod : PastGate(p) => Room(work[p].msg.service)
  /\ ExecutedCeiling
  /\ ServiceExecutedCeiling

LEMMA RecentOnFinite ==
  ASSUME NEW log \in Seq(Row), NEW t \in Nat, NEW d \in Nat, NEW s
  PROVE  /\ IsFiniteSet(RecentActionsOn(log, t, d, s))
         /\ Cardinality(RecentActionsOn(log, t, d, s)) \in Nat
<1>1. RecentActionsOn(log, t, d, s) \in SUBSET RecentActions(log, t, d)
  BY DEF RecentActionsOn
<1>2. IsFiniteSet(RecentActionsOn(log, t, d, s))
  BY <1>1, RecentFinite, FS_Subset
<1>. QED
  BY <1>2, FS_CardinalityType

(* A row the limiter counts that a quiet step leaves was there before it.  *)
LEMMA CountedWasThere ==
  ASSUME TypeOK, TypeOK', QuietLedger, NEW i \in DOMAIN ledger', Counted(ledger'[i])
  PROVE  i \in DOMAIN ledger /\ ledger'[i] = ledger[i]
<1>1. CASE ledger' = ledger
  BY <1>1
<1>2. ASSUME NEW r \in Row, ledger' = Append(ledger, r), ~Counted(r)
      PROVE  i \in DOMAIN ledger /\ ledger'[i] = ledger[i]
  <2>1. ledger \in Seq(Row) /\ Len(ledger) \in Nat
    BY DEF TypeOK, ExecutorTypeOK
  <2>2. /\ DOMAIN ledger' = 1 .. (Len(ledger) + 1) /\ DOMAIN ledger = 1 .. Len(ledger)
        /\ \A j \in 1 .. Len(ledger) : ledger'[j] = ledger[j]
        /\ ledger'[Len(ledger) + 1] = r
    BY <1>2, <2>1, AppendFacts
  <2>. QED
    BY <1>2, <2>1, <2>2
<1>. QED
  BY <1>1, <1>2 DEF QuietLedger

(* Time passing, and rows that are not outcomes, only shrink the window.   *)
LEMMA WindowShrinks ==
  ASSUME TypeOK, TypeOK', QuietLedger, now <= now', NEW d \in Nat
  PROVE  RecentActions(ledger', now', d) \in SUBSET RecentActions(ledger, now, d)
<1> SUFFICES ASSUME NEW i \in RecentActions(ledger', now', d)
             PROVE  i \in RecentActions(ledger, now, d)
  OBVIOUS
<1>1. i \in DOMAIN ledger' /\ Counted(ledger'[i]) /\ ledger'[i].at + d >= now'
  BY DEF RecentActions
<1>2. i \in DOMAIN ledger /\ ledger'[i] = ledger[i]
  BY <1>1, CountedWasThere
<1>3. ledger[i].at \in Nat /\ now \in Nat /\ now' \in Nat
  BY <1>2 DEF TypeOK, ExecutorTypeOK, Row, RowFields
<1>. QED
  BY <1>1, <1>2, <1>3 DEF RecentActions

LEMMA RoomStays ==
  ASSUME TypeOK, TypeOK', QuietLedger, now <= now', NEW s, Room(s)
  PROVE  Room(s)'
<1>0. /\ ledger \in Seq(Row) /\ ledger' \in Seq(Row)
      /\ now \in Nat /\ now' \in Nat
      /\ Window \in Nat /\ ServiceWindow \in Nat
      /\ MaxActions \in Nat /\ MaxPerService \in Nat
  BY ExecutorAssumption DEF TypeOK, ExecutorTypeOK
<1>1. RecentActions(ledger', now', Window) \in SUBSET RecentActions(ledger, now, Window)
  BY <1>0, WindowShrinks
<1>2. RecentActionsOn(ledger', now', ServiceWindow, s)
        \in SUBSET RecentActionsOn(ledger, now, ServiceWindow, s)
  <2>1. RecentActions(ledger', now', ServiceWindow)
          \in SUBSET RecentActions(ledger, now, ServiceWindow)
    BY <1>0, WindowShrinks
  <2>2. \A i \in RecentActions(ledger', now', ServiceWindow) : ledger'[i] = ledger[i]
    BY CountedWasThere DEF RecentActions
  <2>. QED
    BY <2>1, <2>2 DEF RecentActionsOn
<1>3. Cardinality(RecentActions(ledger', now', Window))
        <= Cardinality(RecentActions(ledger, now, Window))
  BY <1>0, <1>1, RecentFinite, FS_Subset
<1>4. Cardinality(RecentActionsOn(ledger', now', ServiceWindow, s))
        <= Cardinality(RecentActionsOn(ledger, now, ServiceWindow, s))
  BY <1>0, <1>2, RecentOnFinite, FS_Subset
<1>5. /\ Cardinality(RecentActions(ledger, now, Window)) \in Nat
      /\ Cardinality(RecentActions(ledger', now', Window)) \in Nat
  BY <1>0, RecentFinite
<1>6. /\ Cardinality(RecentActionsOn(ledger, now, ServiceWindow, s)) \in Nat
      /\ Cardinality(RecentActionsOn(ledger', now', ServiceWindow, s)) \in Nat
  BY <1>0, RecentOnFinite
<1>7. Cardinality(RecentActions(ledger', now', Window)) < MaxActions
  BY <1>0, <1>3, <1>5 DEF Room
<1>8. Cardinality(RecentActionsOn(ledger', now', ServiceWindow, s)) < MaxPerService
  BY <1>0, <1>4, <1>6 DEF Room
<1>. QED
  BY <1>7, <1>8 DEF Room

(* The two ceilings at the row with id j.                                  *)
CeilingAt(log, j) ==
  /\ Cardinality({i \in 1 .. j : /\ log[i].result = "executed"
                                /\ log[i].at + Window >= log[j].at}) <= MaxActions
  /\ Cardinality({i \in 1 .. j : /\ log[i].result = "executed"
                                /\ log[i].service = log[j].service
                                /\ log[i].at + ServiceWindow >= log[j].at}) <= MaxPerService

LEMMA OldCeilings ==
  ASSUME TypeOK, TypeOK', ExecutedCeiling, ServiceExecutedCeiling, [Next]_vars,
         NEW j \in DOMAIN ledger, ledger'[j].result = "executed"
  PROVE  CeilingAt(ledger', j)
<1>0. ledger \in Seq(Row)
  BY DEF TypeOK, ExecutorTypeOK
<1>1. \A i \in 1 .. j : i \in DOMAIN ledger /\ ledger'[i] = ledger[i]
  <2>1. \A i \in 1 .. j : i \in DOMAIN ledger
    BY <1>0
  <2>. QED
    BY <2>1, LedgerGrows
<1>2. j \in 1 .. j
  BY <1>0
<1>3. CeilingAt(ledger, j)
  BY <1>1, <1>2 DEF CeilingAt, ExecutedCeiling, ServiceExecutedCeiling
<1>4. {i \in 1 .. j : ledger'[i].result = "executed" /\ ledger'[i].at + Window >= ledger'[j].at}
      = {i \in 1 .. j : ledger[i].result = "executed" /\ ledger[i].at + Window >= ledger[j].at}
  BY <1>1, <1>2
<1>5. {i \in 1 .. j : /\ ledger'[i].result = "executed"
                      /\ ledger'[i].service = ledger'[j].service
                      /\ ledger'[i].at + ServiceWindow >= ledger'[j].at}
      = {i \in 1 .. j : /\ ledger[i].result = "executed"
                        /\ ledger[i].service = ledger[j].service
                        /\ ledger[i].at + ServiceWindow >= ledger[j].at}
  BY <1>1, <1>2
<1>. QED
  BY <1>3, <1>4, <1>5 DEF CeilingAt

LEMMA AtMostOneMore ==
  ASSUME NEW T, NEW U, NEW x, IsFiniteSet(T), U \subseteq T \cup {x}, Cardinality(T) \in Nat
  PROVE  Cardinality(U) \in Nat /\ Cardinality(U) <= Cardinality(T) + 1
<1>1. /\ IsFiniteSet(T \cup {x})
      /\ Cardinality(T \cup {x}) = IF x \in T THEN Cardinality(T) ELSE Cardinality(T) + 1
  BY FS_AddElement, Zenon
<1>2. Cardinality(T \cup {x}) <= Cardinality(T) + 1
  BY <1>1
<1>3. IsFiniteSet(U) /\ Cardinality(U) <= Cardinality(T \cup {x})
  BY <1>1, FS_Subset
<1>4. Cardinality(U) \in Nat /\ Cardinality(T \cup {x}) \in Nat
  BY <1>1, <1>3, FS_CardinalityType
<1>. QED
  BY <1>2, <1>3, <1>4

LEMMA NewCeiling ==
  ASSUME TypeOK, TypeOK', NEW p \in Pod, Record(p), Room(work[p].msg.service)
  PROVE  CeilingAt(ledger', Len(ledger) + 1)
<1> DEFINE n == Len(ledger) + 1
           s == work[p].msg.service
           G == {i \in 1 .. n : /\ ledger'[i].result = "executed"
                                /\ ledger'[i].at + Window >= ledger'[n].at}
           S == {i \in 1 .. n : /\ ledger'[i].result = "executed"
                                /\ ledger'[i].service = ledger'[n].service
                                /\ ledger'[i].at + ServiceWindow >= ledger'[n].at}
<1> USE ExecutorAssumption
<1>1. /\ Len(ledger) \in Nat /\ DOMAIN ledger = 1 .. Len(ledger)
      /\ \A i \in 1 .. Len(ledger) : ledger'[i] = ledger[i]
      /\ ledger'[n].at = now /\ ledger'[n].service = s
  BY DEF Record, OutcomeRow, TypeOK, ExecutorTypeOK
<1>2. G \subseteq RecentActions(ledger, now, Window) \cup {n}
  BY <1>1 DEF RecentActions, Counted
<1>3. S \subseteq RecentActionsOn(ledger, now, ServiceWindow, s) \cup {n}
  BY <1>1 DEF RecentActionsOn, RecentActions, Counted
<1>4. /\ IsFiniteSet(RecentActions(ledger, now, Window))
      /\ Cardinality(RecentActions(ledger, now, Window)) \in Nat
      /\ IsFiniteSet(RecentActionsOn(ledger, now, ServiceWindow, s))
      /\ Cardinality(RecentActionsOn(ledger, now, ServiceWindow, s)) \in Nat
  BY RecentFinite, RecentOnFinite DEF TypeOK, ExecutorTypeOK
<1>5. \A T, U : IsFiniteSet(T) /\ U \subseteq T \cup {n} /\ Cardinality(T) \in Nat
                => Cardinality(U) \in Nat /\ Cardinality(U) <= Cardinality(T) + 1
  BY AtMostOneMore
<1>6. Cardinality(G) <= MaxActions
  BY <1>2, <1>4, <1>5 DEF Room
<1>7. Cardinality(S) <= MaxPerService
  BY <1>3, <1>4, <1>5 DEF Room
<1>. QED
  BY <1>6, <1>7 DEF CeilingAt

LEMMA CeilingLedger ==
  ASSUME TypeOK, TypeOK', CeilingInv, [Next]_vars
  PROVE  ExecutedCeiling' /\ ServiceExecutedCeiling'
<1>. SUFFICES ASSUME NEW j \in DOMAIN ledger', ledger'[j].result = "executed"
              PROVE  CeilingAt(ledger', j)
  BY DEF ExecutedCeiling, ServiceExecutedCeiling, CeilingAt
<1>1. CASE j \in DOMAIN ledger
  BY <1>1, OldCeilings DEF CeilingInv
<1>2. CASE j \notin DOMAIN ledger
  <2>1. PICK p \in Pod : Record(p)
    BY <1>2, LedgerStep DEF QuietLedger, Counted, TypeOK, ExecutorTypeOK
  <2>2. j = Len(ledger) + 1 /\ ledger'[j] = OutcomeRow(work[p])
    BY <1>2, <2>1 DEF Record, TypeOK, ExecutorTypeOK
  <2>3. Room(work[p].msg.service)
    BY <2>1, <2>2 DEF OutcomeRow, CeilingInv, PastGate, Record
  <2>. QED
    BY <2>1, <2>2, <2>3, NewCeiling
<1>. QED
  BY <1>1, <1>2

LEMMA CeilingPermit ==
  ASSUME OnePod, TypeOK, TypeOK', CeilingInv, [Next]_vars,
         NEW p \in Pod, PastGate(p)'
  PROVE  Room(work[p].msg.service)'
<1> USE DEF At
<1>0. work \in [Pod -> Work] /\ now \in Nat
  BY DEF TypeOK, ExecutorTypeOK
<1>1. ASSUME ledger' = ledger, now' = now, PastGate(p), work'[p].msg = work[p].msg
      PROVE  Room(work[p].msg.service)'
  BY <1>1 DEF CeilingInv, Room
<1>2. ASSUME UNCHANGED work, QuietLedger, now <= now'
      PROVE  Room(work[p].msg.service)'
  BY <1>2, RoomStays DEF CeilingInv, PastGate
<1>3. CASE Gate(p)
  <2>1. AdmitRemedy(p) /\ work'[p].pc = "read" /\ work'[p].msg = work[p].msg
    BY <1>0, <1>3 DEF Gate, AdmitRollback, AdmitRemedy, Conclude, Step, PastGate
  <2>2. ~GlobalLimitHit /\ ~ServiceLimitHit(work[p].msg.service)
    BY <1>0, <2>1 DEF AdmitRemedy, Conclude, Step
  <2>3. /\ Cardinality(RecentActions(ledger, now, Window)) \in Nat
        /\ Cardinality(RecentActionsOn(ledger, now, ServiceWindow, work[p].msg.service)) \in Nat
    BY RecentFinite, RecentOnFinite, ExecutorAssumption DEF TypeOK, ExecutorTypeOK
  <2>4. Room(work[p].msg.service)
    BY <2>2, <2>3, ExecutorAssumption DEF GlobalLimitHit, ServiceLimitHit, Room
  <2>. QED
    BY <1>3, <2>1, <2>4 DEF Gate, Room
<1>4. CASE ReadDeployment(p) \/ ReadAutoscaler(p) \/ ApplyPatch(p)
  <2>1. PastGate(p) /\ work'[p].msg = work[p].msg
    BY <1>0, <1>4 DEF ReadDeployment, ReadAutoscaler, ApplyPatch, Conclude, Step, PastGate
  <2>. QED
    BY <1>1, <1>4, <2>1 DEF ReadDeployment, ReadAutoscaler, ApplyPatch
<1>5. CASE Deliver(p) \/ Record(p) \/ Ack(p) \/ Redeliver(p) \/ Raise(p)
  BY <1>0, <1>5 DEF Deliver, Record, Ack, Redeliver, Raise, CutOff, Step, PastGate, NoWork
<1>6. CASE ExecutorNext
  <2>1. CASE \E q \in Pod : Deliver(q) \/ Handle(q) \/ Redeliver(q) \/ Raise(q)
    BY <1>3, <1>4, <1>5, <2>1 DEF OnePod, Handle
  <2>2. CASE Tick \/ \E s \in Service : OperatorEdit(s) \/ Autoscale(s)
    BY <1>0, <1>2, <2>2 DEF Tick, OperatorEdit, Autoscale, QuietLedger
  <2>. QED
    BY <1>6, <2>1, <2>2 DEF ExecutorNext
<1>7. CASE Decide \/ Operate \/ Send \/ UNCHANGED vars
  <2>1. UNCHANGED <<work, now>>
    BY <1>7 DEF Decide, Withhold, DispatchAutonomous, AwaitApproval, RedeliverAnomaly, Operate,
       Approve, RequestRollback, Send, Publish, Retry, PublishOrFail, PublishRaises, PublishLost, vars
  <2>2. CASE QuietLedger
    BY <1>0, <1>2, <2>1, <2>2
  <2>3. ASSUME NEW q \in Pod, Record(q) PROVE FALSE
    BY <1>0, <2>1, <2>3 DEF Record, Step
  <2>. QED
    BY <2>2, <2>3, LedgerStep
<1>. QED
  BY <1>6, <1>7 DEF Next

(* With one executor pod, the rate limits the source promises hold of the  *)
(* ledger for any limits, windows, faults and clock: no window of `Window` *)
(* minutes ends in more than MaxActions executions, and no service sees    *)
(* more than MaxPerService of them in `ServiceWindow`.                     *)
THEOREM CeilingsHold == OnePod => (Spec => [](ExecutedCeiling /\ ServiceExecutedCeiling))
<1> SUFFICES ASSUME OnePod PROVE Spec => [](ExecutedCeiling /\ ServiceExecutedCeiling)
  OBVIOUS
<1>1. Init => CeilingInv
  BY DEF Init, ExecutorInit, CeilingInv, PastGate, At, NoWork, ExecutedCeiling,
     ServiceExecutedCeiling
<1>2. TypeOK /\ TypeOK' /\ CeilingInv /\ [Next]_vars => CeilingInv'
  <2> SUFFICES ASSUME TypeOK, TypeOK', CeilingInv, [Next]_vars PROVE CeilingInv'
    OBVIOUS
  <2>1. \A p \in Pod : PastGate(p)' => Room(work[p].msg.service)'
    BY CeilingPermit
  <2>. QED
    BY <2>1, CeilingLedger DEF CeilingInv
<1>3. CeilingInv => ExecutedCeiling /\ ServiceExecutedCeiling
  BY DEF CeilingInv
<1>. QED
  BY TypeCorrect, <1>1, <1>2, <1>3, PTL DEF Spec
=====
