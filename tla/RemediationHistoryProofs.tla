---------------------- MODULE RemediationHistoryProofs ----------------------
(***************************************************************************)
(* Theorems about what the remediation loop leaves behind: the audit trail *)
(* in the ledger and the patches on the cluster.  They continue            *)
(* RemediationProofs and rest on one idea: wherever a message is, in a     *)
(* publisher's outbox, in the queue or in a pod's hands, the ledger holds  *)
(* the row that justifies it.                                              *)
(***************************************************************************)
EXTENDS RemediationProofs

----------------------------------------------------------------------------
(* Provenance                                                              *)

(* The messages in flight.                                                 *)
Held == {o.msg : o \in outbox} \cup {queue[i] : i \in DOMAIN queue}
          \cup {work[p].msg : p \in {q \in Pod : ~At(q, "idle")}}

(* Row t of `log` is an execution on anomaly a that a rollback may target. *)
Reversible(log, t, a) ==
  t \in DOMAIN log /\ log[t].result = "executed" /\ log[t].anomaly = a

(* The ledger holds the dispatch that message m carries out.               *)
Justified(log, m) ==
  /\ m.decision \in DOMAIN log
  /\ LET d == log[m.decision] IN
     /\ d.result = "dispatched" /\ d.anomaly = m.anomaly /\ d.action = m.action
     /\ IsRollback(m) => d.ref = m.target /\ Reversible(log, m.target, m.anomaly)
     /\ ~IsRollback(m) => d.service = m.service

(* The dispatch in row i of `log` rests on autonomous authority, on an     *)
(* approved request, or on the execution it reverses.                      *)
Authorised(log, i) ==
  LET d == log[i] IN
  /\ d.action = "rollback" => d.ref # None /\ Reversible(log, d.ref, d.anomaly)
  /\ d.action # "rollback" =>
       \/ d.mode = "autonomous"
       \/ /\ d.parent \in DOMAIN log /\ d.parent # None
          /\ log[d.parent].result = "pending_approval"
          /\ log[d.parent].anomaly = d.anomaly
          /\ log[d.parent].action = d.action

(* The prior state an executed row holds is of the service it names.       *)
Restorable(row) == row.prior \in Snapshot /\ row.prior.service = row.service

RollbackOutcome ==
  {"rolled_back", "rollback_window_expired", "rollback_failed_no_reference"}

RemedyOutcome ==
  {"executed", "no_op", "unsupported_action", "blocked_by_protected_floor",
   "blocked_by_global_rate_limit", "blocked_by_per_service_rate_limit"}

(* How far pod p is agrees with what it was asked to do.                   *)
Consistent(p) ==
  LET d == work[p] IN
  /\ At(p, "read") => ~IsRollback(d.msg)
  /\ At(p, "patch") /\ IsRollback(d.msg) =>
       /\ d.result = "rolled_back"
       /\ d.prior = ledger[d.msg.target].prior /\ d.apply = d.prior.value
  /\ At(p, "patch") /\ ~IsRollback(d.msg) => d.result = "executed"
  /\ At(p, "record") /\ IsRollback(d.msg) => d.result \in RollbackOutcome
  /\ At(p, "record") /\ ~IsRollback(d.msg) => d.result \in RemedyOutcome
  /\ (At(p, "patch") \/ At(p, "record")) /\ d.result = "executed" =>
       d.prior \in Snapshot /\ d.prior.service = d.msg.service

HeldInv    == \A m \in Held : Justified(ledger, m)
LedgerInv  == \A i \in DOMAIN ledger :
                /\ ledger[i].result = "dispatched" => Authorised(ledger, i)
                /\ ledger[i].result = "executed" => Restorable(ledger[i])
PodInv     == \A p \in Pod : Consistent(p)

(* What the ledger says of a patch on the cluster.                         *)
Explained(log, q) ==
  /\ q.decision \in DOMAIN log
  /\ LET d == log[q.decision] IN
     /\ d.result = "dispatched"
     /\ ~q.undo => d.action # "rollback"
     /\ q.undo => /\ d.action = "rollback"
                  /\ log[d.ref].service = q.service
                  /\ log[d.ref].prior.value = q.after
PatchInv == \A i \in DOMAIN patches : Explained(ledger, patches[i])

ProvenanceInv == HeldInv /\ LedgerInv /\ PodInv /\ PatchInv

LEMMA RowType ==
  ASSUME TypeOK, NEW i \in DOMAIN ledger
  PROVE  ledger[i] \in Row /\ i \in Nat \ {0}
BY DEF TypeOK, ExecutorTypeOK

(* No row changes, so what a ledger justifies a longer one does too.       *)
LEMMA JustifiedStays ==
  ASSUME TypeOK, TypeOK', [Next]_vars
  PROVE  /\ \A m : Justified(ledger, m) => Justified(ledger', m)
         /\ \A i \in DOMAIN ledger : Authorised(ledger, i) => Authorised(ledger', i)
         /\ \A q \in Patch : LedgerInv /\ Explained(ledger, q) => Explained(ledger', q)
<1>1. \A i \in DOMAIN ledger : i \in DOMAIN ledger' /\ ledger'[i] = ledger[i]
  BY LedgerGrows
<1>2. \A m : Justified(ledger, m) => Justified(ledger', m)
  BY <1>1 DEF Justified, Reversible
<1>3. \A i \in DOMAIN ledger : Authorised(ledger, i) => Authorised(ledger', i)
  BY <1>1 DEF Authorised, Reversible
<1>4. ASSUME NEW q \in Patch, LedgerInv, Explained(ledger, q) PROVE Explained(ledger', q)
  <2>1. q.undo => ledger[q.decision].ref \in DOMAIN ledger
    BY <1>4 DEF Explained, LedgerInv, Authorised, Reversible
  <2>. QED
    BY <1>1, <1>4, <2>1 DEF Explained
<1>. QED
  BY <1>2, <1>3, <1>4

(* Sending puts nothing on the wire but what the outbox holds, and a retry *)
(* keeps the message it may have sent already.                             *)
LEMMA SendMoves ==
  ASSUME TypeOK, TypeOK', Send
  PROVE  /\ work' = work
         /\ \A i \in DOMAIN queue : i \in DOMAIN queue' /\ queue'[i] = queue[i]
         /\ \A i \in DOMAIN queue' : \/ \E o \in outbox : o.msg = queue'[i]
                                     \/ \E j \in DOMAIN queue : queue[j] = queue'[i]
         /\ \A o2 \in outbox' : \E o \in outbox : o.msg = o2.msg
         /\ \A o \in outbox : \/ \E o2 \in outbox' : o2.msg = o.msg
                              \/ \E i \in DOMAIN queue' : queue'[i] = o.msg
                              \/ PublishOrFail(o) \/ PublishRaises(o) \/ PublishLost(o)
<1>1. PICK o \in outbox : \/ Publish(o) \/ Retry(o)
                          \/ PublishOrFail(o) \/ PublishRaises(o) \/ PublishLost(o)
  BY DEF Send
<1>2. o.msg \in Message /\ o \in Outgoing /\ queue \in Seq(Message)
  BY DEF TypeOK, ExecutorTypeOK, Outgoing
<1>3. queue' \in {queue, Append(queue, o.msg)} /\ work' = work
  BY <1>1 DEF Publish, Retry, PublishOrFail, PublishRaises, PublishLost, MaybeTaken
<1>4. /\ \A i \in DOMAIN queue : i \in DOMAIN queue' /\ queue'[i] = queue[i]
      /\ \A i \in DOMAIN queue' : \/ queue'[i] = o.msg
                                  \/ i \in DOMAIN queue /\ queue[i] = queue'[i]
      /\ queue' = queue \/ (Len(queue) + 1 \in DOMAIN queue' /\ queue'[Len(queue) + 1] = o.msg)
  BY <1>2, <1>3, AppendFacts
<1>5. /\ \A o2 \in outbox' : \E o1 \in outbox : o1.msg = o2.msg
      /\ \A o1 \in outbox : o1 # o => \E o2 \in outbox' : o2.msg = o1.msg
  <2>1. CASE Retry(o)
    <3>1. [o EXCEPT !.attempt = 2].msg = o.msg
      BY <1>2 DEF Outgoing
    <3>2. outbox' = (outbox \ {o}) \cup {[o EXCEPT !.attempt = 2]}
      BY <2>1 DEF Retry
    <3>. QED
      BY <3>1, <3>2
  <2>2. CASE ~Retry(o)
    <3>1. outbox' = outbox \ {o}
      BY <1>1, <2>2 DEF Publish, PublishOrFail, PublishRaises, PublishLost
    <3>. QED
      BY <3>1
  <2>. QED
    BY <2>1, <2>2
<1>6. \/ \E o2 \in outbox' : o2.msg = o.msg
      \/ \E i \in DOMAIN queue' : queue'[i] = o.msg
      \/ PublishOrFail(o) \/ PublishRaises(o) \/ PublishLost(o)
  <2>1. CASE Retry(o)
    <3>1. [o EXCEPT !.attempt = 2].msg = o.msg
      BY <1>2 DEF Outgoing
    <3>2. [o EXCEPT !.attempt = 2] \in outbox'
      BY <2>1 DEF Retry
    <3>. QED
      BY <3>1, <3>2
  <2>2. CASE Publish(o)
    BY <1>2, <2>2, AppendFacts DEF Publish
  <2>. QED
    BY <1>1, <2>1, <2>2
<1>. QED
  BY <1>3, <1>4, <1>5, <1>6

(* A message in flight was in flight before, or was dispatched by this     *)
(* very step.                                                              *)
LEMMA HeldStep ==
  ASSUME TypeOK, TypeOK', [Next]_vars, NEW m \in Held', m \notin Held
  PROVE  \/ \E a \in Anomaly, remedy \in Offered :
              /\ DispatchAutonomous(a, remedy)
              /\ m = [decision |-> NextId, anomaly |-> a, service |-> ServiceOf[a],
                      action |-> remedy, mode |-> "autonomous", target |-> None]
         \/ \E a \in Anomaly : \E row \in Latest(RowsOf(ledger, a, "pending_approval")) :
              /\ Approve(a)!(row)
              /\ m = [decision |-> NextId, anomaly |-> a, service |-> ServiceOf[a],
                      action |-> ledger[row].action, mode |-> "approved", target |-> None]
         \/ \E a \in Anomaly : \E row \in Latest(RowsOf(ledger, a, "executed")) :
              /\ RequestRollback(a)!(row)
              /\ m = [decision |-> NextId, anomaly |-> a, service |-> NoService,
                      action |-> "rollback", mode |-> "absent", target |-> row]
<1> USE DEF At
<1>0. /\ work \in [Pod -> Work] /\ queue \in Seq(Message)
      /\ work' \in [Pod -> Work] /\ queue' \in Seq(Message)
  BY DEF TypeOK, ExecutorTypeOK
<1>1. \/ \E o \in outbox' : o.msg = m
      \/ \E i \in DOMAIN queue' : queue'[i] = m
      \/ \E p \in Pod : work'[p].pc # "idle" /\ work'[p].msg = m
  BY DEF Held
<1>2. /\ \A o \in outbox : o.msg # m
      /\ \A i \in DOMAIN queue : queue[i] # m
      /\ \A p \in Pod : work[p].pc # "idle" => work[p].msg # m
  BY DEF Held
<1>3. CASE ExecutorNext /\ UNCHANGED <<inbox, outbox, clicks>>
  <2>1. ASSUME NEW p \in Pod, Deliver(p) PROVE FALSE
    <3>1. \A i \in DOMAIN queue' : queue'[i] = queue[i + 1] /\ i + 1 \in DOMAIN queue
      BY <1>0, <2>1 DEF Deliver
    <3>2. Head(queue) = queue[1] /\ 1 \in DOMAIN queue
      BY <1>0, <2>1 DEF Deliver
    <3>. QED
      BY <1>0, <1>1, <1>2, <1>3, <2>1, <3>1, <3>2 DEF Deliver
  <2>2. ASSUME NEW p \in Pod, Handle(p) \/ Raise(p) PROVE FALSE
    <3>1. queue' = queue /\ \A q \in Pod : work'[q].pc # "idle" =>
                              work[q].pc # "idle" /\ work'[q].msg = work[q].msg
      BY <1>0, <2>2 DEF Handle, Gate, AdmitRollback, AdmitRemedy, ReadDeployment, ReadAutoscaler,
         ApplyPatch, Record, Ack, Raise, CutOff, Conclude, Step, NoWork
    <3>. QED
      BY <1>1, <1>2, <1>3, <3>1
  <2>3. ASSUME NEW p \in Pod, Redeliver(p) PROVE FALSE
    <3>1. work[p].msg \in Message
      BY <1>0, <2>3, BusyType DEF Redeliver, Busy
    <3>2. \A i \in DOMAIN queue' : queue'[i] = work[p].msg \/ \E j \in DOMAIN queue : queue'[i] = queue[j]
      BY <1>0, <2>3, <3>1 DEF Redeliver
    <3>. QED
      BY <1>0, <1>1, <1>2, <1>3, <2>3, <3>2 DEF Redeliver, CutOff, NoWork
  <2>4. ASSUME NEW s \in Service, OperatorEdit(s) \/ Autoscale(s) PROVE FALSE
    BY <1>1, <1>2, <1>3, <2>4 DEF OperatorEdit, Autoscale
  <2>. QED
    BY <1>1, <1>2, <1>3, <2>1, <2>2, <2>3, <2>4 DEF ExecutorNext, Tick
<1>4. CASE Decide
  BY <1>1, <1>2, <1>4 DEF Decide, Withhold, DispatchAutonomous, AwaitApproval, RedeliverAnomaly
<1>5. CASE Operate
  BY <1>1, <1>2, <1>5 DEF Operate, Approve, RequestRollback
<1>6. CASE Send
  BY <1>1, <1>2, <1>6, SendMoves
<1>7. CASE UNCHANGED vars
  BY <1>1, <1>2, <1>7 DEF vars
<1>. QED
  BY <1>3, <1>4, <1>5, <1>6, <1>7 DEF Next

(* The rows a step may append: one per writer of the ledger.               *)
Written(r) ==
  \/ \E a \in Anomaly, remedy \in Remedy :
       \/ r = DecisionRow(a, None, None, remedy, "autonomous", "dispatched", ServiceOf[a])
       \/ r = DecisionRow(a, None, None, remedy, "approved", "pending_approval", ServiceOf[a])
  \/ \E a \in Anomaly, action \in Remedy \cup {"alert_only"}, result \in Withheld :
       /\ result = "alert_only_low_confidence" => action \in Remedy
       /\ result = "alert_only_no_action_taken" => action = "alert_only"
       /\ r = DecisionRow(a, None, None, action, "autonomous", result, ServiceOf[a])
  \/ \E a \in Anomaly : \E row \in RowsOf(ledger, a, "pending_approval") :
       r = DecisionRow(a, row, None, ledger[row].action, "approved", "dispatched", ServiceOf[a])
  \/ \E a \in Anomaly : \E row \in RowsOf(ledger, a, "executed") :
       r = DecisionRow(a, row, row, "rollback", "approved", "dispatched", ledger[row].service)
  \/ \E o \in outbox :
       r = DecisionRow(o.msg.anomaly, o.msg.decision, None, o.msg.action, "approved",
                       "dispatch_failed", ledger[o.msg.decision].service)
  \/ \E p \in Pod : At(p, "record") /\ r = OutcomeRow(work[p])

LEMMA LedgerWrites ==
  ASSUME TypeOK, TypeOK', [Next]_vars
  PROVE  ledger' = ledger \/ \E r \in Row : ledger' = Append(ledger, r) /\ Written(r)
<1>. SUFFICES ledger' = ledger \/ \E r : ledger' = Append(ledger, r) /\ Written(r)
  BY AppendedType DEF TypeOK, ExecutorTypeOK
<1>1. CASE ExecutorNext
  BY <1>1 DEF ExecutorNext, Handle, Deliver, Gate, ReadDeployment, ReadAutoscaler, ApplyPatch,
     Record, Ack, Redeliver, Raise, OperatorEdit, Autoscale, Tick, Written
<1>2. CASE Decide
  <2>1. ASSUME NEW a \in Anomaly, NEW action \in Offered, Withhold(a, action)
        PROVE  \E r : ledger' = Append(ledger, r) /\ Written(r)
    <3> DEFINE result == IF ServiceOf[a] \in Guarded THEN "blocked_by_protected_floor"
                         ELSE IF action \in Remedy THEN "alert_only_low_confidence"
                         ELSE "alert_only_no_action_taken"
               r == DecisionRow(a, None, None, action, "autonomous", result, ServiceOf[a])
    <3>1. ledger' = Append(ledger, r)
      BY <2>1 DEF Withhold
    <3>2. /\ action \in Remedy \cup {"alert_only"} /\ result \in Withheld
          /\ result = "alert_only_low_confidence" => action \in Remedy
          /\ result = "alert_only_no_action_taken" => action = "alert_only"
      BY RemediationAssumption DEF Withheld
    <3>3. Written(r)
      <4>. HIDE DEF result
      <4>. QED
        BY <3>2 DEF Written
    <3>. QED
      BY <3>1, <3>3
  <2>. QED
    BY <1>2, <2>1 DEF Decide, DispatchAutonomous, AwaitApproval, Actionable, RedeliverAnomaly, Written
<1>3. CASE Operate
  BY <1>3 DEF Operate, Approve, RequestRollback, Latest, Written
<1>4. CASE Send
  BY <1>4 DEF Send, Publish, Retry, PublishOrFail, PublishRaises, PublishLost, Written
<1>5. CASE UNCHANGED vars
  BY <1>5 DEF vars
<1>. QED
  BY <1>1, <1>2, <1>3, <1>4, <1>5 DEF Next

(* A message that has just been dispatched is justified by its own row.    *)
LEMMA HeldInvStep ==
  ASSUME TypeOK, TypeOK', HeldInv, [Next]_vars
  PROVE  HeldInv'
<1>. SUFFICES ASSUME NEW m \in Held' PROVE Justified(ledger', m)
  BY DEF HeldInv
<1>. DEFINE n == Len(ledger) + 1
<1>0. ASSUME NEW r, ledger' = Append(ledger, r)
      PROVE  n \in DOMAIN ledger' /\ ledger'[n] = r /\ NextId = n
  BY <1>0 DEF TypeOK, ExecutorTypeOK, NextId
<1>1. CASE m \in Held
  BY <1>1, JustifiedStays DEF HeldInv
<1>2. ASSUME NEW a \in Anomaly, NEW remedy \in Offered, DispatchAutonomous(a, remedy),
             m = [decision |-> NextId, anomaly |-> a, service |-> ServiceOf[a],
                  action |-> remedy, mode |-> "autonomous", target |-> None]
      PROVE  Justified(ledger', m)
  <2>1. remedy # "rollback"
    BY <1>2 DEF DispatchAutonomous, Actionable, Remedy
  <2>. QED
    BY <1>0, <1>2, <2>1 DEF DispatchAutonomous, Justified, DecisionRow, IsRollback
<1>3. ASSUME NEW a \in Anomaly, NEW row \in Latest(RowsOf(ledger, a, "pending_approval")),
             Approve(a)!(row),
             m = [decision |-> NextId, anomaly |-> a, service |-> ServiceOf[a],
                  action |-> ledger[row].action, mode |-> "approved", target |-> None]
      PROVE  Justified(ledger', m)
  <2>1. row \in DOMAIN ledger /\ ledger[row].result = "pending_approval"
    BY DEF Latest, RowsOf
  <2>2. ledger[row].action # "rollback"
    BY <2>1, RowType DEF Row, Remedy
  <2>. QED
    BY <1>0, <1>3, <2>2 DEF Justified, DecisionRow, IsRollback
<1>4. ASSUME NEW a \in Anomaly, NEW row \in Latest(RowsOf(ledger, a, "executed")),
             RequestRollback(a)!(row),
             m = [decision |-> NextId, anomaly |-> a, service |-> NoService,
                  action |-> "rollback", mode |-> "absent", target |-> row]
      PROVE  Justified(ledger', m)
  <2>1. row \in DOMAIN ledger /\ ledger[row].result = "executed" /\ ledger[row].anomaly = a
    BY DEF Latest, RowsOf
  <2>2. Reversible(ledger', row, a)
    BY <2>1, LedgerGrows DEF Reversible
  <2>. QED
    BY <1>0, <1>4, <2>2 DEF Justified, DecisionRow, IsRollback
<1>. QED
  BY <1>1, <1>2, <1>3, <1>4, HeldStep

(* Authority only flows forward: a dispatch rests on rows above it.        *)
LEMMA LedgerInvStep ==
  ASSUME TypeOK, TypeOK', HeldInv, LedgerInv, PodInv, [Next]_vars
  PROVE  LedgerInv'
<1>1. CASE ledger' = ledger
  BY <1>1 DEF LedgerInv, Authorised, Reversible
<1>2. ASSUME NEW r \in Row, ledger' = Append(ledger, r), Written(r)
      PROVE  LedgerInv'
  <2>0. /\ DOMAIN ledger' = DOMAIN ledger \cup {Len(ledger) + 1}
        /\ ledger'[Len(ledger) + 1] = r
        /\ \A i \in DOMAIN ledger : i \in Nat \ {0} /\ ledger'[i] = ledger[i]
    BY <1>2 DEF TypeOK, ExecutorTypeOK
  <2>1. ASSUME r.result = "dispatched" PROVE Authorised(ledger', Len(ledger) + 1)
    <3>1. ASSUME NEW a \in Anomaly, NEW remedy \in Remedy,
                 \/ r = DecisionRow(a, None, None, remedy, "autonomous", "dispatched", ServiceOf[a])
                 \/ r = DecisionRow(a, None, None, remedy, "approved", "pending_approval", ServiceOf[a])
          PROVE  Authorised(ledger', Len(ledger) + 1)
      BY <2>0, <2>1, <3>1 DEF Authorised, DecisionRow, Remedy
    <3>2. ASSUME NEW a \in Anomaly, NEW row \in RowsOf(ledger, a, "pending_approval"),
                 r = DecisionRow(a, row, None, ledger[row].action, "approved", "dispatched", ServiceOf[a])
          PROVE  Authorised(ledger', Len(ledger) + 1)
      <4>1. ledger[row].action \in Remedy /\ row \in DOMAIN ledger
        BY DEF RowsOf, TypeOK, ExecutorTypeOK, Row
      <4>. QED
        BY <2>0, <3>2, <4>1 DEF Authorised, DecisionRow, RowsOf, Remedy, None
    <3>3. ASSUME NEW a \in Anomaly, NEW row \in RowsOf(ledger, a, "executed"),
                 r = DecisionRow(a, row, row, "rollback", "approved", "dispatched", ledger[row].service)
          PROVE  Authorised(ledger', Len(ledger) + 1)
      BY <2>0, <3>3 DEF Authorised, Reversible, DecisionRow, RowsOf, None
    <3>4. ASSUME NEW o \in outbox,
                 r = DecisionRow(o.msg.anomaly, o.msg.decision, None, o.msg.action, "approved",
                                 "dispatch_failed", ledger[o.msg.decision].service)
          PROVE  FALSE
      BY <2>1, <3>4 DEF DecisionRow
    <3>5. ASSUME NEW p \in Pod, At(p, "record"), r = OutcomeRow(work[p])
          PROVE  FALSE
      <4>1. work[p].result \in Outcome
        BY <3>5, BusyType DEF At, TypeOK, ExecutorTypeOK, Busy
      <4>. QED
        BY <2>1, <3>5, <4>1 DEF OutcomeRow, Outcome
    <3>6. ASSUME NEW a \in Anomaly, NEW action, NEW result \in Withheld,
                 r = DecisionRow(a, None, None, action, "autonomous", result, ServiceOf[a])
          PROVE  FALSE
      BY <2>1, <3>6 DEF DecisionRow, Withheld
    <3>. QED
      BY <1>2, <3>1, <3>2, <3>3, <3>4, <3>5, <3>6 DEF Written
  <2>2. ASSUME r.result = "executed" PROVE Restorable(r)
    <3>1. PICK p \in Pod : At(p, "record") /\ r = OutcomeRow(work[p])
      BY <1>2, <2>2 DEF Written, DecisionRow, Withheld
    <3>2. work[p].prior \in Snapshot /\ work[p].prior.service = work[p].msg.service
      BY <2>2, <3>1 DEF PodInv, Consistent, OutcomeRow
    <3>. QED
      BY <2>2, <3>1, <3>2 DEF Restorable, OutcomeRow
  <2>3. ASSUME NEW i \in DOMAIN ledger
        PROVE  /\ ledger'[i].result = "dispatched" => Authorised(ledger', i)
               /\ ledger'[i].result = "executed" => Restorable(ledger'[i])
    BY <2>0, JustifiedStays DEF LedgerInv
  <2>. QED
    BY <2>0, <2>1, <2>2, <2>3 DEF LedgerInv
<1>. QED
  BY <1>1, <1>2, LedgerWrites

LEMMA PodMessage ==
  ASSUME TypeOK, HeldInv, NEW p \in Pod, ~At(p, "idle")
  PROVE  work[p] \in Busy /\ work[p].msg \in Message /\ Justified(ledger, work[p].msg)
<1>1. work[p] \in Busy /\ work[p].msg \in Message
  BY BusyType DEF TypeOK, ExecutorTypeOK, Busy
<1>. QED
  BY <1>1 DEF HeldInv, Held

LEMMA Elsewhere ==
  ASSUME TypeOK, NEW p \in Pod, Deliver(p) \/ Handle(p) \/ Redeliver(p) \/ Raise(p)
  PROVE  \A q \in Pod : q # p => work'[q] = work[q]
BY DEF TypeOK, ExecutorTypeOK, Deliver, Handle, Gate, AdmitRollback, AdmitRemedy, ReadDeployment,
   ReadAutoscaler, ApplyPatch, Record, Ack, Redeliver, Raise, CutOff, Conclude, Step

(* A pod that a step leaves alone stays consistent: its target row stays.  *)
LEMMA ConsistentStays ==
  ASSUME TypeOK, TypeOK', HeldInv, PodInv, [Next]_vars, NEW p \in Pod, work'[p] = work[p]
  PROVE  Consistent(p)'
<1>1. ASSUME ~At(p, "idle"), IsRollback(work[p].msg)
      PROVE  ledger'[work[p].msg.target] = ledger[work[p].msg.target]
  BY <1>1, PodMessage, LedgerGrows DEF Justified, Reversible
<1>. QED
  BY <1>1 DEF PodInv, Consistent, At

LEMMA ConsistentStep ==
  ASSUME TypeOK, TypeOK', HeldInv, LedgerInv, PodInv,
         NEW p \in Pod, Deliver(p) \/ Handle(p) \/ Redeliver(p) \/ Raise(p)
  PROVE  Consistent(p)'
<1> USE DEF At
<1>0. work \in [Pod -> Work]
  BY DEF TypeOK, ExecutorTypeOK
<1>1. CASE Deliver(p)
  BY <1>0, <1>1 DEF Deliver, Consistent
<1>2. CASE Gate(p)
  <2> DEFINE m == work[p].msg
  <2>1. CASE IsRollback(m)
    <3>1. Restorable(ledger[m.target])
      BY <1>2, <2>1, PodMessage DEF Gate, Justified, Reversible, LedgerInv
    <3>2. AdmitRollback(p) /\ ledger' = ledger /\ work'[p].msg = m
      BY <1>0, <1>2, <2>1 DEF Gate, AdmitRollback, Conclude, Step
    <3>. QED
      BY <1>0, <2>1, <3>1, <3>2
         DEF AdmitRollback, Conclude, Step, Consistent, RollbackOutcome, Restorable
  <2>2. CASE ~IsRollback(m)
    BY <1>0, <1>2, <2>2 DEF Gate, AdmitRemedy, Conclude, Step, Consistent, RemedyOutcome
  <2>. QED
    BY <2>1, <2>2
<1>3. CASE ReadDeployment(p) \/ ReadAutoscaler(p)
  <2> DEFINE s == work[p].msg.service
  <2>1. ~IsRollback(work[p].msg) /\ work[p].msg \in Message
    BY <1>3, PodMessage DEF ReadDeployment, ReadAutoscaler, IsRollback
  <2>2. s \in Service /\ cluster[s] \in Workload
    BY <2>1 DEF IsRollback, Message, RemedyMessage, RollbackMessage, TypeOK, ExecutorTypeOK
  <2>3. /\ [kind |-> "cpu", service |-> s, value |-> cluster[s].cpu] \in Snapshot
        /\ [kind |-> "max", service |-> s, value |-> cluster[s].max] \in Snapshot
    BY <2>2 DEF Workload, Snapshot
  <2>. QED
    BY <1>0, <1>3, <2>1, <2>3
       DEF ReadDeployment, ReadAutoscaler, Conclude, Step, Consistent, RemedyOutcome
<1>4. CASE ApplyPatch(p)
  BY <1>0, <1>4 DEF ApplyPatch, Step, PodInv, Consistent, RollbackOutcome, RemedyOutcome
<1>5. CASE Record(p) \/ Ack(p) \/ Redeliver(p) \/ Raise(p)
  BY <1>0, <1>5 DEF Record, Ack, Redeliver, Raise, CutOff, Step, Consistent, NoWork
<1>. QED
  BY <1>1, <1>2, <1>3, <1>4, <1>5 DEF Handle

LEMMA PodInvStep ==
  ASSUME TypeOK, TypeOK', HeldInv, LedgerInv, PodInv, [Next]_vars
  PROVE  PodInv'
<1>1. ASSUME NEW p \in Pod, Deliver(p) \/ Handle(p) \/ Redeliver(p) \/ Raise(p)
      PROVE  PodInv'
  BY <1>1, Elsewhere, ConsistentStays, ConsistentStep DEF PodInv
<1>2. ASSUME work' = work PROVE PodInv'
  BY <1>2, ConsistentStays DEF PodInv
<1>. QED
  BY <1>1, <1>2 DEF Next, ExecutorNext, OperatorEdit, Autoscale, Tick, Decide, Withhold,
     DispatchAutonomous, AwaitApproval, RedeliverAnomaly, Operate, Approve, RequestRollback,
     Send, Publish, Retry, PublishOrFail, PublishRaises, PublishLost, vars

(* Only ApplyPatch writes to the cluster on the program's behalf.          *)
LEMMA PatchesStep ==
  ASSUME [Next]_vars
  PROVE  patches' = patches \/ \E p \in Pod : ApplyPatch(p)
BY DEF Next, ExecutorNext, Handle, Deliver, Gate, ReadDeployment, ReadAutoscaler, Record, Ack,
   Redeliver, Raise, OperatorEdit, Autoscale, Tick, Decide, Withhold, DispatchAutonomous,
   AwaitApproval, RedeliverAnomaly, Operate, Approve, RequestRollback, Send, Publish, Retry,
   PublishOrFail, PublishRaises, PublishLost, vars

LEMMA PatchInvStep ==
  ASSUME TypeOK, TypeOK', HeldInv, LedgerInv, PodInv, PatchInv, [Next]_vars
  PROVE  PatchInv'
<1>1. CASE patches' = patches
  BY <1>1, JustifiedStays DEF PatchInv, TypeOK, ExecutorTypeOK
<1>2. ASSUME NEW p \in Pod, ApplyPatch(p) PROVE PatchInv'
  <2> DEFINE d == work[p]
             q == [decision |-> d.msg.decision, service |-> d.prior.service, kind |-> d.prior.kind,
                   before |-> Field(cluster[d.prior.service], d.prior.kind), after |-> d.apply,
                   undo |-> IsRollback(d.msg), at |-> now]
  <2>1. patches' = Append(patches, q) /\ ledger' = ledger /\ patches \in Seq(Patch)
    BY <1>2 DEF ApplyPatch, TypeOK, ExecutorTypeOK
  <2>2. Justified(ledger, d.msg) /\ Consistent(p) /\ At(p, "patch")
    BY <1>2, PodMessage DEF ApplyPatch, At, PodInv
  <2>3. IsRollback(d.msg) => Restorable(ledger[d.msg.target])
    BY <2>2 DEF Justified, Reversible, LedgerInv
  <2>4. Explained(ledger, q)
    <3>. DEFINE r == ledger[d.msg.decision]
    <3>1. CASE IsRollback(d.msg)
      <4>1. /\ r.ref = d.msg.target /\ r.action = "rollback"
            /\ d.prior = ledger[r.ref].prior /\ d.apply = d.prior.value
            /\ Restorable(ledger[r.ref])
        BY <2>2, <2>3, <3>1 DEF Justified, Consistent, IsRollback
      <4>2. ledger[r.ref].service = d.prior.service /\ ledger[r.ref].prior.value = d.apply
        BY <4>1 DEF Restorable
      <4>. QED
        BY <2>2, <3>1, <4>1, <4>2 DEF Explained, Justified
    <3>2. CASE ~IsRollback(d.msg)
      BY <2>2, <3>2 DEF Explained, Justified, IsRollback
    <3>. QED
      BY <3>1, <3>2
  <2>5. q \in Patch
    BY <2>1, AppendedType DEF TypeOK, ExecutorTypeOK
  <2>6. \A i \in DOMAIN patches' : patches'[i] = q \/ \E j \in DOMAIN patches : patches'[i] = patches[j]
    BY <2>1, <2>5
  <2>. QED
    BY <2>1, <2>4, <2>6 DEF PatchInv
<1>. QED
  BY <1>1, <1>2, PatchesStep

LEMMA ProvenanceHolds == Spec => [](TypeOK /\ OutgoingIsRecorded /\ ProvenanceInv)
<1>1. Init => ProvenanceInv
  BY DEF Init, ExecutorInit, ProvenanceInv, HeldInv, LedgerInv, PodInv, PatchInv, Held,
     Consistent, At, NoWork
<1>2. TypeOK /\ TypeOK' /\ ProvenanceInv /\ [Next]_vars => ProvenanceInv'
  BY HeldInvStep, LedgerInvStep, PodInvStep, PatchInvStep DEF ProvenanceInv
<1>. QED
  BY TypeCorrect, <1>1, <1>2, PTL DEF Spec

(* Human in the loop, for every fault and any number of pods: every remedy *)
(* on the cluster rests on autonomous authority or on an approval of a     *)
(* pending row for the same remedy on the same anomaly.                    *)
THEOREM ApprovalHolds == Spec => []ApprovedBeforePatch
<1>1. TypeOK /\ ProvenanceInv => ApprovedBeforePatch
  BY DEF ProvenanceInv, PatchInv, Explained, LedgerInv, Authorised, ApprovedBeforePatch, Remedies
<1>. QED
  BY ProvenanceHolds, <1>1, PTL

(* Every reversal on the cluster writes back the prior value of an         *)
(* executed row of its own anomaly, to the service that row acted on.      *)
THEOREM UndoHolds == Spec => []UndoRestoresPrior
<1>1. TypeOK /\ ProvenanceInv => UndoRestoresPrior
  BY DEF ProvenanceInv, PatchInv, Explained, LedgerInv, Authorised, Reversible, UndoRestoresPrior
<1>. QED
  BY ProvenanceHolds, <1>1, PTL

----------------------------------------------------------------------------
(* The audit trail                                                         *)

TrailOf(log) == [i \in DOMAIN log |-> Readable(log[i])]

(* Appending a row to the ledger appends its readable part to the trail.   *)
LEMMA TrailAppend ==
  ASSUME NEW log \in Seq(Row), NEW r \in Row
  PROVE  TrailOf(Append(log, r)) = Append(TrailOf(log), Readable(r))
<1> DEFINE E == {Readable(x) : x \in Row}
           n == Len(log)
<1>1. /\ n \in Nat /\ DOMAIN log = 1 .. n
      /\ Append(log, r) \in Seq(Row) /\ DOMAIN Append(log, r) = 1 .. (n + 1)
      /\ \A i \in 1 .. n : Append(log, r)[i] = log[i]
      /\ Append(log, r)[n + 1] = r
  BY AppendFacts
<1>2. TrailOf(log) \in Seq(E) /\ Len(TrailOf(log)) = n
  <2>1. TrailOf(log) \in [1 .. n -> E]
    BY <1>1 DEF TrailOf
  <2>. QED
    BY <1>1, <2>1
<1>3. Readable(r) \in E
  OBVIOUS
<1>4. /\ DOMAIN Append(TrailOf(log), Readable(r)) = 1 .. (n + 1)
      /\ Append(TrailOf(log), Readable(r)) \in Seq(E)
      /\ \A i \in 1 .. n : Append(TrailOf(log), Readable(r))[i] = TrailOf(log)[i]
      /\ Append(TrailOf(log), Readable(r))[n + 1] = Readable(r)
  <2>. HIDE DEF E, n
  <2>. QED
    BY <1>2, <1>3, AppendFacts DEF n
<1>5. \A i \in 1 .. (n + 1) :
        TrailOf(Append(log, r))[i] = Append(TrailOf(log), Readable(r))[i]
  <2>1. \A i \in 1 .. n : TrailOf(Append(log, r))[i] = TrailOf(log)[i]
    BY <1>1 DEF TrailOf
  <2>2. TrailOf(Append(log, r))[n + 1] = Readable(r)
    BY <1>1 DEF TrailOf
  <2>. QED
    BY <1>1, <1>4, <2>1, <2>2
<1>6. DOMAIN TrailOf(Append(log, r)) = 1 .. (n + 1)
  BY <1>1 DEF TrailOf
<1>7. /\ TrailOf(Append(log, r)) = [i \in 1 .. (n + 1) |-> TrailOf(Append(log, r))[i]]
      /\ Append(TrailOf(log), Readable(r))
           = [i \in 1 .. (n + 1) |-> Append(TrailOf(log), Readable(r))[i]]
  BY <1>4, <1>6 DEF TrailOf
<1>. QED
  BY <1>5, <1>7

LEMMA LongerTrail ==
  ASSUME TypeOK, NEW r \in Row, ledger' = Append(ledger, r)
  PROVE  [i \in DOMAIN ledger' |-> Readable(ledger'[i])] # [i \in DOMAIN ledger |-> Readable(ledger[i])]
<1>1. ledger \in Seq(Row)
  BY DEF TypeOK, ExecutorTypeOK
<1>2. Len(ledger) + 1 \in DOMAIN ledger' /\ Len(ledger) + 1 \notin DOMAIN ledger
  BY <1>1
<1>. QED
  BY <1>2

(* Every row a step writes is one the audit trail allows.                  *)
LEMMA TrailStep ==
  ASSUME TypeOK, TypeOK', OutgoingIsRecorded, ProvenanceInv,
         NEW r \in Row, ledger' = Append(ledger, r), Written(r)
  PROVE  Trail!TrailNext
<1> DEFINE t == TrailOf(ledger)
<1>0. TrailOf(ledger') = Append(t, Readable(r))
  BY TrailAppend DEF TypeOK, ExecutorTypeOK
<1>1. DOMAIN t = DOMAIN ledger /\ \A i \in DOMAIN ledger : t[i] = Readable(ledger[i])
  BY DEF TrailOf
<1>2. ASSUME NEW a, NEW parent, NEW ref, NEW action, NEW result,
             Readable(r) = Trail!Entry(a, parent, ref, action, result)
      PROVE  Trail!Write(a, parent, ref, action, result)
  BY <1>0, <1>2 DEF Trail!Write, TrailOf
<1>9. [i \in DOMAIN ledger' |-> Readable(ledger'[i])] # [i \in DOMAIN ledger |-> Readable(ledger[i])]
  BY LongerTrail
<1>3. \A i \in DOMAIN ledger : \A result : ledger[i].result = result => i \in Trail!Having(result)
  BY <1>1 DEF Trail!Having, TrailOf, Readable
<1>4. ASSUME NEW a \in Anomaly, NEW remedy \in Remedy,
             \/ r = DecisionRow(a, None, None, remedy, "autonomous", "dispatched", ServiceOf[a])
             \/ r = DecisionRow(a, None, None, remedy, "approved", "pending_approval", ServiceOf[a])
      PROVE  Trail!TrailNext
  <2>1. \E result \in {"dispatched", "pending_approval"} :
          Readable(r) = Trail!Entry(a, None, None, remedy, result)
    BY <1>4 DEF Readable, DecisionRow, Trail!Entry
  <2>2. Trail!Decide(a, remedy)
    BY <1>2, <2>1 DEF Trail!Decide, None, Trail!None
  <2>. QED
    BY <1>9, <2>2 DEF Trail!TrailNext
<1>5. ASSUME NEW a \in Anomaly, NEW row \in RowsOf(ledger, a, "pending_approval"),
             r = DecisionRow(a, row, None, ledger[row].action, "approved", "dispatched", ServiceOf[a])
      PROVE  Trail!TrailNext
  <2>1. row \in DOMAIN ledger /\ ledger[row].result = "pending_approval" /\ ledger[row].anomaly = a
    BY DEF RowsOf
  <2>2. Readable(r) = Trail!Entry(t[row].anomaly, row, None, t[row].action, "dispatched")
    BY <1>9, <1>1, <1>5, <2>1 DEF Readable, DecisionRow, Trail!Entry
  <2>3. Trail!Approve(row)
    BY <1>2, <1>3, <2>1, <2>2 DEF Trail!Approve, TrailOf, None, Trail!None
  <2>. QED
    BY <1>1, <2>1, <2>3 DEF Trail!TrailNext, TrailOf
<1>6. ASSUME NEW a \in Anomaly, NEW row \in RowsOf(ledger, a, "executed"),
             r = DecisionRow(a, row, row, "rollback", "approved", "dispatched", ledger[row].service)
      PROVE  Trail!TrailNext
  <2>1. row \in DOMAIN ledger /\ ledger[row].result = "executed" /\ ledger[row].anomaly = a
    BY DEF RowsOf
  <2>2. Readable(r) = Trail!Entry(t[row].anomaly, row, row, "rollback", "dispatched")
    BY <1>9, <1>1, <1>6, <2>1 DEF Readable, DecisionRow, Trail!Entry
  <2>3. Trail!AskReversal(row)
    BY <1>2, <1>3, <2>1, <2>2 DEF Trail!AskReversal, TrailOf
  <2>. QED
    BY <1>1, <2>1, <2>3 DEF Trail!TrailNext, TrailOf
<1>7. ASSUME NEW o \in outbox,
             r = DecisionRow(o.msg.anomaly, o.msg.decision, None, o.msg.action, "approved",
                             "dispatch_failed", ledger[o.msg.decision].service)
      PROVE  Trail!TrailNext
  <2> DEFINE d == o.msg.decision
  <2>1. Justified(ledger, o.msg)
    BY DEF ProvenanceInv, HeldInv, Held
  <2>2. Readable(r) = Trail!Entry(t[d].anomaly, d, None, t[d].action, "dispatch_failed")
    BY <1>9, <1>9, <1>1, <1>7, <2>1 DEF Readable, DecisionRow, Trail!Entry, Justified
  <2>3. Trail!DispatchFailed(d)
    BY <1>2, <1>3, <2>1, <2>2 DEF Trail!DispatchFailed, TrailOf, None, Trail!None, Justified
  <2>. QED
    BY <1>1, <2>1, <2>3 DEF Trail!TrailNext, TrailOf, Justified
<1>8. ASSUME NEW p \in Pod, At(p, "record"), r = OutcomeRow(work[p])
      PROVE  Trail!TrailNext
  <2> DEFINE m == work[p].msg
             d == m.decision
             result == work[p].result
  <2>1. Justified(ledger, m) /\ Consistent(p)
    BY <1>8, PodMessage DEF At, ProvenanceInv, PodInv
  <2>2. /\ d \in DOMAIN ledger /\ d \in Trail!Having("dispatched")
        /\ t[d].anomaly = m.anomaly /\ t[d].action = m.action
        /\ IsRollback(m) => t[d].ref = m.target
    BY <1>1, <1>3, <2>1 DEF Justified, Readable
  <2>3. CASE IsRollback(m) /\ result \in {"rolled_back", "rollback_window_expired"}
    <3>1. Readable(r) = Trail!Entry(t[d].anomaly, d, t[d].ref, "rollback", result)
      BY <1>8, <2>2, <2>3 DEF Readable, OutcomeRow, Trail!Entry, IsRollback
    <3>2. Trail!Outcome(d)
      BY <1>2, <2>2, <2>3, <3>1 DEF Trail!Outcome, TrailOf, IsRollback
    <3>. QED
      BY <1>1, <2>2, <3>2 DEF Trail!TrailNext, TrailOf
  <2>4. CASE IsRollback(m) /\ result = "rollback_failed_no_reference"
    <3>1. Readable(r) = Trail!Entry(t[d].anomaly, d, None, "rollback", "rollback_failed_no_reference")
      BY <1>9, <1>8, <2>2, <2>4 DEF Readable, OutcomeRow, Trail!Entry, IsRollback
    <3>2. Trail!Outcome(d)
      BY <1>2, <2>2, <2>4, <3>1 DEF Trail!Outcome, TrailOf, IsRollback, None, Trail!None
    <3>. QED
      BY <1>1, <2>2, <3>2 DEF Trail!TrailNext, TrailOf
  <2>5. CASE ~IsRollback(m)
    <3>1. result \in RemedyOutcome /\ m.action # "rollback"
      BY <1>9, <1>8, <2>1, <2>5 DEF Consistent, IsRollback
    <3>2. Readable(r) = Trail!Entry(t[d].anomaly, d, None, t[d].action, result)
      BY <1>8, <2>2, <3>1 DEF Readable, OutcomeRow, Trail!Entry, RemedyOutcome
    <3>3. Trail!Outcome(d)
      BY <1>2, <2>2, <3>1, <3>2
         DEF Trail!Outcome, TrailOf, None, Trail!None, RemedyOutcome, Trail!RemedyOutcome
    <3>. QED
      BY <1>1, <2>2, <3>3 DEF Trail!TrailNext, TrailOf
  <2>. QED
    BY <1>8, <2>1, <2>3, <2>4, <2>5 DEF Consistent, RollbackOutcome
<1>10. ASSUME NEW a \in Anomaly, NEW action \in Remedy \cup {"alert_only"}, NEW result \in Withheld,
              result = "alert_only_low_confidence" => action \in Remedy,
              result = "alert_only_no_action_taken" => action = "alert_only",
              r = DecisionRow(a, None, None, action, "autonomous", result, ServiceOf[a])
       PROVE  Trail!TrailNext
  <2>1. Readable(r) = Trail!Entry(a, None, None, action, result)
    BY <1>10 DEF Readable, DecisionRow, Trail!Entry
  <2>2. Trail!Withhold(a, action)
    BY <1>2, <1>10, <2>1 DEF Trail!Withhold, None, Trail!None, Withheld, Remedy
  <2>. QED
    BY <1>9, <2>2 DEF Trail!TrailNext
<1>. QED
  BY <1>4, <1>5, <1>6, <1>7, <1>8, <1>10 DEF Written

(* The ledger is an audit trail, whatever the three services that write it *)
(* do between each other's steps, and whatever fails.                      *)
THEOREM AuditTrailKept == Spec => IsAuditTrail
<1> DEFINE trail == [i \in DOMAIN ledger |-> Readable(ledger[i])]
<1>1. Init => Trail!TrailInit
  <2>1. Init => ledger = << >> /\ DOMAIN ledger = {}
    BY DEF Init
  <2>. QED
    BY <2>1 DEF Trail!TrailInit
<1>2. /\ TypeOK /\ TypeOK' /\ OutgoingIsRecorded /\ ProvenanceInv /\ [Next]_vars
      => [Trail!TrailNext]_trail
  <2>1. TypeOK /\ TypeOK' /\ ledger' = ledger => trail' = trail
    OBVIOUS
  <2>. QED
    BY <2>1, LedgerWrites, TrailStep
<1>. QED
  BY ProvenanceHolds, <1>1, <1>2, PTL DEF Spec, IsAuditTrail, Trail!TrailSpec

----------------------------------------------------------------------------
(* Nothing dispatched is forgotten                                         *)

(* Four faults take a message and leave no row: a call that raises in the  *)
(* executor, a write the broker never got, and decision-policy's publish   *)
(* failing or dying with the process.  Without them, through copies,       *)
(* redeliveries and api-bff's failed publishes, no dispatch is forgotten.  *)
NothingLost ==
  FaultKind \cap {"error", "lost", "policy_publish_error", "anomaly_redelivery"} = {}

AckAnswers == \A p \in Pod : At(p, "ack") => Answered(ledger, work[p].msg.decision)

InFlight(i) == \E m \in Held : m.decision = i

LEMMA InFlightMeans ==
  ASSUME NEW i
  PROVE  InFlight(i) <=> HoldsDecision(i) \/ \E o \in outbox : o.msg.decision = i
BY DEF InFlight, Held, HoldsDecision

LEMMA AnsweredStays ==
  ASSUME TypeOK, TypeOK', [Next]_vars, NEW i, Answered(ledger, i)
  PROVE  Answered(ledger', i)
BY LedgerGrows DEF Answered

LEMMA AppendAnswers ==
  ASSUME TypeOK, NEW r, ledger' = Append(ledger, r)
  PROVE  Answered(ledger', r.parent)
<1>1. Len(ledger) + 1 \in DOMAIN ledger' /\ ledger'[Len(ledger) + 1] = r
  BY DEF TypeOK, ExecutorTypeOK
<1>. QED
  BY <1>1 DEF Answered

LEMMA AckAnswersStep ==
  ASSUME TypeOK, TypeOK', AckAnswers, [Next]_vars
  PROVE  AckAnswers'
<1> USE DEF At
<1>0. work \in [Pod -> Work]
  BY DEF TypeOK, ExecutorTypeOK
<1>1. ASSUME NEW p \in Pod, work'[p] = work[p], At(p, "ack")'
      PROVE  Answered(ledger', work'[p].msg.decision)
  BY <1>1, AnsweredStays DEF AckAnswers
<1>2. ASSUME NEW p \in Pod, Deliver(p) \/ Handle(p) \/ Redeliver(p) \/ Raise(p), At(p, "ack")'
      PROVE  Answered(ledger', work'[p].msg.decision)
  <2>1. Record(p) /\ work'[p].msg = work[p].msg
    <3>1. CASE Deliver(p) \/ Ack(p) \/ Redeliver(p) \/ Raise(p)
      BY <1>0, <1>2, <3>1 DEF Deliver, Ack, Redeliver, Raise, CutOff, NoWork
    <3>2. CASE Gate(p)
      BY <1>0, <1>2, <3>2 DEF Gate, AdmitRollback, AdmitRemedy, Conclude, Step
    <3>3. CASE ReadDeployment(p) \/ ReadAutoscaler(p) \/ ApplyPatch(p)
      BY <1>0, <1>2, <3>3 DEF ReadDeployment, ReadAutoscaler, ApplyPatch, Conclude, Step
    <3>4. CASE Record(p)
      BY <1>0, <3>4 DEF Record, Step
    <3>. QED
      BY <1>2, <3>1, <3>2, <3>3, <3>4 DEF Handle
  <2>2. OutcomeRow(work[p]).parent = work[p].msg.decision
    BY DEF OutcomeRow
  <2>. QED
    BY <2>1, <2>2, AppendAnswers DEF Record
<1>3. ASSUME NEW p \in Pod, Deliver(p) \/ Handle(p) \/ Redeliver(p) \/ Raise(p)
      PROVE  AckAnswers'
  BY <1>1, <1>2, <1>3, Elsewhere DEF AckAnswers
<1>4. ASSUME work' = work PROVE AckAnswers'
  BY <1>1, <1>4 DEF AckAnswers
<1>. QED
  BY <1>3, <1>4 DEF Next, ExecutorNext, OperatorEdit, Autoscale, Tick, Decide, Withhold,
     DispatchAutonomous, AwaitApproval, RedeliverAnomaly, Operate, Approve, RequestRollback,
     Send, Publish, Retry, PublishOrFail, PublishRaises, PublishLost, vars

(* A message stays in flight until its decision is answered.               *)
LEMMA NothingVanishes ==
  ASSUME NothingLost, TypeOK, TypeOK', AckAnswers, [Next]_vars, NEW m \in Held
  PROVE  m \in Held' \/ Answered(ledger', m.decision)
<1> USE DEF At
<1>0. /\ work \in [Pod -> Work] /\ queue \in Seq(Message)
      /\ work' \in [Pod -> Work] /\ queue' \in Seq(Message)
  BY DEF TypeOK, ExecutorTypeOK
<1>1. \/ \E o \in outbox : o.msg = m
      \/ \E i \in DOMAIN queue : queue[i] = m
      \/ \E p \in Pod : work[p].pc # "idle" /\ work[p].msg = m
  BY DEF Held
<1>2. SUFFICES ASSUME ~Answered(ledger', m.decision)
               PROVE  \/ \E o \in outbox' : o.msg = m
                      \/ \E i \in DOMAIN queue' : queue'[i] = m
                      \/ \E p \in Pod : work'[p].pc # "idle" /\ work'[p].msg = m
  BY DEF Held
<1> DEFINE Kept == \/ \E o \in outbox' : o.msg = m
                   \/ \E i \in DOMAIN queue' : queue'[i] = m
                   \/ \E p \in Pod : work'[p].pc # "idle" /\ work'[p].msg = m
<1>3. ASSUME outbox \subseteq outbox', UNCHANGED <<queue, work>> PROVE Kept
  BY <1>1, <1>3
<1>4. CASE ExecutorNext /\ UNCHANGED <<inbox, outbox, clicks>>
  <2>1. ASSUME NEW p \in Pod, Deliver(p) PROVE Kept
    <3>1. \A i \in DOMAIN queue : queue[i] = Head(queue) \/ \E j \in DOMAIN queue' : queue'[j] = queue[i]
      <4>1. \A i \in DOMAIN queue : i = 1 \/ (i - 1 \in DOMAIN queue' /\ queue'[i - 1] = queue[i])
        BY <1>0, <2>1 DEF Deliver
      <4>2. Head(queue) = queue[1]
        BY <1>0
      <4>. QED
        BY <4>1, <4>2
    <3>2. work'[p].pc # "idle" /\ work'[p].msg = Head(queue)
      BY <1>0, <2>1 DEF Deliver
    <3>3. \A q \in Pod : q # p => work'[q] = work[q]
      BY <2>1, Elsewhere
    <3>. QED
      BY <1>1, <1>4, <2>1, <3>1, <3>2, <3>3 DEF Deliver
  <2>2. ASSUME NEW p \in Pod, Handle(p), ~Ack(p) PROVE Kept
    <3> DEFINE Busied == work'[p].pc # "idle" /\ work'[p].msg = work[p].msg
    <3>1. ASSUME Gate(p) PROVE Busied
      BY <1>0, <3>1 DEF Gate, AdmitRollback, AdmitRemedy, Conclude, Step
    <3>2. ASSUME ReadDeployment(p) \/ ReadAutoscaler(p) PROVE Busied
      BY <1>0, <3>2 DEF ReadDeployment, ReadAutoscaler, Conclude, Step
    <3>3. ASSUME ApplyPatch(p) \/ Record(p) PROVE Busied
      BY <1>0, <3>3 DEF ApplyPatch, Record, Step
    <3>4. queue' = queue
      BY <2>2 DEF Handle, Gate, ReadDeployment, ReadAutoscaler, ApplyPatch, Record
    <3>5. \A q \in Pod : work[q].pc # "idle" => work'[q].pc # "idle" /\ work'[q].msg = work[q].msg
      BY <2>2, <3>1, <3>2, <3>3, Elsewhere DEF Handle
    <3>. QED
      BY <1>1, <1>4, <3>4, <3>5
  <2>3. ASSUME NEW p \in Pod, Ack(p) PROVE Kept
    <3>1. \A q \in Pod : q # p => work'[q] = work[q]
      BY <2>3, Elsewhere DEF Handle
    <3>2. Answered(ledger', work[p].msg.decision)
      BY <2>3 DEF Ack, AckAnswers
    <3>. QED
      BY <1>1, <1>2, <1>4, <2>3, <3>1, <3>2 DEF Ack
  <2>4. ASSUME NEW p \in Pod, Redeliver(p) PROVE Kept
    <3>1. work[p].msg \in Message
      BY <1>0, <2>4, BusyType DEF Redeliver, Busy
    <3>2. /\ \A i \in DOMAIN queue : i + 1 \in DOMAIN queue' /\ queue'[i + 1] = queue[i]
          /\ 1 \in DOMAIN queue' /\ queue'[1] = work[p].msg
      BY <1>0, <2>4, <3>1 DEF Redeliver
    <3>3. \A q \in Pod : q # p => work'[q] = work[q]
      BY <2>4, Elsewhere
    <3>. QED
      BY <1>1, <1>4, <3>2, <3>3
  <2>5. ASSUME NEW p \in Pod, Raise(p) PROVE FALSE
    BY <2>5 DEF Raise, Fault, NothingLost
  <2>. QED
    BY <1>3, <1>4, <2>1, <2>2, <2>3, <2>4, <2>5 DEF ExecutorNext, OperatorEdit, Autoscale, Tick
<1>5. CASE Decide
  BY <1>3, <1>5 DEF Decide, Withhold, DispatchAutonomous, AwaitApproval, RedeliverAnomaly, Fault,
     NothingLost
<1>6. CASE Operate
  BY <1>3, <1>6 DEF Operate, Approve, RequestRollback
<1>7. CASE Send
  <2>1. ASSUME NEW o \in outbox PROVE ~PublishRaises(o) /\ ~PublishLost(o)
    BY DEF PublishRaises, PublishLost, Fault, NothingLost
  <2>2. ASSUME NEW o \in outbox, PublishOrFail(o) PROVE Answered(ledger', o.msg.decision)
    BY <2>2, AppendAnswers DEF PublishOrFail, DecisionRow
  <2>. QED
    BY <1>1, <1>2, <1>7, <2>1, <2>2, SendMoves
<1>8. CASE UNCHANGED vars
  BY <1>3, <1>8 DEF vars
<1>. QED
  BY <1>4, <1>5, <1>6, <1>7, <1>8 DEF Next

(* Whoever appends a dispatch holds its message.                           *)
LEMMA DispatchIsHeld ==
  ASSUME TypeOK, TypeOK', [Next]_vars, NEW i \in DOMAIN ledger', i \notin DOMAIN ledger,
         ledger'[i].result = "dispatched"
  PROVE  InFlight(i)'
<1>. SUFFICES \E o \in outbox' : o.msg.decision = i
  BY DEF InFlight, Held
<1>1. ASSUME NEW r, ledger' = Append(ledger, r)
      PROVE  i = NextId /\ r = ledger'[i]
  <2>1. ledger \in Seq(Row) /\ r \in Row
    BY <1>1, AppendedType DEF TypeOK, ExecutorTypeOK
  <2>. QED
    BY <1>1, <2>1 DEF NextId
<1>2. CASE ExecutorNext
  <2>1. PICK p \in Pod : Record(p)
    BY <1>2 DEF ExecutorNext, Handle, Deliver, Gate, ReadDeployment, ReadAutoscaler, ApplyPatch,
       Ack, Redeliver, Raise, OperatorEdit, Autoscale, Tick
  <2>2. work[p].result = "dispatched" /\ work[p].result \in Outcome
    <3>1. ledger'[i] = OutcomeRow(work[p])
      BY <1>1, <2>1 DEF Record
    <3>2. work[p] \in Busy
      BY <2>1, BusyType DEF Record, At, TypeOK, ExecutorTypeOK
    <3>. QED
      BY <3>1, <3>2 DEF OutcomeRow, Busy
  <2>. QED
    BY <2>2 DEF Outcome
<1>3. ASSUME NEW a \in Anomaly, NEW remedy \in Offered, DispatchAutonomous(a, remedy)
      PROVE  \E o \in outbox' : o.msg.decision = i
  <2>1. i = NextId
    BY <1>1, <1>3 DEF DispatchAutonomous
  <2>2. [origin |-> "decision-policy", attempt |-> 1,
         msg |-> [decision |-> NextId, anomaly |-> a, service |-> ServiceOf[a],
                  action |-> remedy, mode |-> "autonomous", target |-> None]] \in outbox'
    BY <1>3 DEF DispatchAutonomous
  <2>. QED
    BY <2>1, <2>2
<1>4. ASSUME NEW a \in Anomaly, NEW remedy \in Offered, AwaitApproval(a, remedy)
      PROVE  FALSE
  <2>1. ledger'[i] = DecisionRow(a, None, None, remedy, "approved", "pending_approval", ServiceOf[a])
    BY <1>1, <1>4 DEF AwaitApproval
  <2>. QED
    BY <2>1 DEF DecisionRow
<1>8. ASSUME NEW a \in Anomaly, NEW action \in Offered, Withhold(a, action)
      PROVE  FALSE
  <2>1. PICK result \in Withheld :
          ledger'[i] = DecisionRow(a, None, None, action, "autonomous", result, ServiceOf[a])
    BY <1>1, <1>8 DEF Withhold, Withheld
  <2>. QED
    BY <2>1 DEF DecisionRow, Withheld
<1>5. ASSUME NEW a \in Anomaly, Approve(a)
      PROVE  \E o \in outbox' : o.msg.decision = i
  <2>1. PICK row \in Latest(RowsOf(ledger, a, "pending_approval")) : Approve(a)!(row)
    BY <1>5 DEF Approve
  <2>2. i = NextId
    BY <1>1, <2>1
  <2>3. [origin |-> "api-bff", attempt |-> 1,
         msg |-> [decision |-> NextId, anomaly |-> a, service |-> ServiceOf[a],
                  action |-> ledger[row].action, mode |-> "approved", target |-> None]] \in outbox'
    BY <2>1
  <2>. QED
    BY <2>2, <2>3
<1>6. ASSUME NEW a \in Anomaly, RequestRollback(a)
      PROVE  \E o \in outbox' : o.msg.decision = i
  <2>1. PICK row \in Latest(RowsOf(ledger, a, "executed")) : RequestRollback(a)!(row)
    BY <1>6 DEF RequestRollback
  <2>2. i = NextId
    BY <1>1, <2>1
  <2>3. [origin |-> "api-bff", attempt |-> 1,
         msg |-> [decision |-> NextId, anomaly |-> a, service |-> NoService,
                  action |-> "rollback", mode |-> "absent", target |-> row]] \in outbox'
    BY <2>1
  <2>. QED
    BY <2>2, <2>3
<1>7. ASSUME NEW o \in outbox, PublishOrFail(o) PROVE FALSE
  <2>1. ledger'[i] = DecisionRow(o.msg.anomaly, o.msg.decision, None, o.msg.action, "approved",
                                 "dispatch_failed", ledger[o.msg.decision].service)
    BY <1>1, <1>7 DEF PublishOrFail
  <2>. QED
    BY <2>1 DEF DecisionRow
<1>. QED
  BY <1>2, <1>3, <1>4, <1>5, <1>6, <1>7, <1>8 DEF Next, Decide, RedeliverAnomaly, Operate, Send,
     Publish, Retry, PublishRaises, PublishLost, vars

(* Unless one of those four faults strikes, every dispatch the ledger      *)
(* shows without an answer is still in flight.                             *)
THEOREM InFlightHolds == NothingLost => (Spec => []DispatchedIsInFlight)
<1> SUFFICES ASSUME NothingLost PROVE Spec => []DispatchedIsInFlight
  OBVIOUS
<1> DEFINE Inv == AckAnswers /\ DispatchedIsInFlight
<1>1. Init => Inv
  BY DEF Init, ExecutorInit, AckAnswers, At, NoWork, DispatchedIsInFlight, Dispatched
<1>2. TypeOK /\ TypeOK' /\ Inv /\ [Next]_vars => Inv'
  <2> SUFFICES ASSUME TypeOK, TypeOK', Inv, [Next]_vars PROVE Inv'
    OBVIOUS
  <2>1. AckAnswers'
    BY AckAnswersStep
  <2>2. ASSUME NEW i \in DOMAIN ledger', ledger'[i].result = "dispatched", i \in DOMAIN ledger
        PROVE  Answered(ledger', i) \/ InFlight(i)'
    <3>1. Dispatched(i)
      BY <2>2, LedgerGrows DEF Dispatched
    <3>2. CASE Answered(ledger, i)
      BY <3>2, AnsweredStays
    <3>3. CASE InFlight(i)
      BY <3>3, NothingVanishes DEF InFlight
    <3>4. Answered(ledger, i) \/ HoldsDecision(i) \/ \E o \in outbox : o.msg.decision = i
      BY <2>2, <3>1 DEF DispatchedIsInFlight
    <3>. QED
      BY <3>2, <3>3, <3>4, InFlightMeans
  <2>3. \A i \in DOMAIN ledger' : ledger'[i].result = "dispatched"
          => Answered(ledger', i) \/ InFlight(i)'
    BY <2>2, DispatchIsHeld
  <2>4. \A i : InFlight(i)' => (HoldsDecision(i) \/ \E o \in outbox : o.msg.decision = i)'
    BY DEF InFlight, Held, HoldsDecision
  <2>. QED
    BY <2>1, <2>3, <2>4 DEF DispatchedIsInFlight, Dispatched
<1>3. Inv => DispatchedIsInFlight
  OBVIOUS
<1>. QED
  BY TypeCorrect, <1>1, <1>2, <1>3, PTL DEF Spec

----------------------------------------------------------------------------
(* What one pod guarantees                                                 *)

(* The rest of the module is about the deployment the manifests ask for,   *)
(* one replica of the executor, on workloads nobody edits by hand.         *)
Unedited == "edit" \notin FaultKind

(* A step is a pod's, or leaves the pods, the patches and every limit and  *)
(* ceiling on the cluster alone.                                           *)
Quiet ==
  /\ UNCHANGED <<work, patches>>
  /\ \A s \in Service : /\ cluster'[s].cpu = cluster[s].cpu
                        /\ cluster'[s].max = cluster[s].max
  /\ now <= now'
  /\ QuietLedger

LEMMA StepKinds ==
  ASSUME Unedited, TypeOK, TypeOK', [Next]_vars
  PROVE  Quiet \/ \E p \in Pod : Deliver(p) \/ Handle(p) \/ Redeliver(p) \/ Raise(p)
<1>0. now \in Nat /\ cluster \in [Service -> Workload]
  BY DEF TypeOK, ExecutorTypeOK
<1>1. CASE ExecutorNext
  <2>1. ASSUME NEW s \in Service, Autoscale(s) PROVE Quiet
    <3>1. \A n : \A q \in Service :
            LET c == [cluster EXCEPT ![s].replicas = n] IN
            c[q].cpu = cluster[q].cpu /\ c[q].max = cluster[q].max
      BY <1>0 DEF Workload
    <3>. QED
      BY <1>0, <2>1, <3>1 DEF Autoscale, Quiet, QuietLedger
  <2>. QED
    BY <1>0, <1>1, <2>1 DEF ExecutorNext, OperatorEdit, Tick, Fault, Unedited, Quiet, QuietLedger
<1>2. CASE Decide \/ Operate \/ Send \/ UNCHANGED vars
  <2>1. UNCHANGED <<work, patches, cluster, now>>
    BY <1>2 DEF Decide, Withhold, DispatchAutonomous, AwaitApproval, RedeliverAnomaly, Operate,
       Approve, RequestRollback, Send, Publish, Retry, PublishOrFail, PublishRaises, PublishLost, vars
  <2>2. ASSUME NEW p \in Pod, Record(p) PROVE FALSE
    BY <2>1, <2>2 DEF Record, Step, At, TypeOK, ExecutorTypeOK
  <2>. QED
    BY <1>0, <2>1, <2>2, LedgerStep DEF Quiet
<1>. QED
  BY <1>1, <1>2 DEF Next

(* No execution, reversal or expiry is written but by the executor.        *)
LEMMA QuietRows ==
  ASSUME TypeOK, TypeOK', QuietLedger, NEW j \in DOMAIN ledger',
         Counted(ledger'[j]) \/ ledger'[j].result = "rollback_window_expired"
  PROVE  j \in DOMAIN ledger /\ ledger'[j] = ledger[j]
<1>1. CASE ledger' = ledger
  BY <1>1
<1>2. ASSUME NEW r \in Row, ledger' = Append(ledger, r), ~Counted(r),
             r.result # "rollback_window_expired"
      PROVE  j \in DOMAIN ledger /\ ledger'[j] = ledger[j]
  BY <1>2 DEF TypeOK, ExecutorTypeOK
<1>. QED
  BY <1>1, <1>2 DEF QuietLedger

LEMMA RecordedRows ==
  ASSUME TypeOK, TypeOK', NEW p \in Pod, Record(p)
  PROVE  /\ DOMAIN ledger' = DOMAIN ledger \cup {Len(ledger) + 1}
         /\ Len(ledger) + 1 \notin DOMAIN ledger /\ Len(ledger) + 1 # None
         /\ ledger'[Len(ledger) + 1] = OutcomeRow(work[p])
         /\ \A i \in DOMAIN ledger : ledger'[i] = ledger[i]
<1>1. ledger' = Append(ledger, OutcomeRow(work[p])) /\ ledger \in Seq(Row)
  BY DEF Record, TypeOK, ExecutorTypeOK
<1>2. OutcomeRow(work[p]) \in Row
  BY <1>1, AppendedType DEF TypeOK, ExecutorTypeOK
<1>. QED
  BY <1>1, <1>2, AppendFacts DEF None

(* A pod's own step leaves no other pod's, for there is none.              *)
LEMMA OnlyPod ==
  ASSUME OnePod, NEW p \in Pod, NEW q \in Pod
  PROVE  p = q
BY DEF OnePod

(* A handler once cut off after its patch stays on record as such.         *)
LEMMA OrphansStay ==
  ASSUME [Next]_vars
  PROVE  orphans \subseteq orphans'
BY DEF Next, ExecutorNext, Deliver, Handle, Gate, ReadDeployment, ReadAutoscaler, ApplyPatch,
   Record, Ack, Redeliver, Raise, CutOff, OperatorEdit, Autoscale, Tick, Decide, Withhold,
   DispatchAutonomous, AwaitApproval, RedeliverAnomaly, Operate, Approve, RequestRollback, Send,
   Publish, Retry, PublishOrFail, PublishRaises, PublishLost, vars

(* Row r says what patch q did.                                            *)
Holds(r, q) ==
  /\ r.parent = q.decision /\ r.result = "executed"
  /\ r.prior = [kind |-> q.kind, service |-> q.service, value |-> q.before]

(* What the executor is about to overwrite is what it read, and each       *)
(* remedy it applied is recorded, or about to be.                          *)
ReconstructInv ==
  /\ \A p \in Pod : At(p, "patch") /\ ~IsRollback(work[p].msg) =>
       work[p].prior.value = Field(cluster[work[p].prior.service], work[p].prior.kind)
  /\ \A i \in Remedies :
       \/ \E j \in DOMAIN ledger : Holds(ledger[j], patches[i])
       \/ \E p \in Pod : At(p, "record") /\ Holds(OutcomeRow(work[p]), patches[i])
       \/ patches[i].decision \in orphans

(* The outcome a pod is about to record is of the patch it has applied.    *)
LEMMA HoldsIsPatched ==
  ASSUME TypeOK, NEW i \in DOMAIN patches, NEW p \in Pod, At(p, "record"),
         Holds(OutcomeRow(work[p]), patches[i])
  PROVE  Patched(p) /\ work[p].msg.decision = patches[i].decision
<1>1. patches[i] \in Patch
  BY DEF TypeOK, ExecutorTypeOK
<1>2. patches[i].kind # "none"
  BY <1>1 DEF Patch
<1>. QED
  BY <1>2 DEF Holds, OutcomeRow, Patched, NoSnapshot

LEMMA ReconstructStep ==
  ASSUME OnePod, Unedited, TypeOK, TypeOK', ProvenanceInv,
         ReconstructInv, [Next]_vars
  PROVE  ReconstructInv'
<1> USE DEF At
<1>0. /\ work \in [Pod -> Work] /\ patches \in Seq(Patch) /\ cluster \in [Service -> Workload]
  BY DEF TypeOK, ExecutorTypeOK
<1>r. \A q : (\E j \in DOMAIN ledger : Holds(ledger[j], q))
               => (\E j \in DOMAIN ledger' : Holds(ledger'[j], q))
  BY LedgerGrows
<1>o. orphans \subseteq orphans'
  BY OrphansStay
<1>1. CASE Quiet
  <2>1. ASSUME NEW p \in Pod, At(p, "patch"), ~IsRollback(work[p].msg)
        PROVE  work[p].prior.value = Field(cluster'[work[p].prior.service], work[p].prior.kind)
    <3>1. work[p].prior.service \in Service
      BY <1>0, <2>1, BusyType DEF Snapshot
    <3>. QED
      BY <1>1, <2>1, <3>1 DEF Quiet, ReconstructInv, Field
  <2>2. ASSUME NEW p \in Pod, NEW i \in Remedies, At(p, "record"), Holds(OutcomeRow(work[p]), patches[i])
        PROVE  Holds(OutcomeRow(work[p]), patches[i])'
    BY <1>1, <2>2 DEF Quiet, OutcomeRow, Holds
  <2>. QED
    BY <1>1, <1>o, <1>r, <2>1, <2>2 DEF Quiet, ReconstructInv, Remedies
<1>2. ASSUME NEW p \in Pod, Deliver(p) \/ Gate(p) \/ ReadDeployment(p) \/ ReadAutoscaler(p) \/ Ack(p)
      PROVE  ReconstructInv'
  <2>1. UNCHANGED <<ledger, patches, cluster>> /\ ~At(p, "record")
    BY <1>2 DEF Deliver, Gate, ReadDeployment, ReadAutoscaler, Ack
  <2>2. At(p, "patch")' /\ ~IsRollback(work'[p].msg) =>
          work'[p].prior.value = Field(cluster[work'[p].prior.service], work'[p].prior.kind)
    BY <1>0, <1>2 DEF Deliver, Gate, AdmitRollback, AdmitRemedy, ReadDeployment, ReadAutoscaler,
       Ack, Conclude, Step, Field, NoWork
  <2>3. \A i \in Remedies : \/ \E j \in DOMAIN ledger : Holds(ledger[j], patches[i])
                            \/ patches[i].decision \in orphans
    BY <2>1, OnlyPod DEF ReconstructInv
  <2>. QED
    BY <1>o, <2>1, <2>2, <2>3, OnlyPod DEF ReconstructInv, Remedies
<1>3. ASSUME NEW p \in Pod, ApplyPatch(p) PROVE ReconstructInv'
  <2> DEFINE d == work[p]
             q == [decision |-> d.msg.decision, service |-> d.prior.service, kind |-> d.prior.kind,
                   before |-> Field(cluster[d.prior.service], d.prior.kind), after |-> d.apply,
                   undo |-> IsRollback(d.msg), at |-> now]
  <2>1. /\ patches' = Append(patches, q) /\ UNCHANGED <<ledger, now>> /\ At(p, "patch")
        /\ work'[p].pc = "record" /\ work'[p].msg = d.msg /\ work'[p].result = d.result
        /\ work'[p].prior = d.prior
    BY <1>0, <1>3 DEF ApplyPatch, Step
  <2>2. d.prior \in Snapshot
    BY <1>0, <2>1, BusyType
  <2>3. ~IsRollback(d.msg) => Holds(OutcomeRow(d), q)
    <3>1. ~IsRollback(d.msg) => d.result = "executed" /\ d.prior.value = q.before
      BY <2>1 DEF ReconstructInv, ProvenanceInv, PodInv, Consistent
    <3>2. d.prior = [kind |-> d.prior.kind, service |-> d.prior.service, value |-> d.prior.value]
      BY <2>2 DEF Snapshot
    <3>. QED
      BY <3>1, <3>2 DEF Holds, OutcomeRow
  <2>4. \A i \in Remedies : \/ \E j \in DOMAIN ledger : Holds(ledger[j], patches[i])
                            \/ patches[i].decision \in orphans
    BY <2>1, OnlyPod DEF ReconstructInv
  <2>5. \A i \in Remedies' : (patches'[i] = q /\ ~q.undo) \/ (i \in Remedies /\ patches'[i] = patches[i])
    <3>1. q \in Patch
      BY <2>1, AppendedType DEF TypeOK, ExecutorTypeOK
    <3>2. \A i \in DOMAIN patches' : patches'[i] = q \/ (i \in DOMAIN patches /\ patches'[i] = patches[i])
      BY <1>0, <2>1, <3>1
    <3>. QED
      BY <3>2 DEF Remedies
  <2>6. \A r \in Pod : ~At(r, "patch")'
    BY <2>1, OnlyPod
  <2>7. OutcomeRow(work[p])' = OutcomeRow(d)
    BY <2>1 DEF OutcomeRow
  <2>8. ASSUME NEW i \in Remedies'
        PROVE  \/ \E j \in DOMAIN ledger' : Holds(ledger'[j], patches'[i])
               \/ \E r \in Pod : At(r, "record")' /\ Holds(OutcomeRow(work[r])', patches'[i])
               \/ patches'[i].decision \in orphans'
    BY <1>o, <2>1, <2>3, <2>4, <2>5, <2>7
  <2>. QED
    BY <2>6, <2>8 DEF ReconstructInv, Holds
<1>4. ASSUME NEW p \in Pod, Record(p) PROVE ReconstructInv'
  <2>1. patches' = patches /\ work'[p].pc = "ack"
    BY <1>0, <1>4 DEF Record, Step
  <2>2. \A i \in Remedies : \/ \E j \in DOMAIN ledger' : Holds(ledger'[j], patches[i])
                            \/ patches[i].decision \in orphans'
    BY <1>4, <1>o, <1>r, RecordedRows, OnlyPod DEF ReconstructInv
  <2>. QED
    BY <2>1, <2>2, OnlyPod DEF ReconstructInv, Remedies
<1>5. ASSUME NEW p \in Pod, Redeliver(p) \/ Raise(p) PROVE ReconstructInv'
  <2>1. /\ UNCHANGED <<ledger, patches>> /\ work'[p].pc = "idle"
        /\ Patched(p) => work[p].msg.decision \in orphans'
    BY <1>0, <1>5 DEF Redeliver, Raise, CutOff, NoWork
  <2>2. \A i \in Remedies : \/ \E j \in DOMAIN ledger : Holds(ledger[j], patches[i])
                            \/ patches[i].decision \in orphans'
    <3>. SUFFICES ASSUME NEW i \in Remedies, At(p, "record"), Holds(OutcomeRow(work[p]), patches[i])
                  PROVE  patches[i].decision \in orphans'
      BY <1>o, OnlyPod DEF ReconstructInv
    <3>. QED
      BY <2>1, HoldsIsPatched DEF Remedies
  <2>. QED
    BY <2>1, <2>2, OnlyPod DEF ReconstructInv, Remedies
<1>. QED
  BY <1>1, <1>2, <1>3, <1>4, <1>5, StepKinds DEF Handle

(* With one executor pod and no edits by hand, through every other fault:  *)
(* a remedy on the cluster has a row that holds exactly the value it       *)
(* overwrote, or its pod is about to write that row, or the handler was    *)
(* cut off between the two.  (The run lost_reference shows the last.)      *)
THEOREM ReconstructHolds ==
  OnePod /\ Unedited => (Spec => []ReconstructableUnlessCut)
<1> SUFFICES ASSUME OnePod, Unedited PROVE Spec => []ReconstructableUnlessCut
  OBVIOUS
<1>1. Init => ReconstructInv
  BY DEF Init, ExecutorInit, ReconstructInv, Remedies, At, NoWork
<1>2. TypeOK /\ TypeOK' /\ ProvenanceInv /\ ReconstructInv /\ [Next]_vars => ReconstructInv'
  BY ReconstructStep
<1>3. TypeOK /\ ReconstructInv => ReconstructableUnlessCut
  <2> SUFFICES ASSUME TypeOK, ReconstructInv, NEW i \in Remedies
               PROVE  \/ PatchedNow(patches[i].decision)
                      \/ \E j \in DOMAIN ledger : Holds(ledger[j], patches[i])
                      \/ patches[i].decision \in orphans
    BY DEF ReconstructableUnlessCut, Reconstructable, Holds
  <2>1. ASSUME NEW p \in Pod, At(p, "record"), Holds(OutcomeRow(work[p]), patches[i])
        PROVE  PatchedNow(patches[i].decision)
    BY <2>1, HoldsIsPatched DEF Remedies, PatchedNow
  <2>. QED
    BY <2>1 DEF ReconstructInv
<1>. QED
  BY ProvenanceHolds, <1>1, <1>2, <1>3, PTL DEF Spec

----------------------------------------------------------------------------
(* Reading the ledger forward                                              *)

(* A throttle never reads a limit that a throttle set, so the limit every  *)
(* snapshot saves is the one the workload started with.                    *)
Faithful(prior) == prior.kind = "cpu" => prior.value = InitialSpec[prior.service].cpu

ThrottledBy(row, s) == row.result = "executed" /\ row.prior.kind = "cpu" /\ row.prior.service = s

(* A limit that is not the original one is explained by a throttle the     *)
(* ledger shows as standing, by one about to be recorded, or by a handler  *)
(* cut off before it could record.                                         *)
Accounted(s) ==
  \/ cluster[s].cpu = InitialSpec[s].cpu
  \/ \E p \in Pod : At(p, "record") /\ ThrottledBy(work[p], s)
  \/ \E i \in DOMAIN ledger : ThrottledBy(ledger[i], s) /\ ~Reversed(i)
  \/ orphans # {}

SnapshotInv ==
  /\ \A s \in Service : cluster[s].cpu \in {InitialSpec[s].cpu, ThrottleLimit}
  /\ \A i \in DOMAIN ledger : ledger[i].result = "executed" => Faithful(ledger[i].prior)
  /\ \A p \in Pod :
       /\ At(p, "patch") => Faithful(work[p].prior)
       /\ At(p, "record") /\ work[p].result = "executed" => Faithful(work[p].prior)
       /\ At(p, "patch") /\ ~IsRollback(work[p].msg) /\ work[p].prior.kind = "cpu" =>
            work[p].apply = ThrottleLimit

ReversalInv ==
  /\ \A i \in DOMAIN ledger : ledger[i].ref \in DOMAIN ledger \cup {None}
  /\ \A p \in Pod : At(p, "record") /\ work[p].result = "rolled_back" =>
       /\ IsRollback(work[p].msg)
       /\ work[p].prior = ledger[work[p].msg.target].prior
       /\ work[p].prior.kind = "cpu" =>
            cluster[work[p].prior.service].cpu = InitialSpec[work[p].prior.service].cpu

OriginalInv == SnapshotInv /\ ReversalInv /\ \A s \in Service : Accounted(s)

LEMMA SnapshotLedger ==
  ASSUME TypeOK, TypeOK', SnapshotInv, [Next]_vars
  PROVE  \A i \in DOMAIN ledger' : ledger'[i].result = "executed" => Faithful(ledger'[i].prior)
<1>1. CASE QuietLedger
  BY <1>1, QuietRows DEF SnapshotInv, Counted
<1>2. ASSUME NEW p \in Pod, Record(p)
      PROVE  \A i \in DOMAIN ledger' : ledger'[i].result = "executed" => Faithful(ledger'[i].prior)
  <2>1. OutcomeRow(work[p]).result = "executed" => Faithful(OutcomeRow(work[p]).prior)
    BY <1>2 DEF Record, SnapshotInv, OutcomeRow, At
  <2>. QED
    BY <1>2, <2>1, RecordedRows DEF SnapshotInv
<1>. QED
  BY <1>1, <1>2, LedgerStep

LEMMA SnapshotStep ==
  ASSUME OnePod, Unedited, TypeOK, TypeOK', ProvenanceInv, SnapshotInv, [Next]_vars
  PROVE  SnapshotInv'
<1> USE DEF At
<1>0. /\ work \in [Pod -> Work] /\ cluster \in [Service -> Workload]
  BY DEF TypeOK, ExecutorTypeOK
<1>1. \A i \in DOMAIN ledger' : ledger'[i].result = "executed" => Faithful(ledger'[i].prior)
  BY SnapshotLedger
<1>2. CASE Quiet
  BY <1>1, <1>2 DEF Quiet, SnapshotInv
<1>3. ASSUME NEW p \in Pod, Deliver(p) \/ Record(p) \/ Ack(p) \/ Redeliver(p) \/ Raise(p)
      PROVE  SnapshotInv'
  <2>1. /\ cluster' = cluster /\ work'[p].pc \notin {"patch", "record"}
    BY <1>0, <1>3 DEF Deliver, Record, Ack, Redeliver, Raise, CutOff, Step, NoWork
  <2>. QED
    BY <1>1, <2>1, OnlyPod DEF SnapshotInv
<1>4. ASSUME NEW p \in Pod, Gate(p) PROVE SnapshotInv'
  <2>1. cluster' = cluster /\ ledger' = ledger /\ work'[p].result # "executed"
    BY <1>0, <1>4 DEF Gate, AdmitRollback, AdmitRemedy, Conclude, Step
  <2>2. work'[p].pc = "patch" => /\ IsRollback(work'[p].msg)
                                 /\ work'[p].prior = ledger[work[p].msg.target].prior
    BY <1>0, <1>4 DEF Gate, AdmitRollback, AdmitRemedy, Conclude, Step
  <2>3. work'[p].pc = "patch" => Faithful(work'[p].prior)
    <3>1. work'[p].pc = "patch" => Reversible(ledger, work[p].msg.target, work[p].msg.anomaly)
      BY <1>0, <1>4, <2>2, PodMessage DEF Gate, AdmitRollback, AdmitRemedy, Conclude, Step,
         Justified, ProvenanceInv
    <3>. QED
      BY <2>2, <3>1 DEF Reversible, SnapshotInv
  <2>. QED
    BY <1>1, <2>1, <2>2, <2>3, OnlyPod DEF SnapshotInv
<1>5. ASSUME NEW p \in Pod, ReadDeployment(p) \/ ReadAutoscaler(p) PROVE SnapshotInv'
  <2> DEFINE s == work[p].msg.service
  <2>1. s \in Service
    <3>1. work[p].msg \in Message /\ work[p].msg.action # "rollback"
      BY <1>5, PodMessage DEF ReadDeployment, ReadAutoscaler, ProvenanceInv
    <3>. QED
      BY <3>1 DEF Message, RemedyMessage, RollbackMessage
  <2>2. cluster' = cluster
    BY <1>5 DEF ReadDeployment, ReadAutoscaler
  <2>3. /\ work'[p].pc = "patch" \/ (work'[p].pc = "record" /\ work'[p].result = "no_op")
        /\ work'[p].pc = "patch" => Faithful(work'[p].prior)
        /\ work'[p].pc = "patch" /\ work'[p].prior.kind = "cpu" => work'[p].apply = ThrottleLimit
    <3>1. CASE ReadDeployment(p)
      BY <1>0, <2>1, <3>1 DEF ReadDeployment, Conclude, Step, Faithful, SnapshotInv
    <3>2. CASE ReadAutoscaler(p)
      BY <1>0, <3>2 DEF ReadAutoscaler, Conclude, Step, Faithful
    <3>. QED
      BY <1>5, <3>1, <3>2
  <2>. QED
    BY <1>1, <2>2, <2>3, OnlyPod DEF SnapshotInv
<1>6. ASSUME NEW p \in Pod, ApplyPatch(p) PROVE SnapshotInv'
  <2> DEFINE d == work[p]
             s == d.prior.service
  <2>1. /\ work'[p].pc = "record" /\ work'[p].prior = d.prior /\ At(p, "patch")
        /\ cluster' = [cluster EXCEPT ![s] = WithField(@, d.prior.kind, d.apply)]
    BY <1>0, <1>6 DEF ApplyPatch, Step
  <2>2. d.prior \in Snapshot /\ s \in Service
    BY <1>0, <2>1, BusyType DEF Snapshot
  <2>3. \A q \in Service : cluster'[q].cpu = cluster[q].cpu
                           \/ (q = s /\ d.prior.kind = "cpu" /\ cluster'[q].cpu = d.apply)
    BY <1>0, <2>1, <2>2 DEF WithField, Workload, Snapshot
  <2>4. d.prior.kind = "cpu" => d.apply \in {InitialSpec[s].cpu, ThrottleLimit}
    BY <2>1 DEF SnapshotInv, Faithful, ProvenanceInv, PodInv, Consistent
  <2>5. Faithful(d.prior)
    BY <2>1 DEF SnapshotInv
  <2>. QED
    BY <1>1, <2>1, <2>3, <2>4, <2>5, OnlyPod DEF SnapshotInv
<1>. QED
  BY <1>2, <1>3, <1>4, <1>5, <1>6, StepKinds DEF Handle

(* A row never points below itself.                                        *)
LEMMA ReferencesStep ==
  ASSUME TypeOK, TypeOK', ProvenanceInv, ReversalInv, [Next]_vars
  PROVE  \A i \in DOMAIN ledger' : ledger'[i].ref \in DOMAIN ledger' \cup {None}
<1>1. DOMAIN ledger \subseteq DOMAIN ledger' /\ \A i \in DOMAIN ledger : ledger'[i] = ledger[i]
  BY LedgerGrows
<1>2. ASSUME NEW r \in Row, ledger' = Append(ledger, r), Written(r)
      PROVE  \A i \in DOMAIN ledger' : ledger'[i].ref \in DOMAIN ledger' \cup {None}
  <2>1. \A i \in DOMAIN ledger' : i \in DOMAIN ledger \/ ledger'[i] = r
    BY <1>2 DEF TypeOK, ExecutorTypeOK
  <2>2. ASSUME NEW p \in Pod, At(p, "record"), r = OutcomeRow(work[p])
        PROVE  r.ref \in DOMAIN ledger \cup {None}
    <3>1. Justified(ledger, work[p].msg) /\ Consistent(p)
      BY <2>2, PodMessage DEF At, ProvenanceInv, PodInv
    <3>2. work[p].result \in {"rolled_back", "rollback_window_expired"} => IsRollback(work[p].msg)
      BY <2>2, <3>1 DEF Consistent, RemedyOutcome
    <3>. QED
      BY <2>2, <3>1, <3>2 DEF OutcomeRow, Justified, Reversible
  <2>3. r.ref \in DOMAIN ledger \cup {None}
    BY <1>2, <2>2 DEF Written, DecisionRow, RowsOf
  <2>. QED
    BY <1>1, <2>1, <2>3 DEF ReversalInv
<1>. QED
  BY <1>1, <1>2, LedgerWrites DEF ReversalInv

LEMMA ReversalStep ==
  ASSUME OnePod, Unedited, TypeOK, TypeOK', ProvenanceInv, OriginalInv, [Next]_vars
  PROVE  ReversalInv'
<1> USE DEF At
<1>0. /\ work \in [Pod -> Work] /\ cluster \in [Service -> Workload]
  BY DEF TypeOK, ExecutorTypeOK
<1>1. \A i \in DOMAIN ledger' : ledger'[i].ref \in DOMAIN ledger' \cup {None}
  BY ReferencesStep DEF OriginalInv
<1>2. ASSUME NEW p \in Pod, At(p, "record"), IsRollback(work[p].msg)
      PROVE  ledger'[work[p].msg.target] = ledger[work[p].msg.target]
  BY <1>2, PodMessage, LedgerGrows DEF Justified, Reversible, ProvenanceInv
<1>3. CASE Quiet
  <2>1. ASSUME NEW p \in Pod, At(p, "record"), work[p].result = "rolled_back",
               work[p].prior.kind = "cpu"
        PROVE  cluster'[work[p].prior.service].cpu = InitialSpec[work[p].prior.service].cpu
    <3>1. Restorable(ledger[work[p].msg.target])
      BY <2>1, PodMessage DEF OriginalInv, ReversalInv, Justified, Reversible, ProvenanceInv, LedgerInv
    <3>2. work[p].prior.service \in Service
      BY <2>1, <3>1 DEF OriginalInv, ReversalInv, Restorable, Snapshot
    <3>. QED
      BY <1>3, <2>1, <3>2 DEF Quiet, OriginalInv, ReversalInv
  <2>. QED
    BY <1>1, <1>2, <1>3, <2>1 DEF Quiet, OriginalInv, ReversalInv
<1>4. ASSUME NEW p \in Pod,
             Deliver(p) \/ Gate(p) \/ ReadDeployment(p) \/ ReadAutoscaler(p) \/ Record(p)
               \/ Ack(p) \/ Redeliver(p) \/ Raise(p)
      PROVE  ReversalInv'
  <2>1. ~(work'[p].pc = "record" /\ work'[p].result = "rolled_back")
    BY <1>0, <1>4 DEF Deliver, Gate, AdmitRollback, AdmitRemedy, ReadDeployment, ReadAutoscaler,
       Record, Ack, Redeliver, Raise, CutOff, Conclude, Step, NoWork
  <2>. QED
    BY <1>1, <2>1, OnlyPod DEF ReversalInv
<1>5. ASSUME NEW p \in Pod, ApplyPatch(p) PROVE ReversalInv'
  <2> DEFINE d == work[p]
             s == d.prior.service
  <2>1. /\ work'[p].pc = "record" /\ work'[p].prior = d.prior /\ work'[p].result = d.result
        /\ work'[p].msg = d.msg /\ At(p, "patch") /\ ledger' = ledger
        /\ cluster' = [cluster EXCEPT ![s] = WithField(@, d.prior.kind, d.apply)]
    BY <1>0, <1>5 DEF ApplyPatch, Step
  <2>2. d.prior \in Snapshot /\ s \in Service
    BY <1>0, <2>1, BusyType DEF Snapshot
  <2>3. d.prior.kind = "cpu" => cluster'[s].cpu = d.apply
    BY <1>0, <2>1, <2>2 DEF WithField, Workload
  <2>4. d.result = "rolled_back" =>
          /\ IsRollback(d.msg) /\ d.prior = ledger[d.msg.target].prior /\ d.apply = d.prior.value
    BY <2>1 DEF ProvenanceInv, PodInv, Consistent
  <2>5. d.prior.kind = "cpu" => d.prior.value = InitialSpec[s].cpu
    BY <2>1 DEF OriginalInv, SnapshotInv, Faithful
  <2>. QED
    BY <1>1, <2>1, <2>3, <2>4, <2>5, OnlyPod DEF ReversalInv
<1>. QED
  BY <1>3, <1>4, <1>5, StepKinds DEF Handle

LEMMA ReversedStays ==
  ASSUME TypeOK, TypeOK', QuietLedger, NEW i, Reversed(i)'
  PROVE  Reversed(i)
BY QuietRows DEF Reversed, Counted

LEMMA AccountedStep ==
  ASSUME OnePod, Unedited, TypeOK, TypeOK', ProvenanceInv, OriginalInv, [Next]_vars,
         NEW s \in Service
  PROVE  Accounted(s)'
<1>o. CASE orphans # {}
  BY <1>o, OrphansStay DEF Accounted
<1>. SUFFICES ASSUME orphans = {} PROVE Accounted(s)'
  BY <1>o
<1> USE DEF At
<1>0. /\ work \in [Pod -> Work] /\ cluster \in [Service -> Workload]
  BY DEF TypeOK, ExecutorTypeOK
<1>1. ASSUME QuietLedger, NEW i \in DOMAIN ledger, ThrottledBy(ledger[i], s), ~Reversed(i)
      PROVE  i \in DOMAIN ledger' /\ ThrottledBy(ledger'[i], s) /\ ~Reversed(i)'
  BY <1>1, LedgerGrows, ReversedStays
<1>2. CASE Quiet
  BY <1>1, <1>2 DEF Quiet, Accounted, OriginalInv, ThrottledBy
<1>3. ASSUME NEW p \in Pod, Deliver(p) \/ Gate(p) \/ ReadDeployment(p) \/ ReadAutoscaler(p) \/ Ack(p)
      PROVE  Accounted(s)'
  <2>1. UNCHANGED <<ledger, cluster>> /\ ~At(p, "record")
    BY <1>3 DEF Deliver, Gate, ReadDeployment, ReadAutoscaler, Ack
  <2>2. \/ cluster[s].cpu = InitialSpec[s].cpu
        \/ \E i \in DOMAIN ledger : ThrottledBy(ledger[i], s) /\ ~Reversed(i)
    BY <2>1, OnlyPod DEF OriginalInv, Accounted
  <2>. QED
    BY <2>1, <2>2 DEF Accounted, Reversed
<1>4. ASSUME NEW p \in Pod, ApplyPatch(p) PROVE Accounted(s)'
  <2> DEFINE d == work[p]
  <2>1. /\ work'[p].pc = "record" /\ work'[p].prior = d.prior /\ work'[p].result = d.result
        /\ work'[p].msg = d.msg /\ At(p, "patch") /\ ledger' = ledger
        /\ cluster' = [cluster EXCEPT ![d.prior.service] = WithField(@, d.prior.kind, d.apply)]
    BY <1>0, <1>4 DEF ApplyPatch, Step
  <2>2. d.prior \in Snapshot
    BY <1>0, <2>1, BusyType
  <2>3. CASE d.prior.kind = "cpu" /\ d.prior.service = s
    <3>1. CASE IsRollback(d.msg)
      <4>1. d.apply = InitialSpec[s].cpu
        BY <2>1, <2>3, <3>1 DEF OriginalInv, SnapshotInv, Faithful, ProvenanceInv, PodInv, Consistent
      <4>2. cluster'[s].cpu = d.apply
        BY <1>0, <2>1, <2>3 DEF WithField, Workload
      <4>. QED
        BY <4>1, <4>2 DEF Accounted
    <3>2. CASE ~IsRollback(d.msg)
      <4>1. d.result = "executed"
        BY <2>1, <3>2 DEF ProvenanceInv, PodInv, Consistent
      <4>. QED
        BY <2>1, <2>3, <4>1 DEF Accounted, ThrottledBy
    <3>. QED
      BY <3>1, <3>2
  <2>4. CASE ~(d.prior.kind = "cpu" /\ d.prior.service = s)
    <3>1. cluster'[s].cpu = cluster[s].cpu
      BY <1>0, <2>1, <2>2, <2>4 DEF WithField, Workload, Snapshot
    <3>2. \/ cluster[s].cpu = InitialSpec[s].cpu
          \/ \E i \in DOMAIN ledger : ThrottledBy(ledger[i], s) /\ ~Reversed(i)
      BY <2>1, OnlyPod DEF OriginalInv, Accounted
    <3>. QED
      BY <2>1, <3>1, <3>2 DEF Accounted, Reversed
  <2>. QED
    BY <2>3, <2>4
<1>5. ASSUME NEW p \in Pod, Record(p) PROVE Accounted(s)'
  <2> DEFINE d == work[p]
  <2>0. PICK n : n = Len(ledger) + 1
    OBVIOUS
  <2>1. At(p, "record") /\ cluster' = cluster /\ ledger'[n] = OutcomeRow(d)
        /\ DOMAIN ledger' = DOMAIN ledger \cup {n} /\ n \notin DOMAIN ledger /\ n # None
        /\ \A i \in DOMAIN ledger : ledger'[i] = ledger[i]
    BY <1>5, <2>0, RecordedRows DEF Record
  <2>2. \A i : Reversed(i)' => Reversed(i) \/ (d.result = "rolled_back" /\ i = d.msg.target)
    BY <2>1 DEF Reversed, OutcomeRow
  <2>3. CASE cluster[s].cpu = InitialSpec[s].cpu
    BY <2>1, <2>3 DEF Accounted
  <2>4. ASSUME NEW i \in DOMAIN ledger, ThrottledBy(ledger[i], s), ~Reversed(i)
        PROVE  Accounted(s)'
    <3>1. CASE d.result = "rolled_back" /\ i = d.msg.target
      BY <2>1, <2>4, <3>1 DEF Accounted, OriginalInv, ReversalInv, ThrottledBy
    <3>2. CASE ~Reversed(i)'
      BY <2>1, <2>4, <3>2 DEF Accounted
    <3>. QED
      BY <2>2, <2>4, <3>1, <3>2
  <2>5. ASSUME NEW q \in Pod, At(q, "record"), ThrottledBy(work[q], s)
        PROVE  Accounted(s)'
    <3>1. ThrottledBy(d, s)
      BY <2>5, OnlyPod
    <3>2. ThrottledBy(ledger'[n], s)
      BY <2>1, <3>1 DEF ThrottledBy, OutcomeRow
    <3>3. ~Reversed(n)
      <4>1. \A j \in DOMAIN ledger : ledger[j].ref # n
        BY <2>1 DEF OriginalInv, ReversalInv
      <4>. QED
        BY <4>1 DEF Reversed
    <3>4. ~Reversed(n)'
      BY <2>2, <3>1, <3>3 DEF ThrottledBy
    <3>. QED
      BY <2>1, <3>2, <3>4 DEF Accounted
  <2>. QED
    BY <2>3, <2>4, <2>5 DEF OriginalInv, Accounted
<1>6. ASSUME NEW p \in Pod, Redeliver(p) \/ Raise(p) PROVE Accounted(s)'
  <2>1. /\ UNCHANGED <<ledger, cluster>>
        /\ Patched(p) => work[p].msg.decision \in orphans'
    BY <1>6 DEF Redeliver, Raise, CutOff
  <2>2. CASE At(p, "record") /\ ThrottledBy(work[p], s)
    <3>1. Patched(p)
      BY <2>2 DEF ThrottledBy, Patched, NoSnapshot
    <3>. QED
      BY <2>1, <3>1 DEF Accounted
  <2>3. CASE ~(At(p, "record") /\ ThrottledBy(work[p], s))
    <3>1. \/ cluster[s].cpu = InitialSpec[s].cpu
          \/ \E i \in DOMAIN ledger : ThrottledBy(ledger[i], s) /\ ~Reversed(i)
      BY <2>3, OnlyPod DEF OriginalInv, Accounted
    <3>. QED
      BY <2>1, <3>1 DEF Accounted, Reversed
  <2>. QED
    BY <2>2, <2>3
<1>. QED
  BY <1>2, <1>3, <1>4, <1>5, <1>6, StepKinds DEF Handle

(* With one executor pod, on workloads nobody edits by hand, the ledger    *)
(* tells the truth: when each execution it shows has been rolled back, in  *)
(* any order and however often, every workload is back at the CPU limit it *)
(* started with, unless a handler was cut off between its patch and its    *)
(* row.                                                                    *)
THEOREM OriginalHolds ==
  OnePod /\ Unedited => (Spec => []AllReversedIsOriginal)
<1> SUFFICES ASSUME OnePod, Unedited PROVE Spec => []AllReversedIsOriginal
  OBVIOUS
<1>1. Init => OriginalInv
  BY ExecutorAssumption
     DEF Init, ExecutorInit, OriginalInv, SnapshotInv, ReversalInv, Accounted, At, NoWork
<1>2. TypeOK /\ TypeOK' /\ ProvenanceInv /\ OriginalInv /\ [Next]_vars => OriginalInv'
  <2> SUFFICES ASSUME TypeOK, TypeOK', ProvenanceInv, OriginalInv, [Next]_vars
               PROVE  OriginalInv'
    OBVIOUS
  <2>1. SnapshotInv'
    BY SnapshotStep DEF OriginalInv
  <2>2. \A s \in Service : Accounted(s)'
    BY AccountedStep
  <2>. QED
    BY <2>1, <2>2, ReversalStep DEF OriginalInv
<1>3. TypeOK /\ OriginalInv => AllReversedIsOriginal
  BY DEF OriginalInv, Accounted, AllReversedIsOriginal, ThrottledBy, At
<1>. QED
  BY ProvenanceHolds, <1>1, <1>2, <1>3, PTL DEF Spec

----------------------------------------------------------------------------
(* Expiry is final                                                         *)

ExpiredRow(row) == row.result = "rollback_window_expired"

(* A refusal is on record only for a row whose window has passed, and no   *)
(* pod holds permission to reverse such a row: with one pod, permission    *)
(* given before the refusal has been used up before the refusal is given.  *)
ExpiryInv ==
  /\ \A i \in DOMAIN ledger : ExpiredRow(ledger[i]) =>
       ledger[i].ref \in DOMAIN ledger /\ Expired(ledger[ledger[i].ref])
  /\ \A p \in Pod :
       /\ At(p, "record") /\ ExpiredRow(work[p]) =>
            IsRollback(work[p].msg) /\ Expired(ledger[work[p].msg.target])
       /\ At(p, "patch") /\ IsRollback(work[p].msg) =>
            \A i \in DOMAIN ledger : ExpiredRow(ledger[i]) => ledger[i].ref # work[p].msg.target

LEMMA CalmSteps ==
  ASSUME TypeOK, TypeOK', [Next]_vars
  PROVE  \/ UNCHANGED <<work, patches>> /\ now <= now' /\ QuietLedger
         \/ \E p \in Pod : Deliver(p) \/ Handle(p) \/ Redeliver(p) \/ Raise(p)
<1>0. now \in Nat
  BY DEF TypeOK, ExecutorTypeOK
<1>1. CASE ExecutorNext
  BY <1>0, <1>1 DEF ExecutorNext, OperatorEdit, Autoscale, Tick, QuietLedger
<1>2. CASE Decide \/ Operate \/ Send \/ UNCHANGED vars
  <2>1. UNCHANGED <<work, patches, now>>
    BY <1>2 DEF Decide, Withhold, DispatchAutonomous, AwaitApproval, RedeliverAnomaly, Operate,
       Approve, RequestRollback, Send, Publish, Retry, PublishOrFail, PublishRaises, PublishLost, vars
  <2>2. ASSUME NEW p \in Pod, Record(p) PROVE FALSE
    BY <2>1, <2>2 DEF Record, Step, At, TypeOK, ExecutorTypeOK
  <2>. QED
    BY <1>0, <2>1, <2>2, LedgerStep
<1>. QED
  BY <1>1, <1>2 DEF Next

(* A window that has passed stays passed.                                  *)
LEMMA ExpiredStays ==
  ASSUME TypeOK, TypeOK', [Next]_vars, NEW i \in DOMAIN ledger, Expired(ledger[i]), now <= now'
  PROVE  i \in DOMAIN ledger' /\ Expired(ledger[i])'
<1>1. i \in DOMAIN ledger' /\ ledger'[i] = ledger[i]
  BY LedgerGrows
<1>2. ledger[i].at \in Nat /\ now \in Nat /\ now' \in Nat /\ RollbackWindow \in Nat
  BY RowType, ExecutorAssumption DEF Row, RowFields, TypeOK, ExecutorTypeOK
<1>. QED
  BY <1>1, <1>2 DEF Expired

LEMMA ExpiryStep ==
  ASSUME OnePod, TypeOK, TypeOK', ProvenanceInv, ExpiryInv, [Next]_vars
  PROVE  ExpiryInv'
<1> USE DEF At
<1>0. work \in [Pod -> Work] /\ now \in Nat
  BY DEF TypeOK, ExecutorTypeOK
<1>1. \A i \in DOMAIN ledger : i \in DOMAIN ledger' /\ ledger'[i] = ledger[i]
  BY LedgerGrows
<1>t. ASSUME NEW p \in Pod, ~At(p, "idle"), IsRollback(work[p].msg)
      PROVE  work[p].msg.target \in DOMAIN ledger
  BY <1>t, PodMessage DEF ProvenanceInv, Justified, Reversible
<1>2. ASSUME now' = now, ledger' = ledger
      PROVE  \A i \in DOMAIN ledger' : ExpiredRow(ledger'[i]) =>
               ledger'[i].ref \in DOMAIN ledger' /\ Expired(ledger[ledger[i].ref])'
  BY <1>2 DEF ExpiryInv, Expired
<1>3. CASE UNCHANGED <<work, patches>> /\ now <= now' /\ QuietLedger
  <2>1. ASSUME NEW i \in DOMAIN ledger', ExpiredRow(ledger'[i])
        PROVE  i \in DOMAIN ledger /\ ledger'[i] = ledger[i]
    BY <1>3, <2>1, QuietRows DEF ExpiredRow
  <2>2. ASSUME NEW i \in DOMAIN ledger', ExpiredRow(ledger'[i])
        PROVE  ledger'[i].ref \in DOMAIN ledger' /\ Expired(ledger[ledger[i].ref])'
    BY <1>1, <1>3, <2>1, <2>2, ExpiredStays DEF ExpiryInv, Expired
  <2>3. ASSUME NEW p \in Pod, At(p, "record"), ExpiredRow(work[p])
        PROVE  IsRollback(work[p].msg) /\ Expired(ledger[work[p].msg.target])'
    BY <1>1, <1>3, <1>t, <2>3, ExpiredStays DEF ExpiryInv, Expired
  <2>. QED
    BY <1>3, <2>1, <2>2, <2>3 DEF ExpiryInv, ExpiredRow
<1>4. ASSUME NEW p \in Pod, Gate(p) PROVE ExpiryInv'
  <2> DEFINE m == work[p].msg
  <2>1. /\ ledger' = ledger /\ now' = now /\ work'[p].msg = m
        /\ work'[p].pc = "patch" => IsRollback(m) /\ ~Expired(ledger[m.target])
        /\ work'[p].result = "rollback_window_expired" => IsRollback(m) /\ Expired(ledger[m.target])
    BY <1>0, <1>4 DEF Gate, AdmitRollback, AdmitRemedy, Conclude, Step
  <2>2. work'[p].pc = "patch" =>
          \A i \in DOMAIN ledger : ExpiredRow(ledger[i]) => ledger[i].ref # m.target
    BY <2>1 DEF ExpiryInv
  <2>3. ExpiredRow(work'[p]) => IsRollback(m) /\ Expired(ledger[m.target])'
    BY <2>1 DEF ExpiredRow, Expired
  <2>. QED
    BY <1>2, <2>1, <2>2, <2>3, OnlyPod DEF ExpiryInv, Expired
<1>5. ASSUME NEW p \in Pod,
             Deliver(p) \/ ReadDeployment(p) \/ ReadAutoscaler(p) \/ ApplyPatch(p)
               \/ Ack(p) \/ Redeliver(p) \/ Raise(p)
      PROVE  ExpiryInv'
  <2>1. ledger' = ledger /\ now' = now
    BY <1>5 DEF Deliver, ReadDeployment, ReadAutoscaler, ApplyPatch, Ack, Redeliver, Raise
  <2>2. ~(work'[p].pc = "record" /\ ExpiredRow(work'[p]))
    <3>1. CASE ApplyPatch(p)
      <4>1. work'[p].result = work[p].result /\ At(p, "patch")
        BY <1>0, <3>1 DEF ApplyPatch, Step
      <4>2. work[p].result # "rollback_window_expired"
        BY <4>1 DEF ProvenanceInv, PodInv, Consistent
      <4>. QED
        BY <4>1, <4>2 DEF ExpiredRow
    <3>. QED
      BY <1>0, <1>5, <3>1 DEF Deliver, ReadDeployment, ReadAutoscaler, Ack, Redeliver, Raise,
         CutOff, Conclude, Step, NoWork, ExpiredRow
  <2>3. ~(work'[p].pc = "patch" /\ IsRollback(work'[p].msg))
    BY <1>0, <1>5 DEF Deliver, ReadDeployment, ReadAutoscaler, ApplyPatch, Ack, Redeliver, Raise,
       CutOff, Conclude, Step, NoWork, IsRollback
  <2>. QED
    BY <1>2, <2>1, <2>2, <2>3, OnlyPod DEF ExpiryInv, Expired
<1>6. ASSUME NEW p \in Pod, Record(p) PROVE ExpiryInv'
  <2>1. now' = now /\ work'[p].pc = "ack" /\ At(p, "record")
    BY <1>0, <1>6 DEF Record, Step
  <2>2. ASSUME NEW i \in DOMAIN ledger', ExpiredRow(ledger'[i])
        PROVE  ledger'[i].ref \in DOMAIN ledger' /\ Expired(ledger[ledger[i].ref])'
    <3>1. CASE i \in DOMAIN ledger
      BY <1>1, <2>1, <2>2, <3>1 DEF ExpiryInv, Expired
    <3>2. CASE i \notin DOMAIN ledger
      <4>1. ledger'[i] = OutcomeRow(work[p])
        BY <1>6, <3>2, RecordedRows
      <4>2. ExpiredRow(work[p]) /\ ledger'[i].ref = work[p].msg.target
        BY <2>2, <4>1 DEF ExpiredRow, OutcomeRow
      <4>3. IsRollback(work[p].msg) /\ Expired(ledger[work[p].msg.target])
        BY <2>1, <4>2 DEF ExpiryInv
      <4>. QED
        BY <1>1, <1>t, <2>1, <4>2, <4>3 DEF Expired
    <3>. QED
      BY <3>1, <3>2
  <2>. QED
    BY <2>1, <2>2, OnlyPod DEF ExpiryInv, Expired
<1>. QED
  BY <1>3, <1>4, <1>5, <1>6, CalmSteps DEF Handle

(* With one executor pod, through every fault: once a rollback has been    *)
(* refused because its window has passed, no later request restores the    *)
(* row it was about.                                                       *)
THEOREM ExpiryHolds == OnePod => (Spec => ExpiredIsFinal)
<1> SUFFICES ASSUME OnePod PROVE Spec => ExpiredIsFinal
  OBVIOUS
<1> DEFINE Final == \A i \in DOMAIN ledger :
                      (/\ ledger[i].result = "rollback_window_expired"
                       /\ patches' # patches)
                      => LET q == patches'[Len(patches')] IN
                         q.undo => ledger[q.decision].ref # ledger[i].ref
<1>1. Init => ExpiryInv
  BY DEF Init, ExecutorInit, ExpiryInv, At, NoWork
<1>2. TypeOK /\ TypeOK' /\ ProvenanceInv /\ ExpiryInv /\ [Next]_vars => ExpiryInv'
  BY ExpiryStep
<1>3. TypeOK /\ TypeOK' /\ ProvenanceInv /\ ExpiryInv /\ [Next]_vars => [Final]_vars
  <2> SUFFICES ASSUME TypeOK, TypeOK', ProvenanceInv, ExpiryInv, [Next]_vars,
                      NEW p \in Pod, ApplyPatch(p)
               PROVE  Final
    BY PatchesStep
  <2> DEFINE d == work[p]
             q == [decision |-> d.msg.decision, service |-> d.prior.service, kind |-> d.prior.kind,
                   before |-> Field(cluster[d.prior.service], d.prior.kind), after |-> d.apply,
                   undo |-> IsRollback(d.msg), at |-> now]
  <2>1. patches' = Append(patches, q) /\ At(p, "patch") /\ patches \in Seq(Patch)
    BY DEF ApplyPatch, TypeOK, ExecutorTypeOK
  <2>2. patches'[Len(patches')] = q
    <3>1. q \in Patch
      BY <2>1, AppendedType DEF TypeOK, ExecutorTypeOK
    <3>. HIDE DEF q
    <3>. QED
      BY <2>1, <3>1
  <2>3. IsRollback(d.msg) => ledger[d.msg.decision].ref = d.msg.target
    BY <2>1, PodMessage DEF At, ProvenanceInv, Justified
  <2>4. IsRollback(d.msg) =>
          \A i \in DOMAIN ledger : ExpiredRow(ledger[i]) => ledger[i].ref # d.msg.target
    BY <2>1 DEF ExpiryInv
  <2>. QED
    BY <2>2, <2>3, <2>4 DEF ExpiredRow
<1>. QED
  BY ProvenanceHolds, <1>1, <1>2, <1>3, PTL DEF Spec, ExpiredIsFinal

----------------------------------------------------------------------------
(* Throttles never stack                                                   *)

(* Patches i and k of `log` throttle service s, and reverse a throttle.    *)
Throttles(log, i, s) ==
  i \in DOMAIN log /\ ~log[i].undo /\ log[i].kind = "cpu" /\ log[i].service = s
Loosens(log, k, s) ==
  k \in DOMAIN log /\ log[k].undo /\ log[k].kind = "cpu" /\ log[k].service = s

(* The latest throttle of s stands: nothing has reversed it.               *)
Standing(log, s) ==
  \E i \in DOMAIN log :
    Throttles(log, i, s) /\ \A k \in DOMAIN log : i <= k => ~Loosens(log, k, s)

NeverStack(log) ==
  \A i, j : \A s \in Service :
    Throttles(log, i, s) /\ Throttles(log, j, s) /\ i < j =>
      \E k \in i .. j : Loosens(log, k, s)

(* A standing throttle is still the limit in place, so a pod that found    *)
(* another limit acts on a workload with no throttle standing.             *)
StackInv ==
  /\ NeverStack(patches)
  /\ \A s \in Service : Standing(patches, s) => cluster[s].cpu = ThrottleLimit
  /\ \A p \in Pod : At(p, "patch") /\ ~IsRollback(work[p].msg) /\ work[p].prior.kind = "cpu" =>
       /\ work[p].apply = ThrottleLimit
       /\ cluster[work[p].prior.service].cpu # ThrottleLimit

(* What one more patch does to the history.                                *)
LEMMA StackAppend ==
  ASSUME NEW log \in Seq(Patch), NEW q \in Patch, NeverStack(log),
         ~q.undo /\ q.kind = "cpu" => ~Standing(log, q.service)
  PROVE  /\ NeverStack(Append(log, q))
         /\ \A s \in Service : Standing(Append(log, q), s) =>
              \/ ~q.undo /\ q.kind = "cpu" /\ q.service = s
              \/ Standing(log, s) /\ ~(q.kind = "cpu" /\ q.service = s)
<1> DEFINE n == Len(log) + 1
           log2 == Append(log, q)
<1>1. /\ n \in Nat /\ DOMAIN log2 = DOMAIN log \cup {n} /\ n \notin DOMAIN log /\ log2[n] = q
      /\ \A i \in DOMAIN log : i \in Nat /\ i < n /\ log2[i] = log[i]
  BY AppendFacts
<1>2. /\ \A i \in DOMAIN log : \A s : /\ Throttles(log2, i, s) <=> Throttles(log, i, s)
                                      /\ Loosens(log2, i, s) <=> Loosens(log, i, s)
      /\ \A s : /\ Throttles(log2, n, s) <=> ~q.undo /\ q.kind = "cpu" /\ q.service = s
                /\ Loosens(log2, n, s) <=> q.undo /\ q.kind = "cpu" /\ q.service = s
  BY <1>1 DEF Throttles, Loosens
<1>3. \A i, s : /\ Throttles(log2, i, s) => i \in DOMAIN log \cup {n}
                /\ Loosens(log2, i, s) => i \in DOMAIN log \cup {n}
                /\ Loosens(log, i, s) => i \in DOMAIN log
  BY <1>1 DEF Throttles, Loosens
<1>. HIDE DEF n, log2
<1>4. NeverStack(log2)
  <2>. SUFFICES ASSUME NEW i, NEW j, NEW s \in Service,
                       Throttles(log2, i, s), Throttles(log2, j, s), i < j
                PROVE  \E k \in i .. j : Loosens(log2, k, s)
    BY DEF NeverStack
  <2>1. i \in DOMAIN log
    <3>1. i = n => j \notin DOMAIN log \cup {n}
      BY <1>1
    <3>. QED
      BY <1>3, <3>1
  <2>2. CASE j \in DOMAIN log
    <3>1. PICK k \in i .. j : Loosens(log, k, s)
      BY <1>2, <2>1, <2>2 DEF NeverStack
    <3>. QED
      BY <1>2, <1>3, <3>1
  <2>3. CASE j = n
    <3>1. ~Standing(log, s)
      BY <1>2, <2>3
    <3>2. PICK k \in DOMAIN log : i <= k /\ Loosens(log, k, s)
      BY <1>2, <2>1, <3>1 DEF Standing
    <3>3. k \in i .. j
      BY <1>1, <2>1, <2>3, <3>2
    <3>. QED
      BY <1>2, <3>2, <3>3
  <2>. QED
    BY <1>3, <2>2, <2>3
<1>5. ASSUME NEW s \in Service, Standing(log2, s), ~(~q.undo /\ q.kind = "cpu" /\ q.service = s)
      PROVE  Standing(log, s) /\ ~(q.kind = "cpu" /\ q.service = s)
  <2>1. PICK i \in DOMAIN log2 :
          Throttles(log2, i, s) /\ \A k \in DOMAIN log2 : i <= k => ~Loosens(log2, k, s)
    BY <1>5 DEF Standing
  <2>2. i \in DOMAIN log
    BY <1>2, <1>3, <1>5, <2>1
  <2>3. i <= n
    BY <1>1, <2>2
  <2>4. ~Loosens(log2, n, s)
    BY <1>1, <2>1, <2>3
  <2>5. ~(q.kind = "cpu" /\ q.service = s)
    BY <1>2, <1>5, <2>4 DEF Patch
  <2>6. Standing(log, s)
    BY <1>1, <1>2, <2>1, <2>2 DEF Standing
  <2>. QED
    BY <2>5, <2>6
<1>. QED
  BY <1>4, <1>5 DEF log2

LEMMA StackStep ==
  ASSUME OnePod, Unedited, TypeOK, TypeOK', ProvenanceInv, StackInv, [Next]_vars
  PROVE  StackInv'
<1> USE DEF At
<1>0. /\ work \in [Pod -> Work] /\ cluster \in [Service -> Workload] /\ patches \in Seq(Patch)
  BY DEF TypeOK, ExecutorTypeOK
<1>1. ASSUME patches' = patches,
             \A s \in Service : cluster'[s].cpu = cluster[s].cpu
      PROVE  /\ NeverStack(patches')
             /\ \A s \in Service : Standing(patches', s) => cluster'[s].cpu = ThrottleLimit
  BY <1>1 DEF StackInv
<1>2. CASE Quiet
  <2>1. ASSUME NEW p \in Pod, At(p, "patch") PROVE work[p].prior.service \in Service
    BY <1>0, <2>1, BusyType DEF Snapshot
  <2>. QED
    BY <1>1, <1>2, <2>1 DEF Quiet, StackInv
<1>3. ASSUME NEW p \in Pod,
             Deliver(p) \/ Gate(p) \/ Record(p) \/ Ack(p) \/ Redeliver(p) \/ Raise(p)
      PROVE  StackInv'
  <2>1. UNCHANGED <<cluster, patches>> /\ ~(work'[p].pc = "patch" /\ ~IsRollback(work'[p].msg))
    BY <1>0, <1>3 DEF Deliver, Gate, AdmitRollback, AdmitRemedy, Record, Ack, Redeliver, Raise,
       CutOff, Conclude, Step, NoWork, IsRollback
  <2>. QED
    BY <1>1, <2>1, OnlyPod DEF StackInv
<1>4. ASSUME NEW p \in Pod, ReadDeployment(p) \/ ReadAutoscaler(p) PROVE StackInv'
  <2>1. /\ UNCHANGED <<cluster, patches>>
        /\ work'[p].pc = "patch" /\ work'[p].prior.kind = "cpu" =>
             work'[p].apply = ThrottleLimit /\ cluster[work'[p].prior.service].cpu # ThrottleLimit
    BY <1>0, <1>4 DEF ReadDeployment, ReadAutoscaler, Conclude, Step
  <2>. QED
    BY <1>1, <2>1, OnlyPod DEF StackInv
<1>5. ASSUME NEW p \in Pod, ApplyPatch(p) PROVE StackInv'
  <2> DEFINE d == work[p]
             q == [decision |-> d.msg.decision, service |-> d.prior.service, kind |-> d.prior.kind,
                   before |-> Field(cluster[d.prior.service], d.prior.kind), after |-> d.apply,
                   undo |-> IsRollback(d.msg), at |-> now]
  <2>1. /\ patches' = Append(patches, q) /\ work'[p].pc = "record" /\ At(p, "patch")
        /\ cluster' = [cluster EXCEPT ![d.prior.service] = WithField(@, d.prior.kind, d.apply)]
    BY <1>0, <1>5 DEF ApplyPatch, Step
  <2>2. q \in Patch /\ d.prior \in Snapshot
    BY <1>0, <2>1, AppendedType, BusyType DEF TypeOK, ExecutorTypeOK
  <2>3. \A s \in Service :
          /\ ~(q.kind = "cpu" /\ q.service = s) => cluster'[s].cpu = cluster[s].cpu
          /\ q.kind = "cpu" /\ q.service = s => cluster'[s].cpu = d.apply
    BY <1>0, <2>1, <2>2 DEF WithField, Workload, Snapshot
  <2>4. ~q.undo /\ q.kind = "cpu" =>
          d.apply = ThrottleLimit /\ cluster[q.service].cpu # ThrottleLimit /\ q.service \in Service
    BY <2>1, <2>2 DEF StackInv, Snapshot
  <2>. HIDE DEF q
  <2>5. ~q.undo /\ q.kind = "cpu" => ~Standing(patches, q.service)
    BY <2>4 DEF StackInv
  <2>6. NeverStack(patches)
    BY DEF StackInv
  <2>7. /\ NeverStack(patches')
        /\ \A s \in Service : Standing(patches', s) =>
             \/ ~q.undo /\ q.kind = "cpu" /\ q.service = s
             \/ Standing(patches, s) /\ ~(q.kind = "cpu" /\ q.service = s)
    BY <1>0, <2>1, <2>2, <2>5, <2>6, StackAppend
  <2>8. \A s \in Service : Standing(patches', s) => cluster'[s].cpu = ThrottleLimit
    BY <2>3, <2>4, <2>7 DEF StackInv
  <2>. QED
    BY <2>1, <2>7, <2>8, OnlyPod DEF StackInv
<1>. QED
  BY <1>2, <1>3, <1>4, <1>5, StepKinds DEF Handle

(* With one executor pod and no edits by hand, through every retry,        *)
(* redelivery, crash and click: between two throttles of a workload there  *)
(* is a reversal of a throttle.                                            *)
THEOREM StackHolds == OnePod /\ Unedited => (Spec => []ThrottlesNeverStack)
<1> SUFFICES ASSUME OnePod, Unedited PROVE Spec => []ThrottlesNeverStack
  OBVIOUS
<1>1. Init => StackInv
  BY DEF Init, ExecutorInit, StackInv, NeverStack, Throttles, Standing, At, NoWork
<1>2. TypeOK /\ TypeOK' /\ ProvenanceInv /\ StackInv /\ [Next]_vars => StackInv'
  BY StackStep
<1>3. TypeOK /\ StackInv => ThrottlesNeverStack
  <2> SUFFICES ASSUME TypeOK, StackInv PROVE ThrottlesNeverStack
    OBVIOUS
  <2>0. \A i \in DOMAIN patches : patches[i] \in Patch
    BY DEF TypeOK, ExecutorTypeOK
  <2>1. \A i \in DOMAIN patches : patches[i].service \in Service
    BY <2>0 DEF Patch
  <2>. QED
    BY <2>1 DEF StackInv, NeverStack, Throttles, Loosens, ThrottlesNeverStack, Remedies
<1>. QED
  BY ProvenanceHolds, <1>1, <1>2, <1>3, PTL DEF Spec
=============================================================================
