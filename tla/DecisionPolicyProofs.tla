------------------------ MODULE DecisionPolicyProofs ------------------------
(***************************************************************************)
(* Theorems about DecisionPolicy, for every set of policies, whatever      *)
(* their rules and however they are edited, every report, every window,    *)
(* and any faults.                                                         *)
(***************************************************************************)
EXTENDS DecisionPolicy, FiniteSetTheorems, SequenceTheorems, TLAPS

USE DecisionAssumption

----------------------------------------------------------------------------
(* Type correctness                                                        *)

(* A task carries what its next step needs: a class once it is classified, *)
(* and a row once it is to be recorded.                                    *)
Carries ==
  /\ task.pc \in {"annotate", "match", "record", "publish"} => task.class \in Verdict
  /\ At("record") => task.row \in DecisionRow

LEMMA TaskType ==
  ASSUME task \in Task \cup {NoTask}, ~At("idle")
  PROVE  task \in Task
BY DEF Task, NoTask, At

LEMMA DictType ==
  ASSUME NEW Keys, NEW d, IsDict(d, Keys), NEW k \in Keys, NEW t \in Nat
  PROVE  /\ IsDict(Put(d, k, t), Keys)
         /\ Get(d, k) \subseteq Nat
BY DEF IsDict, Put, Get

LEMMA EmptyDictType ==
  ASSUME NEW Keys
  PROVE  IsDict(EmptyDict, Keys)
BY DEF IsDict, EmptyDict

LEMMA RedeliveredType ==
  ASSUME TypeOK, ~At("idle")
  PROVE  <<task.anomaly>> \o inbox \in Seq(Anomaly)
<1>1. task.anomaly \in Anomaly
  BY TaskType DEF TypeOK, Task
<1>2. <<task.anomaly>> \in Seq(Anomaly)
  BY <1>1
<1>. QED
  BY <1>2, ConcatProperties DEF TypeOK

LEMMA WriterTypes ==
  ASSUME TypeOK, Carries, HandleLifecycle \/ HandleSecuritySignal
  PROVE  TypeOK' /\ Carries'
<1>1. CASE HandleLifecycle
  <2> DEFINE event == Head(lifecycle)
  <2>1. event \in LifecycleEvent /\ Tail(lifecycle) \in Seq(LifecycleEvent)
    BY <1>1, HeadTailProperties DEF HandleLifecycle, TypeOK
  <2>2. Key(event) \in Pod \cup Namespace /\ event.about \in Service
    BY <2>1 DEF Key, LifecycleEvent
  <2>3. /\ IsDict(Put(recent_events, Key(event), now), Pod \cup Namespace)
        /\ IsDict(Put(deployed, event.about, now), Service)
    BY <2>2, DictType DEF TypeOK
  <2>4. IsDict(recent_events', Pod \cup Namespace) /\ IsDict(deployed', Service)
    BY <1>1, <2>3 DEF HandleLifecycle, TypeOK
  <2>. QED
    BY <1>1, <2>1, <2>4 DEF HandleLifecycle, TypeOK, Carries, At, tables, history
<1>2. CASE HandleSecuritySignal
  <2>1. Head(security) \in Service /\ Tail(security) \in Seq(Service)
    BY <1>2, HeadTailProperties DEF HandleSecuritySignal, TypeOK
  <2>2. IsDict(recent_security', Service)
    BY <1>2, <2>1, DictType DEF HandleSecuritySignal, TypeOK
  <2>. QED
    BY <1>2, <2>1, <2>2 DEF HandleSecuritySignal, TypeOK, Carries, At, tables, history
<1>. QED
  BY <1>1, <1>2

LEMMA TakeType ==
  ASSUME TypeOK, Carries, Take
  PROVE  TypeOK' /\ Carries'
<1> DEFINE a == Head(inbox)
<1>1. a \in Anomaly /\ Tail(inbox) \in Seq(Anomaly)
  BY HeadTailProperties DEF Take, TypeOK
<1>2. Report[a].service \in Service
  BY <1>1 DEF ReportRow
<1>3. /\ Get(recent_security, Report[a].service) \subseteq Nat
      /\ Get(deployed, Report[a].service) \subseteq Nat
  BY <1>2, DictType DEF TypeOK
<1>4. task' \in Task /\ task'.pc = "security"
  BY <1>1, <1>3 DEF Take, Task
<1>5. deliveries' \in [Anomaly -> Nat]
  BY <1>1 DEF Take, TypeOK
<1>. QED
  BY <1>1, <1>4, <1>5 DEF Take, TypeOK, Carries, At, memory, tables

LEMMA ClassifyType ==
  ASSUME TypeOK, Carries, ReadSecurity \/ ReadDeployment \/ Annotate
  PROVE  TypeOK' /\ Carries'
<1>1. task \in Task
  BY TaskType DEF TypeOK, At, ReadSecurity, ReadDeployment, Annotate
<1>2. CASE ReadSecurity
  <2>1. task' \in Task /\ Carries'
    BY <1>1, <1>2 DEF ReadSecurity, Task, Carries, At, Verdict
  <2>. QED
    BY <1>2, <2>1 DEF ReadSecurity, TypeOK, queues, memory, tables, history
<1>3. CASE ReadDeployment
  <2>1. task' \in Task /\ Carries'
    BY <1>1, <1>3 DEF ReadDeployment, Task, Carries, At, Verdict
  <2>. QED
    BY <1>3, <2>1 DEF ReadDeployment, TypeOK, queues, memory, tables, history
<1>4. CASE Annotate
  <2>1. task' \in Task /\ Carries'
    BY <1>1, <1>4 DEF Annotate, Task, Carries, At
  <2>2. verdict' \in [Anomaly -> Verdict \cup {"unclassified"}]
    BY <1>1, <1>4 DEF Annotate, Task, TypeOK
  <2>. QED
    BY <1>4, <2>1, <2>2 DEF Annotate, TypeOK, queues, memory, history
<1>. QED
  BY <1>2, <1>3, <1>4

LEMMA RowForType ==
  ASSUME TypeOK, Carries, At("match"), NEW p \in policies
  PROVE  RowFor(p) \in DecisionRow
<1>1. task \in Task /\ task.class \in Verdict
  BY TaskType DEF TypeOK, At, Carries
<1>2. Rule[p].action \in Action
  BY DEF TypeOK, RuleRow
<1>3. Result(p) \in {"blocked_by_protected_floor", "alert_only_no_action_taken",
                     "alert_only_low_confidence", "pending_approval", "dispatched"}
  BY DEF Result
<1>. QED
  BY <1>1, <1>2, <1>3 DEF RowFor, DecisionRow, Task

LEMMA DecideType ==
  ASSUME TypeOK, Carries, Match \/ Record \/ Publish \/ Ack
  PROVE  TypeOK' /\ Carries'
<1>1. task \in Task
  BY TaskType DEF TypeOK, At, Match, Record, Publish, Ack
<1>2. CASE Match
  <2>1. CASE FirstMatch = {}
    <3>1. task' \in Task /\ Carries'
      BY <1>1, <1>2, <2>1 DEF Match, Task, Carries, At
    <3>. QED
      BY <1>2, <3>1 DEF Match, TypeOK, queues, memory, tables, history
  <2>2. ASSUME NEW p \in FirstMatch, task' = [task EXCEPT !.pc = "record", !.row = RowFor(p)]
        PROVE  TypeOK' /\ Carries'
    <3>1. p \in policies
      BY DEF FirstMatch
    <3>2. RowFor(p) \in DecisionRow
      BY <1>2, <3>1, RowForType DEF Match
    <3>3. task.class \in Verdict
      BY <1>2 DEF Match, At, Carries
    <3>4. task' \in Task /\ Carries'
      BY <1>1, <2>2, <3>2, <3>3 DEF Task, Carries, At
    <3>. QED
      BY <1>2, <3>4 DEF Match, TypeOK, queues, memory, tables, history
  <2>. QED
    BY <1>2, <2>1, <2>2 DEF Match
<1>3. CASE Record
  <2>1. task' \in Task /\ Carries'
    BY <1>1, <1>3 DEF Record, Task, Carries, At
  <2>2. rows' \in Seq(DecisionRow)
    BY <1>3, AppendProperties DEF Record, Carries, TypeOK
  <2>. QED
    BY <1>3, <2>1, <2>2 DEF Record, TypeOK, queues, memory, history
<1>4. CASE Publish
  <2>1. task' \in Task /\ Carries'
    BY <1>1, <1>4 DEF Publish, Task, Carries, At
  <2>2. sent' \subseteq Nat
    BY <1>4 DEF Publish, TypeOK
  <2>. QED
    BY <1>4, <2>1, <2>2 DEF Publish, TypeOK, queues, memory, history
<1>5. CASE Ack
  BY <1>5 DEF Ack, TypeOK, Carries, At, NoTask, queues, memory, tables, history
<1>. QED
  BY <1>2, <1>3, <1>4, <1>5

LEMMA FaultType ==
  ASSUME TypeOK, Carries, Raise \/ AckFails \/ Restart
  PROVE  TypeOK' /\ Carries'
<1>1. task' = NoTask /\ Carries'
  BY DEF Raise, AckFails, Restart, Carries, At, NoTask
<1>2. faults' \in Nat
  BY DEF Raise, AckFails, Restart, Fault, TypeOK
<1>3. CASE Raise
  <2>1. task.anomaly \in Anomaly
    BY <1>3, TaskType DEF Raise, At, TypeOK, Task
  <2>. QED
    BY <1>1, <1>2, <1>3, <2>1 DEF Raise, TypeOK, queues, memory, tables
<1>4. CASE AckFails
  <2>1. inbox' \in Seq(Anomaly)
    BY <1>4, RedeliveredType DEF AckFails, At
  <2>. QED
    BY <1>1, <1>2, <1>4, <2>1 DEF AckFails, TypeOK, memory, tables, history
<1>5. CASE Restart
  <2>1. inbox' \in Seq(Anomaly)
    BY <1>5, RedeliveredType DEF Restart, TypeOK
  <2>2. /\ IsDict(recent_events', Pod \cup Namespace) /\ IsDict(recent_security', Service)
        /\ IsDict(deployed', Service)
    BY <1>5, EmptyDictType DEF Restart
  <2>. QED
    BY <1>1, <1>2, <1>5, <2>1, <2>2 DEF Restart, TypeOK, tables, history
<1>. QED
  BY <1>3, <1>4, <1>5

LEMMA EnvironmentType ==
  ASSUME TypeOK, Carries, Observe \/ Signal \/ EditPolicies \/ Tick \/ UNCHANGED vars
  PROVE  TypeOK' /\ Carries'
<1>1. CASE Observe
  <2>1. lifecycle' \in Seq(LifecycleEvent)
    BY <1>1, AppendProperties DEF Observe, TypeOK
  <2>2. events' \in Nat
    BY <1>1 DEF Observe, Event, TypeOK
  <2>. QED
    BY <1>1, <2>1, <2>2 DEF Observe, TypeOK, Carries, At, memory, tables, history
<1>2. CASE Signal
  <2>1. security' \in Seq(Service)
    BY <1>2, AppendProperties DEF Signal, TypeOK
  <2>2. events' \in Nat
    BY <1>2 DEF Signal, Event, TypeOK
  <2>. QED
    BY <1>2, <2>1, <2>2 DEF Signal, TypeOK, Carries, At, memory, tables, history
<1>3. CASE EditPolicies
  <2>1. policies' \subseteq Policy
    BY <1>3 DEF EditPolicies, TypeOK
  <2>2. events' \in Nat
    BY <1>3 DEF EditPolicies, Event, TypeOK
  <2>. QED
    BY <1>3, <2>1, <2>2 DEF EditPolicies, TypeOK, Carries, At, queues, memory, history
<1>4. CASE Tick
  BY <1>4 DEF Tick, TypeOK, Carries, At, queues, memory, tables, history
<1>5. CASE UNCHANGED vars
  BY <1>5 DEF vars, TypeOK, Carries, At, queues, memory, tables, history
<1>. QED
  BY <1>1, <1>2, <1>3, <1>4, <1>5

LEMMA TypeStep ==
  ASSUME TypeOK, Carries, [Next]_vars
  PROVE  TypeOK' /\ Carries'
BY WriterTypes, TakeType, ClassifyType, DecideType, FaultType, EnvironmentType
   DEF Next, HandleAnomaly

LEMMA TypeInit == Init => TypeOK /\ Carries
<1> SUFFICES ASSUME Init PROVE TypeOK /\ Carries
  OBVIOUS
<1>1. /\ << >> \in Seq(LifecycleEvent) /\ << >> \in Seq(Service) /\ << >> \in Seq(DecisionRow)
  BY EmptySeq
<1>2. inbox \in Seq(Anomaly)
  BY FS_CardinalityType DEF Init
<1>3. verdict \in [Anomaly -> Verdict \cup {"unclassified"}] /\ deliveries \in [Anomaly -> Nat]
  BY DEF Init
<1>4. /\ IsDict(recent_events, Pod \cup Namespace) /\ IsDict(recent_security, Service)
      /\ IsDict(deployed, Service)
  BY EmptyDictType DEF Init
<1>5. Carries
  BY DEF Init, Carries, At, NoTask
<1>. QED
  BY <1>1, <1>2, <1>3, <1>4, <1>5 DEF Init, TypeOK

(* Every reachable state is well typed, and a task that is to be annotated *)
(* or recorded has a class or a row to be annotated or recorded with.      *)
THEOREM TypeCorrect == Spec => [](TypeOK /\ Carries)
<1>1. TypeOK /\ Carries /\ [Next]_vars => (TypeOK /\ Carries)'
  BY TypeStep
<1>. QED
  BY TypeInit, <1>1, PTL DEF Spec

----------------------------------------------------------------------------
(* Security outranks deployment correlation                                *)

(* SecurityOutranksDeployment is not inductive: at "deployment" the class  *)
(* is still open.  What carries it is that the dict the thread reads is    *)
(* never older than what it held at delivery (it is overwritten with later *)
(* times, and emptied only by a restart, which ends the task as well), so  *)
(* that a signal within its window at delivery and at the read is seen.    *)
SignalInv ==
  /\ \A s \in DOMAIN recent_security : recent_security[s] <= now
  /\ At("security") => \A t \in task.signalled :
       /\ ServiceOfTask \in DOMAIN recent_security
       /\ t <= recent_security[ServiceOfTask]
  /\ At("deployment") => ~Recent(task.signalled, SecurityWindow)
  /\ SecurityOutranksDeployment

(* A time outside its window stays outside as the clock advances.          *)
LEMMA NotRecentStays ==
  ASSUME now \in Nat, now' \in Nat, now <= now', NEW times \in SUBSET Nat,
         ~Recent(times, SecurityWindow)
  PROVE  \A t \in times : ~(now' <= t + SecurityWindow)
BY DEF Recent

LEMMA SignalStep ==
  ASSUME TypeOK, TypeOK', Carries, SignalInv, [Next]_vars
  PROVE  SignalInv'
<1> USE DEF At, ServiceOfTask
<1>0. /\ now \in Nat /\ now' \in Nat /\ now <= now'
      /\ recent_security \in [DOMAIN recent_security -> Nat]
  <2>1. now' = now \/ now' = now + 1
    BY DEF Next, HandleLifecycle, HandleSecuritySignal, HandleAnomaly, Take,
       ReadSecurity, ReadDeployment, Annotate, Match, Record, Publish, Ack, Raise, AckFails,
       Restart, Observe, Signal, EditPolicies, Tick, vars
  <2>2. now \in Nat /\ now' \in Nat
    BY DEF TypeOK
  <2>3. recent_security \in [DOMAIN recent_security -> Nat]
    BY DEF TypeOK, IsDict
  <2>. QED
    BY <2>1, <2>2, <2>3
<1>1. ASSUME UNCHANGED task, ~At("idle")
      PROVE  Recent(task.signalled, SecurityWindow)' => Recent(task.signalled, SecurityWindow)
  <2>1. task.signalled \in SUBSET Nat
    BY <1>1, TaskType DEF TypeOK, Task
  <2>. QED
    BY <1>0, <1>1, <2>1 DEF Recent
<1>2. ASSUME UNCHANGED <<task, recent_security>> PROVE SignalInv'
  BY <1>0, <1>1, <1>2 DEF SignalInv, SecurityOutranksDeployment
<1>3. CASE HandleSecuritySignal
  <2>1. UNCHANGED <<task, now>>
    BY <1>3 DEF HandleSecuritySignal
  <2>2. \A s \in DOMAIN recent_security' : recent_security'[s] <= now'
    BY <1>0, <1>3, <2>1 DEF HandleSecuritySignal, Put, SignalInv
  <2>3. \A s \in DOMAIN recent_security :
          s \in DOMAIN recent_security' /\ recent_security[s] <= recent_security'[s]
    BY <1>0, <1>3 DEF HandleSecuritySignal, Put, SignalInv
  <2>4. ASSUME At("security") PROVE task.signalled \in SUBSET Nat
    BY <2>4, TaskType DEF TypeOK, Task
  <2>5. ASSUME At("security"), NEW t \in task.signalled
        PROVE  /\ ServiceOfTask \in DOMAIN recent_security'
               /\ t <= recent_security'[ServiceOfTask]
    <3>1. ServiceOfTask \in DOMAIN recent_security /\ t <= recent_security[ServiceOfTask]
      BY <2>5 DEF SignalInv
    <3>2. recent_security'[ServiceOfTask] \in Nat
      BY <2>3, <3>1 DEF TypeOK, IsDict
    <3>. QED
      BY <1>0, <2>3, <2>4, <2>5, <3>1, <3>2
  <2>. QED
    BY <1>0, <1>1, <2>1, <2>2, <2>5 DEF SignalInv, SecurityOutranksDeployment
<1>4. CASE Take
  BY <1>0, <1>4 DEF Take, memory, Get, SignalInv, SecurityOutranksDeployment
<1>5. CASE ReadSecurity
  <2>1. UNCHANGED <<recent_security, now>> /\ task \in Task
    BY <1>5, TaskType DEF ReadSecurity, memory, TypeOK
  <2>2. CASE task'.pc = "annotate" /\ task'.class \in {"legitimate_traffic_growth", "suspected_abuse"}
    BY <2>1, <2>2 DEF SignalInv, SecurityOutranksDeployment
  <2>3. CASE /\ ~Recent(Get(recent_security, ServiceOfTask), SecurityWindow)
             /\ task' = [task EXCEPT !.pc = "deployment"]
    <3>1. task.signalled \in SUBSET Nat
      BY <2>1 DEF Task
    <3>2. \A t \in task.signalled : ~(now <= t + SecurityWindow)
      BY <1>0, <1>5, <2>3, <3>1 DEF ReadSecurity, SignalInv, Recent, Get
    <3>3. task'.signalled = task.signalled /\ task'.class = task.class /\ task'.pc = "deployment"
      BY <2>1, <2>3 DEF Task
    <3>. QED
      BY <2>1, <3>2, <3>3 DEF SignalInv, SecurityOutranksDeployment, Recent
  <2>. QED
    BY <1>5, <2>1, <2>2, <2>3 DEF ReadSecurity, Task
<1>6. CASE ReadDeployment \/ Annotate \/ Match \/ Record \/ Publish
  <2>1. UNCHANGED <<recent_security, now>> /\ task \in Task
    BY <1>6, TaskType DEF ReadDeployment, Annotate, Match, Record, Publish, memory, TypeOK
  <2>2. /\ task'.signalled = task.signalled
        /\ task'.pc \in {"annotate", "match", "record", "publish", "ack"}
        /\ ~At("deployment") => task'.class = task.class
    BY <1>6, <2>1 DEF ReadDeployment, Annotate, Match, Record, Publish, Task
  <2>3. At("deployment") => ~Recent(task.signalled, SecurityWindow)
    BY DEF SignalInv
  <2>. QED
    BY <1>6, <2>1, <2>2, <2>3 DEF SignalInv, SecurityOutranksDeployment, Recent,
       ReadDeployment, Annotate, Match, Record, Publish
<1>7. CASE Ack \/ Raise \/ AckFails \/ Restart
  <2>1. /\ task' = NoTask /\ now' = now
        /\ recent_security' \in {recent_security, EmptyDict}
    BY <1>7 DEF Ack, Raise, AckFails, Restart, memory
  <2>. QED
    BY <2>1 DEF NoTask, EmptyDict, SignalInv, SecurityOutranksDeployment
<1>8. CASE HandleLifecycle \/ Observe \/ Signal \/ EditPolicies \/ Tick \/ UNCHANGED vars
  BY <1>2, <1>8 DEF HandleLifecycle, Observe, Signal, EditPolicies, Tick, vars, memory
<1>. QED
  BY <1>3, <1>4, <1>5, <1>6, <1>7, <1>8 DEF Next, HandleAnomaly

(* A signal the process had handled when an anomaly was delivered, and     *)
(* that is still in its window, is never explained away, for any windows   *)
(* and however the three threads, restarts and redeliveries interleave.    *)
THEOREM SecurityOutranks == Spec => []SecurityOutranksDeployment
<1>1. Init => SignalInv
  BY DEF Init, SignalInv, EmptyDict, At, NoTask, SecurityOutranksDeployment
<1>2. /\ TypeOK /\ Carries /\ (TypeOK /\ Carries)' /\ SignalInv /\ [Next]_vars
      => SignalInv'
  BY SignalStep
<1>3. SignalInv => SecurityOutranksDeployment
  BY DEF SignalInv
<1>. QED
  BY TypeCorrect, <1>1, <1>2, <1>3, PTL DEF Spec

----------------------------------------------------------------------------
(* The contract                                                            *)

(* How many decisions the ledger holds on an anomaly.                      *)
Decisions(a) == Cardinality(Contract!DecisionsOn(a))

(* What makes each append one the contract permits: a delivery that has    *)
(* not been decided on yet leaves room for one more decision, a movement   *)
(* traffic explains never gets as far as a policy, and the class a row     *)
(* names is still the stored one when the row is appended.                 *)
ContractInv ==
  /\ \A a \in Anomaly : Decisions(a) <= deliveries[a]
  /\ task.pc \in {"security", "deployment", "annotate", "match", "record"} =>
       Decisions(task.anomaly) < deliveries[task.anomaly]
  /\ At("deployment") => ~Report[task.anomaly].explained
  /\ At("annotate") /\ task.class # "legitimate_traffic_growth" =>
       ~Report[task.anomaly].explained
  /\ At("match") \/ At("record") =>
       ~Report[task.anomaly].explained /\ verdict[task.anomaly] = task.class
  /\ At("record") =>
       /\ task.row.anomaly = task.anomaly /\ task.row.because = task.class
       /\ Contract!Permitted(task.row)
  /\ At("publish") => rows # << >> /\ rows[Len(rows)].result = "dispatched"

LEMMA DecisionsFinite ==
  ASSUME NEW a, rows \in Seq(DecisionRow)
  PROVE  IsFiniteSet(Contract!DecisionsOn(a)) /\ Decisions(a) \in Nat
<1>1. DOMAIN rows = 1 .. Len(rows) /\ Len(rows) \in Nat
  BY LenProperties
<1>2. IsFiniteSet(DOMAIN rows)
  BY <1>1, FS_Interval
<1>3. IsFiniteSet(Contract!DecisionsOn(a))
  BY <1>2, FS_Subset DEF Contract!DecisionsOn
<1>. QED
  BY <1>3, FS_CardinalityType DEF Decisions

LEMMA OneMoreDecision ==
  ASSUME rows \in Seq(DecisionRow), NEW row \in DecisionRow, rows' = Append(rows, row),
         NEW a
  PROVE  Decisions(a)' = Decisions(a) + (IF row.anomaly = a THEN 1 ELSE 0)
<1>1. /\ Len(rows) \in Nat /\ DOMAIN rows = 1 .. Len(rows)
      /\ DOMAIN rows' = 1 .. Len(rows) + 1
      /\ \A i \in 1 .. Len(rows) : rows'[i] = rows[i]
      /\ rows'[Len(rows) + 1] = row
  BY AppendProperties
<1>2. CASE row.anomaly = a
  <2>1. Contract!DecisionsOn(a)' = Contract!DecisionsOn(a) \cup {Len(rows) + 1}
    BY <1>1, <1>2 DEF Contract!DecisionsOn
  <2>2. Len(rows) + 1 \notin Contract!DecisionsOn(a)
    BY <1>1 DEF Contract!DecisionsOn
  <2>. QED
    BY <1>2, <2>1, <2>2, DecisionsFinite, FS_AddElement DEF Decisions
<1>3. CASE row.anomaly # a
  <2>1. Contract!DecisionsOn(a)' = Contract!DecisionsOn(a)
    BY <1>1, <1>3 DEF Contract!DecisionsOn
  <2>. QED
    BY <1>3, <2>1, DecisionsFinite DEF Decisions
<1>. QED
  BY <1>2, <1>3

(* What Result(p) says is within the authority the contract gives.         *)
LEMMA ResultPermitted ==
  ASSUME TypeOK, Carries, ContractInv, At("match"), NEW p \in policies
  PROVE  Contract!Permitted(RowFor(p))
<1>1. ~Report[task.anomaly].explained
  BY DEF ContractInv
<1>2. \A n : Contract!Authority(n) \in {"autonomous", "approval", "alert_only"}
  BY DEF Contract!Authority
<1>. QED
  BY <1>1, <1>2 DEF Contract!Permitted, RowFor, Result

(* A step of the anomaly thread that leaves the ledger and the deliveries  *)
(* alone keeps the counts.                                                 *)
LEMMA CountsStay ==
  ASSUME ContractInv, UNCHANGED <<rows, deliveries>>
  PROVE  /\ \A a \in Anomaly : (Decisions(a) <= deliveries[a])'
         /\ \A a : Decisions(a)' = Decisions(a)
BY DEF ContractInv, Decisions, Contract!DecisionsOn

LEMMA ContractStep ==
  ASSUME TypeOK, TypeOK', Carries, ContractInv, [Next]_vars
  PROVE  ContractInv'
<1> USE DEF At
<1>1. ASSUME UNCHANGED <<task, verdict, rows, deliveries>> PROVE ContractInv'
  BY <1>1, CountsStay DEF ContractInv
<1>2. CASE Take
  <2>1. Head(inbox) \in Anomaly
    BY <1>2, HeadTailProperties DEF Take, TypeOK
  <2>2. task'.pc = "security" /\ task'.anomaly = Head(inbox) /\ UNCHANGED rows
    BY <1>2 DEF Take, tables
  <2>3. \A a \in Anomaly : /\ Decisions(a)' = Decisions(a) /\ Decisions(a) \in Nat
                            /\ deliveries[a] \in Nat /\ Decisions(a) <= deliveries[a]
    BY <2>2, DecisionsFinite DEF Decisions, Contract!DecisionsOn, TypeOK, ContractInv
  <2>4. \A a \in Anomaly :
          deliveries'[a] = IF a = Head(inbox) THEN deliveries[a] + 1 ELSE deliveries[a]
    BY <1>2 DEF Take, TypeOK
  <2>. QED
    BY <2>1, <2>2, <2>3, <2>4 DEF ContractInv
<1>3. CASE ReadSecurity \/ ReadDeployment
  <2>1. UNCHANGED <<verdict, rows, deliveries>> /\ task \in Task
    BY <1>3, TaskType DEF ReadSecurity, ReadDeployment, tables, history, TypeOK
  <2>2. /\ task'.anomaly = task.anomaly
        /\ task'.pc \in {"deployment", "annotate"}
        /\ task'.pc = "deployment" \/ task'.class # "legitimate_traffic_growth" =>
             ~Report[task.anomaly].explained
    BY <1>3, <2>1 DEF ReadSecurity, ReadDeployment, Task, ContractInv
  <2>3. Decisions(task.anomaly) < deliveries[task.anomaly]
    BY <1>3 DEF ReadSecurity, ReadDeployment, ContractInv
  <2>. QED
    BY <2>1, <2>2, <2>3, CountsStay DEF ContractInv
<1>4. CASE Annotate
  <2>1. UNCHANGED <<rows, deliveries>> /\ task \in Task /\ task.anomaly \in Anomaly
    BY <1>4, TaskType DEF Annotate, history, TypeOK, Task
  <2>2. /\ task'.anomaly = task.anomaly /\ task'.class = task.class
        /\ task'.pc \in {"match", "ack"}
        /\ task'.pc = "match" => ~Report[task.anomaly].explained
        /\ verdict'[task.anomaly] = task.class
    BY <1>4, <2>1 DEF Annotate, Task, ContractInv, TypeOK
  <2>3. Decisions(task.anomaly) < deliveries[task.anomaly]
    BY <1>4 DEF Annotate, ContractInv
  <2>. QED
    BY <2>1, <2>2, <2>3, CountsStay DEF ContractInv
<1>5. CASE Match
  <2>1. UNCHANGED <<verdict, rows, deliveries>> /\ task \in Task
    BY <1>5, TaskType DEF Match, tables, history, TypeOK
  <2>2. CASE task' = [task EXCEPT !.pc = "ack"]
    BY <2>1, <2>2, CountsStay DEF ContractInv, Task
  <2>3. ASSUME NEW p \in FirstMatch, task' = [task EXCEPT !.pc = "record", !.row = RowFor(p)]
        PROVE  ContractInv'
    <3>1. Contract!Permitted(RowFor(p))
      BY <1>5, ResultPermitted DEF Match, FirstMatch
    <3>2. /\ task'.pc = "record" /\ task'.anomaly = task.anomaly /\ task'.class = task.class
          /\ task'.row = RowFor(p)
      BY <2>1, <2>3 DEF Task
    <3>3. RowFor(p).anomaly = task.anomaly /\ RowFor(p).because = task.class
      BY DEF RowFor
    <3>4. Contract!Permitted(task.row)'
      BY <3>1, <3>2 DEF Contract!Permitted
    <3>. QED
      BY <1>5, <2>1, <3>2, <3>3, <3>4, CountsStay DEF Match, ContractInv
  <2>. QED
    BY <1>5, <2>2, <2>3 DEF Match
<1>6. CASE Record
  <2>1. /\ UNCHANGED deliveries /\ task \in Task /\ task.anomaly \in Anomaly
        /\ task.row \in DecisionRow /\ task.row.anomaly = task.anomaly
    BY <1>6, TaskType DEF Record, history, TypeOK, Task, Carries, ContractInv
  <2>2. \A a \in Anomaly :
          Decisions(a)' = Decisions(a) + (IF task.anomaly = a THEN 1 ELSE 0)
    BY <1>6, <2>1, OneMoreDecision DEF Record, TypeOK
  <2>3. \A a \in Anomaly : Decisions(a) \in Nat /\ deliveries[a] \in Nat
    BY DecisionsFinite DEF TypeOK
  <2>4. Decisions(task.anomaly) < deliveries[task.anomaly]
    BY <1>6 DEF Record, ContractInv
  <2>5. \A a \in Anomaly : (Decisions(a) <= deliveries[a])'
    BY <2>1, <2>2, <2>3, <2>4 DEF ContractInv
  <2>6. task'.pc \in {"publish", "ack"}
        /\ (task'.pc = "publish" => task.row.result = "dispatched")
    BY <1>6, <2>1 DEF Record, Task
  <2>7. rows' # << >> /\ rows'[Len(rows')] = task.row
    <3>1. rows' = Append(rows, task.row) /\ rows \in Seq(DecisionRow) /\ task.row \in DecisionRow
      BY <1>6, <2>1 DEF Record, TypeOK
    <3>. QED
      BY <3>1, AppendProperties
  <2>. QED
    BY <2>5, <2>6, <2>7 DEF ContractInv
<1>7. CASE Publish
  <2>1. UNCHANGED <<verdict, rows, deliveries>> /\ task'.pc = "ack"
    BY <1>7, TaskType DEF Publish, history, TypeOK, Task
  <2>. QED
    BY <2>1, CountsStay DEF ContractInv
<1>8. CASE Ack \/ Raise \/ AckFails \/ Restart
  <2>1. UNCHANGED <<verdict, rows, deliveries>> /\ task'.pc = "idle"
    BY <1>8 DEF Ack, Raise, AckFails, Restart, tables, history, NoTask
  <2>. QED
    BY <2>1, CountsStay DEF ContractInv
<1>9. CASE HandleLifecycle \/ HandleSecuritySignal \/ Observe \/ Signal \/ EditPolicies
           \/ Tick \/ UNCHANGED vars
  BY <1>1, <1>9 DEF HandleLifecycle, HandleSecuritySignal, Observe, Signal, EditPolicies, Tick,
     vars, tables, history
<1>. QED
  BY <1>2, <1>3, <1>4, <1>5, <1>6, <1>7, <1>8, <1>9 DEF Next, HandleAnomaly

LEMMA ContractInit == Init => ContractInv
<1> SUFFICES ASSUME Init PROVE ContractInv
  OBVIOUS
<1>1. \A a : Contract!DecisionsOn(a) = {}
  BY DEF Init, Contract!DecisionsOn
<1>2. \A a : Decisions(a) = 0
  BY <1>1, FS_EmptySet DEF Decisions
<1>. QED
  BY <1>2 DEF Init, ContractInv, At, NoTask

(* Each step is one of the contract's, or none of its business.            *)
LEMMA ContractSimulation ==
  ASSUME TypeOK, TypeOK', Carries, ContractInv, [Next]_vars
  PROVE  [Contract!Next]_<<deliveries, verdict, rows, sent>>
<1> USE DEF At
<1>1. CASE Take
  <2>1. Head(inbox) \in Anomaly
    BY <1>1, HeadTailProperties DEF Take, TypeOK
  <2>2. Contract!Deliver
    BY <1>1, <2>1 DEF Take, tables, Contract!Deliver
  <2>. QED
    BY <2>2 DEF Contract!Next
<1>2. CASE Annotate
  <2>1. task.anomaly \in Anomaly /\ task.class \in Contract!Verdict
    BY <1>2, TaskType DEF Annotate, TypeOK, Task, Carries, Verdict, Contract!Verdict
  <2>2. Contract!Classify
    BY <1>2, <2>1 DEF Annotate, history, Contract!Classify
  <2>. QED
    BY <2>2 DEF Contract!Next
<1>3. CASE Record
  <2>1. task.row \in DecisionRow
    BY <1>3 DEF Record, Carries
  <2> DEFINE row == rows'[Len(rows) + 1]
  <2>2. rows' = Append(rows, row) /\ Len(rows') = Len(rows) + 1 /\ row = task.row
    <3>1. rows' = Append(rows, task.row) /\ rows \in Seq(DecisionRow)
      BY <1>3 DEF Record, TypeOK
    <3>. QED
      BY <2>1, <3>1, AppendProperties
  <2>3. /\ Contract!Permitted(row) /\ row.because = verdict[row.anomaly]
        /\ Cardinality(Contract!DecisionsOn(row.anomaly)) < deliveries[row.anomaly]
    BY <1>3, <2>2 DEF Record, ContractInv, Decisions
  <2>4. UNCHANGED <<deliveries, verdict, sent>>
    BY <1>3 DEF Record, history
  <2>5. \A S : Contract!Cardinality(S) = Cardinality(S)
    BY Zenon DEF Cardinality, Contract!Cardinality
  <2>6. Contract!Decide
    BY <2>2, <2>3, <2>4, <2>5 DEF Contract!Decide
  <2>. QED
    BY <2>6 DEF Contract!Next
<1>4. CASE Publish
  <2>1. Len(rows) \in DOMAIN rows /\ rows[Len(rows)].result = "dispatched"
    <3>1. rows # << >> /\ rows[Len(rows)].result = "dispatched"
      BY <1>4 DEF Publish, ContractInv
    <3>2. rows \in Seq(DecisionRow)
      BY DEF TypeOK
    <3>. QED
      BY <3>1, <3>2
  <2>2. Contract!Request
    BY <1>4, <2>1 DEF Publish, history, Contract!Request
  <2>. QED
    BY <2>2 DEF Contract!Next
<1>5. CASE ReadSecurity \/ ReadDeployment \/ Match \/ Ack \/ Raise \/ AckFails \/ Restart
  BY <1>5 DEF ReadSecurity, ReadDeployment, Match, Ack, Raise, AckFails, Restart, tables, history
<1>6. CASE HandleLifecycle \/ HandleSecuritySignal \/ Observe \/ Signal \/ EditPolicies
           \/ Tick \/ UNCHANGED vars
  BY <1>6 DEF HandleLifecycle, HandleSecuritySignal, Observe, Signal, EditPolicies, Tick,
     vars, tables, history
<1>. QED
  BY <1>1, <1>2, <1>3, <1>4, <1>5, <1>6 DEF Next, HandleAnomaly

(* The engine implements its contract for any policies, however they are   *)
(* edited while an anomaly is handled, any confidences and any faults.     *)
THEOREM ContractKept == Spec => KeepsContract
<1>1. Init => Contract!Init
  BY DEF Init, Contract!Init
<1>2. /\ TypeOK /\ Carries /\ (TypeOK /\ Carries)' /\ ContractInv /\ [Next]_vars
      => ContractInv'
  BY ContractStep
<1>3. /\ TypeOK /\ Carries /\ (TypeOK /\ Carries)' /\ ContractInv /\ [Next]_vars
      => [Contract!Next]_<<deliveries, verdict, rows, sent>>
  BY ContractSimulation
<1>. QED
  BY TypeCorrect, ContractInit, <1>1, <1>2, <1>3, PTL DEF Spec, KeepsContract, Contract!Spec
=============================================================================
