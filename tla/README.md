# HyperTrace: specification, model checking and proofs

HyperTrace watches the cost of Kubernetes workloads, flags the ones whose cost
moved without a reason, decides what may be done about them, and does it: it
caps a Deployment's CPU or pins an autoscaler's ceiling. Each step is a Python
service of its own; they talk through one RabbitMQ topic exchange and share one
PostgreSQL database. This directory specifies the path from a node's pods to a
patched workload and back to the person who approves it: observation, detection,
decision, remediation, the audit ledger, the dashboard's incident panel with its
live feed, and the messaging client they all stand on.

    collector ─metric─▶ cost-intelligence ─cost─▶ behaviour-analysis ─anomaly.flagged─▶ decision-policy
    traffic-adapter ─traffic─────────────────────▶       │                              ▲   │      │
    security-signal-adapter ─security─────────────────────┼──────────────────────────────┘   │      │ remediation.requested
    collector ─lifecycle──────────────────────────────────┼──────────────────────────────────┘      ▼
                                              anomalies, baselines, policies          remediation-executor ─▶ Kubernetes
    dashboard ─HTTP─▶ api-bff ── approve / rollback ── actions_log (append-only) ◀───────┘

## Inventory

| Component | State it keeps | Operations | What makes it correct |
|---|---|---|---|
| remediation-executor (`main.py`, `k8s_actions.py`) | none of its own: the ledger, the workloads' specs, the message in hand | handle a request: floor, limits, read, patch, record, ack; roll back within a deadline | nothing protected is patched; the rolling limits hold; each patch can be reconstructed and reversed |
| audit ledger (`infra/sql/init.sql`) | `actions_log`, append-only | append | rows tell the truth about the cluster, no decision is left in the air |
| api-bff, approve and rollback (`main.py`) | one RabbitMQ client shared by its request threads | append `dispatched`, publish, append `dispatch_failed` | a human's approval precedes a remedy that needs it; a failed publish leaves no work implied |
| decision-policy (`main.py`, `policy.py`, `authority.py`) | `_recent_events`, `_recent_security`; the anomaly's classification; its rows in the ledger | two threads record events, one classifies, matches policies, records and dispatches | policies narrow authority and never widen it; security outranks deployment; the trail explains the decision |
| behaviour-analysis (`main.py`, `stats.py`, `confidence.py`) | baselines (in the database), `_traffic_z` (in memory), anomalies | two threads score traffic and cost, learn, count dwell, raise incidents | the baseline is neither poisoned nor frozen; dwell and traffic decide; confidence grants no more than it has evidence for |
| messaging client (`shared/.../messaging.py`) | `_connection`, `_channel`, the backoff | publish with one retry, consume with reconnect, close | at-least-once; a dead connection is not the caller's problem; the consumer never dies |
| api-bff, alert stream (`alert_stream.py`, the WebSocket endpoint) | `_subscribers`, one bounded queue per session, the loop's callbacks | consume on a thread, hop to the event loop, fan out, send | a slow tab loses its own newest alerts and nobody else's; the feed never stops; sessions do not pile up |
| dashboard, incident panel (`Incidents.tsx`, `api.ts`) | `anomalies`, `actions`, `busy`, the view | poll, merge a live alert, derive buttons from the ledger, approve, roll back | a button is only offered for what the ledger calls for; nothing that waits stays hidden by an alert; old answers do not stay |
| collector (`main.py`, `workload_resolver.py`) | the resolver's cache | fetch, resolve, publish, prune | a sample is booked under the pod's own workload; a failed cycle costs one interval; the cache forgets |
| cost-intelligence, traffic and security adapters | none | translate, poll, publish | modelled by their output only |

The behaviours that are hard to test are all between these parts. The ledger
and the broker are different systems, so each service commits a row and then
publishes, and can die or fail in between. Handlers acknowledge after they are
done, so anything they did before a crash is done again. Exceptions drop the
message. Three clocks matter: the limiter's windows, the rollback deadline and
the windows of correlation. `PROJECT.json` lists every such hazard at its line,
with the property that would catch it.

## Modules

| Module | Models | Proofs |
|---|---|---|
| `AuditTrail` | abstract: what the ledger promises its readers | |
| `Ledger` | the rows of `actions_log` and the queries on them | |
| `Executor` (extends `Ledger`) | remediation-executor's handler, the workloads, faults | |
| `Remediation` (extends `Executor`) | the loop: decision-policy's and api-bff's decisions, the outbox, the queue, the executor; implements `AuditTrail` | `RemediationProofs`, `RemediationHistoryProofs` |
| `Incidents` (extends `AuditTrail`) | the dashboard's incident panel and the api-bff handlers behind it | `IncidentsProofs` |
| `AlertStream` | api-bff's live feed, from the consumer thread to the browsers | `AlertStreamProofs` |
| `Collection` | the collector's cycle and its `WorkloadResolver` | `CollectionProofs` |
| `DecisionContract` | abstract: what decision-policy promises | |
| `DecisionPolicy` | decision-policy's three threads, policies edited meanwhile; implements `DecisionContract` | `DecisionPolicyProofs` |
| `Detector` | behaviour-analysis' two threads and its tables | `DetectorProofs` |
| `Delivery` | abstract: at-least-once delivery | |
| `Messaging` | `RabbitMQClient` against a failing broker; implements `Delivery` | `MessagingProofs` |
| `MCRemediation`, `MCDecisionPolicy`, `MCDetector`, `MCIncidents`, `MCCollection` | instances for TLC (`Messaging` and `AlertStream` are instantiated by their cfg files alone) | |

How they compose: `Remediation` is the executor, the two producers of decisions,
the broker and the ledger in one state machine. What it writes is, by
refinement, an `AuditTrail`; `Incidents` puts the panel on top of that abstract
trail instead of the whole loop, so it holds of anything that writes such a
trail. `Incidents` takes live alerts in any order, late and repeated or never;
`AlertStream` says what the feed does deliver. `DecisionPolicy` and `Messaging`
implement `DecisionContract` and `Delivery` in the same way.

### Executor and Remediation

A row's id is its position in `ledger`, which no action ever changes or
shortens. `work[p]` is the message pod `p` holds unacknowledged, and how far its
handler has come: `gate` (rollback target and deadline, or floor and the two
limits), `read` (the Deployment or the HPA), `patch`, `record`, `ack`: one stage
per call to the outside, because each such call can be the last. Between any two
steps a fault of `FaultKind` may strike, `MaxFaults` times in a behaviour:
*redelivery* (the pod dies, its message is delivered again), *error* (an
exception: `consume` nacks without requeue), *retry* (the first write of
`publish` raises and a second is made), *publish_error* (api-bff's second write
raises too), *policy_publish_error* (decision-policy's does), *lost* (a write that
returned and that the broker never took), *edit* (an operator changes a limit),
*autoscale* (the HPA controller moves the replica count), *anomaly_redelivery*.
`patches` and `orphans` (the decisions whose handler was cut off between its patch
and its row) are histories; no action reads them.

A publish under way is a member of `outbox` with the `attempt` it is at. A write
that raises may have been accepted all the same (`MaybeTaken`). Between the two
attempts lie a discard and a reconnect, during which anything may happen: the
first copy may be executed, a rollback published and executed, and the second
copy arrive after that. A second attempt that raises needs no fault of its own
beyond the first, and the executor may answer a decision that api-bff has
recorded as `dispatch_failed`.

decision-policy's decisions to do nothing are rows too: a remedy for a service it
protects itself (`Guarded`), a policy that only alerts, and a confidence that only
alerts (`Withhold`). They have no parent, and nothing may answer them. `MaxRequests`
bounds the messages that clicks and decisions may ask for.

Abstractions: a CPU limit and a replica ceiling are naturals, with the throttle
limit as 1; `quarantine` and `terminate` are one unsupported remedy; the service
of a row is its `target`; the queue is delivered from its head, so two pods can
overtake each other but messages of one pod stay in order; in api-bff the choice
of the row and the append of the dispatch are one step (`Incidents` has them as
two).

`IsAuditTrail` maps each row to the columns a reader goes by (`Readable`). It is
what makes the ledger legible: every row answers, approves or reverses an
earlier row of the same anomaly that called for it, whatever was redelivered,
published twice or clicked twice, and a decision to do nothing is answered by
nobody.

### DecisionPolicy

The thread for anomalies advances by `security`, `deployment` (the two reads of
`_classify`, each under a lock of its own), `annotate`, `match`, `record`,
`publish`, `ack`; the other two threads, the clock and an SRE's edits of the
policies act between any two. A dict is a function on the keys it holds. The
history fields of `task` remember what the dicts held when the anomaly was
delivered, and `deployed` what was seen of each *service*, whatever the key the
program filed it under. One remedy stands for all remedies, and confidences are
thousandths on both sides of both thresholds. Those from 0.850 up are what the
service accepts, not what the present detector can send (finding 5).

### Detector

Z-scores are compared with whole thresholds, so a baseline is kept as a count, a
sum and a sum of squares (Welford's `n`, `mean`, `m2` in integers), and `z > 3`
becomes an exact comparison of integers; only `confidence`, which is continuous
in the scores, rounds them down to whole standard deviations. The cost of a
sample stands for the CPU it derives from. Loading and saving one profile are
one step, since a profile has one writing thread, except for the cost profile,
whose verdict is in `task` until `SaveProfile`. A scrape delivers one sample per
replica under the workload's name, as the collector and cost-intelligence do, and
each sample carries its scrape, which only the properties read. The
`_overall` bucket is written and never read, and is left out. Histories:
`streak` (the samples the dwell count stands on), `absorbed` (how many of them
trained the baseline), `unlearned`, `repeats`.

### Messaging

`publish` is one action per access to `_connection` and `_channel`, because
another thread may replace them in between. A connection the broker has dropped
is *stale*: it still reads open, and a write to it raises or vanishes. On a *broken*
one only the channel is closed.
The broker reaps connections, goes down and comes back, keeps its durable queue,
and returns unacknowledged messages to its head. `consume` is a loop of
`connect`, `setup`, `consuming`, `handling`, `ack`/`nack`, `backoff`;
`_discard_connection`'s close and clear are one step, and a close that raises, which
only a connection the broker has dropped does, ends like one that succeeds: both
references are cleared and nothing is left open.

### AlertStream

One action per stretch of code between two awaits, or between two threads:
`OnMessage` schedules the callback and `Ack` follows without waiting for it;
`FanOut` is the callback; `Subscribe`, `Get`, `Send`, `Disconnect` are the
endpoint's coroutine. A browser of `Fickle` may stop reading, go on or leave at
any step, and a browser that left is noticed only by a send. `sent`, `due`,
`behind`, `fanned` (the alerts `_fan_out` was called with) and `lost` are histories. An alert is its number; the queue of 100 is
`MaxQueued`.

### Incidents

A refresh is two requests answered at different moments and shown together;
refreshes of the timer, of a change of view and after a click overtake one
another. The actions a refresh brought are the last `ActionsWindow` entries of
a trail that only grows, so the panel's `actions` are kept as one number, the
length the trail had (`asOf`). `CallsFor` is the panel's reading of the ledger
(`isPending`, `hasExecuted`), over the entries it has. A click goes through the
two transactions of `approve_action` or `rollback_action` (`ReadRow`,
`AppendDispatch`) and the publish; `finally` clears `busy` whichever anomaly it
names. A change of view asks for a refresh at once, in a place of its own, whatever
polls and clicks are under way. decision-policy's rows about doing nothing take
their places in the window (`DecideNothing`); `Written` says which results other
services write in an instance. Entries are ordered by the moment they were
appended: that the services' clocks agree with it is taken from the code, which
sorts by `executed_at`.

### Collection

Three views of a pod, the kubelet's (`running`), the API server's (`owner`) and
the cache's, and a cycle that visits the pods one call at a time: `Resolve` with
a fresh entry, or `ReadPod` and, for a pod of a ReplicaSet (`Replicated` names the
workloads that have one, and a ReplicaSet may have no owner), `ReadReplicaSet`,
each of which may raise, then `PublishMetric`; `Prune` only at the end of a cycle
that did not fail. A pod may be
deleted, stopped and created again under its name, with another controller,
between any two calls. `owned` and `failed` are histories. What the samples cost
is `Detector`'s input.

## Runs

All runs use `CHECK_DEADLOCK FALSE`: samples, clicks, faults and the clock are
bounded, and when they are used up the system idles, as the program does when
nothing arrives.

| Run | Question | Bounds and why they are enough |
|---|---|---|
| `floor` | Does anything reach a protected workload, or a workload without the approval it needs, and do all writers together write an audit trail? | one open service, one the executor protects and one decision-policy protects, each with an anomaly; autonomous, approved and withheld decisions, two instants, three requests and one fault of any of eight kinds at any step; the global limit is the narrower one here, the service's in `once` |
| `once` | Is each decision answered, does each reversal restore what it should, do throttles stack, does the service's limit hold? | two anomalies of one service, throttle and freeze, four requests (both decided and both reversed, or one reversed twice), and one of: a crash, a retried publish, a publish that fails, a move of the HPA, at any step; three possible executions against a service limit of two |
| `decision` | Does decision-policy keep its contract while policies, signals, deployments and restarts interleave? | three anomalies (strong, fair, protected), two policies that disagree, two events, one fault, two instants |
| `baseline` | Is the baseline poisoned or frozen, is anything flagged without traffic or dwell? | two scrapes of two replicas (four samples, one more than dwell; suppression of two readings ends within them), two rates, two hours, one fault |
| `client` | Is delivery at least once, do only real failures raise, does the consumer survive? | two calls, prefetch 2, two faults of seven kinds: a fault during the recovery from another |
| `stream` | Does one bad tab harm the others, and does the feed go on? | two sessions, one of them fickle, three alerts against queues of one (so a queue is full twice), one lost connection or restart |
| `incidents` | Does the panel offer what the ledger calls for? | two anomalies against windows of one and two, four entries against an actions window of two (three for writers other than a click in flight once the wide view is chosen, `Spare`), results of every kind the panel tells apart and one it does not, one timer and one click or change of view with refreshes that overtake, one alert, change of view, decision to do nothing or failure at any step |
| `collect` | Is each sample booked under its workload? | two replicas, one deleted and recreated once by a Deployment, a DaemonSet or nobody, two ticks against a TTL of two, one failed call; the ReplicaSet may have lost its Deployment |
| `lost_reference`, `uncorrelated_deploy`, `shared_client`, `one_scrape` | findings 1 to 4 below | the smallest instance that shows each |

The properties, by run (each is stated in words above its definition):

* `floor`: `TypeOK`, `ProtectedUntouched`, `ExecutedCeiling`, `ApprovedBeforePatch`,
  `ExpiredIsFinal`, `IsAuditTrail` (refinement of `AuditTrail`).
  The rollback path has no floor; it is safe because no prior state of a
  protected workload is ever recorded, which the run and the proof show.
* `once`: `ServiceExecutedCeiling`, `ThrottlesNeverStack`, `DispatchedIsInFlight`,
  `ReconstructableUnlessCut`, `UndoRestoresPrior`, `AllReversedIsOriginal`,
  `EventuallyAnswered`.
  `ThrottlesNeverStack` is all the idempotency there is: a throttle that finds the
  limit in place is a `no_op`, so the saved limit is never the throttle. A copy that
  comes after the first one's throttle was reversed throttles again, and a repeated
  `freeze_scaling` freezes again once the replica count has moved.
  A crash between patch and record leaves a remedy without a row (finding 1), and
  `ReconstructableUnlessCut` says that nothing else does; `AllReversedIsOriginal` is
  about behaviours without such a crash. `DispatchedIsInFlight` is about api-bff's
  publishes, which record their failure; decision-policy's do not, and a failed one
  leaves a `dispatched` row for good. `EventuallyAnswered` is about requests no
  exception drops.
* `decision`: `TypeOK`, `SecurityOutranksDeployment`, `KeepsContract` (refinement of
  `DecisionContract`: what policies may not widen, one decision per delivery, and a
  stored classification that explains it).
* `baseline`: `TypeOK`, `BaselineUnpoisoned`, `SuppressionBounded`,
  `CpuKeepsLearning`, `FlaggedOnlyIfHeard`, `DwellUpToRepeats`, `NeverAutonomous`.
  `DwellUpToRepeats` counts samples, as the code does; that they may all be of one
  scrape is finding 4.
* `client`: `TypeOK`, `AtLeastOnce` (refinement of `Delivery`),
  `RaisesOnlyIfDisturbed`, `NoLeak`, `ConsumerSurvives`.
* `stream`: `TypeOK`, `SlowHarmsOnlyItself`, `AlertsFlow`, `LeaversForgotten`.
  `AlertsFlow` says that each alert is in the end fanned out, or was lost by a
  restart between its acknowledgement and its callback. The order of what a slow
  tab gets after its first loss is not checked.
* `incidents`: `TypeOK`, `WindowNeverOffersMore`, `OfferNeverRefused`,
  `WithdrawnOnceApproved`, `PanelSettles`. The window may make the panel offer less
  than the ledger: a pending decision whose row is no longer among the last 200
  actions is not shown. A decision that was approved may be offered again by an
  answer that overtakes, and be approved twice; `PanelSettles` says that such an
  answer does not stay.
* `collect`: `TypeOK`, `BookedUnderOwnName`, `ForgottenOnceGone`. The pod's own name
  after a failed lookup is part of the second, as the code documents.

### Fairness

`once` assumes weak fairness of each publish in progress and of each pod's
steps: a consumer loop runs forever and nothing disables what it can do next. No
one is obliged to click, to fail or to move the clock. `client` assumes weak
fairness of the consume loop, of the broker's deliveries and of its return: the
loop has no other exit than `_stopping`, and an outage that never ends is not the
client's to survive. `stream` assumes weak fairness of the consumer thread
(`_consume_forever` has no exit) and of the event loop, which runs whatever is
ready; no browser has to read or to leave. `incidents` assumes that the timer
fires again after its refresh ended and that the server answers; nobody has to
click. `collect` assumes that the collection loop goes on and that a pod deleted at
the API server stops. Faults are never fair. The other runs check safety only.

### Findings

1. `lost_reference`: an executor that dies between the patch and its row leaves a
   throttle no row explains; the redelivery finds it in place and answers `no_op`
   without a prior state, so it can be neither reconstructed nor rolled back.
2. `uncorrelated_deploy`: lifecycle events are filed under `namespace/pod` and looked
   up under `namespace/workload`; a deployment is never found for a pod that
   anything controls.
3. `shared_client`: api-bff's request threads share a client documented as not
   thread-safe; one of them can fail with a healthy broker.

4. `one_scrape`: every pod of a workload is metered in each scrape, and the dwell
   counter is the workload's, so three replicas of one scrape satisfy a dwell of
   three. `behaviour-analysis/app/main.py:22-24` asks for three samples "so a scrape
   landing mid-garbage-collection cannot raise an incident on its own", and
   `docs/SPEC-GAP-ANALYSIS.md:85` cites a dwell of 30 seconds.
5. `NeverAutonomous`, which holds in `baseline` and is proved: the detector never
   passes a corroboration other than `CORROBORATION_NONE`, so no confidence exceeds
   0.80, however mature the baseline, and the autonomous path (0.85) is never
   taken for an incident it raised. `docs/SPEC-GAP-ANALYSIS.md:296-304` and
   `docs/KNOWN-LIMITATIONS.md:47-52` put the observed cap down to a young baseline
   and want to keep a panel from suggesting "the system cannot act on its own".
6. `ConsumerSurvives`, which holds in `client`: `consume` reconnects with a backoff.
   `docs/KNOWN-LIMITATIONS.md:133-136` says the consumers "have no equivalent
   reconnect" and rely on the pod
   crashing.

Behaviours a reader of the code should know, which the models contain and no line
of the source forbids: decision-policy's failed publish leaves a dangling
`dispatched` row; one pending decision can be approved twice; a second copy of a
request throttles again after the first was rolled back; a decision recorded as
`dispatch_failed` may be executed; after `dispatch_failed` the panel no longer
offers the decision.

## Proofs

TLC answers for the instances above; the theorems hold for every value of the
constants that the assumptions admit. Each module declares its own
(`ExecutorAssumption`, `RemediationAssumption`, `DecisionAssumption`,
`DetectorAssumption`, `MessagingAssumption`, `AlertStreamAssumption`,
`IncidentsAssumption`, `CollectionAssumption`, and `NoServiceIsNoService`): naturals
for limits and windows, functions and subsets of the right sets, finitely many
anomalies, bounds of queues and windows at least one; nothing else, but for
`Corroboration = 0`, which is `CORROBORATION_NONE` of the source.

Some theorems have hypotheses besides, stated in the theorem and named:

| Hypothesis | Says | Why the theorem needs it |
|---|---|---|
| `OnePod` | one executor replica, as `infra/k8s/services/remediation-executor.yaml:9` asks for | nothing but the single consumer separates what the handler reads from what it patches and records |
| `Unedited` | nobody edits a workload's limit by hand | an edit between read and patch is overwritten and not remembered |
| `NothingLost` | no exception in the executor, no publish lost in silence, decision-policy neither fails to publish nor dies before it does | each of these drops a message and leaves no row |
| `OneThread` | one thread publishes through a client | finding 3: the run `shared_client` is the counterexample without it |

Each is a condition on the constants (`Pod`, `FaultKind`, `Thread`) that at least
one passing run meets.

### Remediation

`RemediationProofs`:

* `TypeCorrect`: `TypeOK`, together with the fact that every unpublished decision is
  a row of the ledger. The second part is needed since `PublishOrFail` copies
  the service from that row.
* `FloorHolds`: `ProtectedUntouched`, for any number of pods and any faults. The
  property alone is not inductive, since a rollback patches whatever a row
  names. The invariant adds that no prior state, in the ledger or in a pod's
  hands past the gate, is of a protected service; the gate establishes it and each
  later stage only passes it on.
* `CeilingsHold`: `ExecutedCeiling` and `ServiceExecutedCeiling` under `OnePod`, for
  any limits, windows and clock, crashes included. With two pods nothing
  serialises the count with the record, and the theorem is false. The invariant
  adds that while the pod holds a message past the gate both windows still have
  room for one more: no one else appends a counted row, and with time rows only
  leave a window.

`RemediationHistoryProofs` continues it with what the loop leaves behind. Its first
half needs one invariant, `ProvenanceInv`, which holds for any number of pods and
through every fault: wherever a message is (outbox, queue, a pod's hands) the
ledger holds the dispatch that justifies it (`HeldInv`); every row answers,
approves or reverses the row it should (`LedgerInv`); what a pod is about to
record is consistent with the row it was sent for (`PodInv`); and every patch on
the cluster points at its dispatch (`PatchInv`). Redeliveries and retries
keep it because they create no message that was not there before, and because
rows never change. From it follow:

* `ApprovalHolds`: `ApprovedBeforePatch`.
* `UndoHolds`: `UndoRestoresPrior`.
* `AuditTrailKept`: the ledger implements `AuditTrail`, decisions to do nothing
  included. The one step that can write is each service's append, and the
  refinement comes down to one lemma: a row consistent with the ledger before it
  is one a trail may add.
* `InFlightHolds`, under `NothingLost`: `DispatchedIsInFlight`. It adds `AckAnswers`:
  a message about to be acknowledged has been answered, so that the step that
  takes it out of flight may forget it.

The second half is about `OnePod`:

* `ReconstructHolds`, under `Unedited`, through crashes, exceptions and every other
  fault: `ReconstructableUnlessCut`. The invariant says that what the pod is about to
  overwrite is still what it read, and that each patch has its row, is about to
  get it, or belongs to a handler that was cut off.
* `OriginalHolds`, under the same: `AllReversedIsOriginal`. A CPU limit is always
  the original or the throttle (`SnapshotInv`: every saved limit is the original
  one); one that is not the original is explained by a throttle that the ledger
  shows as standing (`Accounted`), as long as no handler was cut off.
* `StackHolds`, under the same: `ThrottlesNeverStack`. While the latest throttle of
  a workload stands the limit in place is the throttle's, and a pod that is about
  to throttle has read another one (`StackInv`): no one but the pod changes a limit
  in between. Nothing is assumed of the order or the number of the copies.
* `ExpiryHolds`, through every fault, edits included: `ExpiredIsFinal`. No pod holds
  permission to reverse a row whose window was already found closed.

### Decision, detection

`DecisionPolicyProofs`:

* `TypeCorrect`: `TypeOK`, with `Carries`: a classified task has a class, one about to
  be recorded a row.
* `SecurityOutranks`: `SecurityOutranksDeployment`. At the read of the deployment
  events the class is open; `SignalInv` carries the property by saying that the dict
  the thread reads is never older than what it held at delivery, since it is
  overwritten with later times only and emptied only by a restart that ends the
  task too.
* `ContractKept`: implements `DecisionContract`. `ContractInv` counts: each delivery
  not decided on leaves room for one more decision, although redeliveries repeat
  them; and the class a row will name is the stored one until the row is there.

`DetectorProofs`, the first four from one inductive invariant `IInv`:

* `TypeCorrect`, `NothingAutonomous`, `SuppressionHolds` (both `BaselineUnpoisoned` and
  `SuppressionBounded`), `CpuLearns`.
* None of the properties is inductive, because between `Evaluate` and
  `SaveProfile` a verdict describes a profile that is not stored yet. `Judging`
  says how the verdict in hand continues the stored counters; `Counting` that the
  stored ones measure what happened (`consecutive_qualifying` is
  `MaxSuppressed + 1` times the absorbed readings plus the unlearned ones);
  `KeepsPace` that `LearnCpu` has made the room `SaveProfile` will use;
  `Fitting` that no confidence, awaited or recorded, exceeds 0.800. The
  arithmetic of `confidence` is the lemma `ConfidenceBound`. TLC finds `IInv` true
  on the instance of `baseline`.
* `HeardHolds`: `FlaggedOnlyIfHeard`, through restarts that empty `_traffic_z` and keep
  the dwell counter. `Warranted` says that a verdict to flag was reached with the
  dwell threshold met and the service heard of by this process: a restart in
  between takes the verdict away with `_traffic_z`.
* `DwellHolds`: `DwellUpToRepeats`, for any threshold, replicas and failures. A sample
  delivered twice may be counted before, between or after others, so no bound
  on the counter alone is inductive. `Balance` is an account for each workload: the
  counter, plus the samples that still wait, never exceeds the distinct samples
  that the streak and the queue together hold by more than `repeats`. It stays
  balanced when a sample is counted (it leaves the queue for the streak), put back,
  dropped or reset. `Earlier` says that a new scrape is new to all of them.

### Messaging, feed, panel, collector

`MessagingProofs`:

* `TypeCorrect`: `TypeOK`, with `ConsumerInv`: while the consumer's connection holds,
  what it has buffered is what the broker keeps for acknowledgement; once it has
  died, those copies are queued again; what is about to be settled has been handled.
* `DeliveredAtLeastOnce`: implements `Delivery`. `ConsumerInv` is what lets each settle
  and each reaped connection map to a step of the abstract specification.
* `ClientSound`, under `OneThread`: `NoLeak` and `RaisesOnlyIfDisturbed`. `CallInv` says
  what an undisturbed call has at each access of `_connection` and `_channel`; its
  second attempt never meets a stale connection since the first has discarded it.

`AlertStreamProofs`: `TypeCorrect`, and `SlowHarmsNoOther` (`SlowHarmsOnlyItself`) for
any number of sessions and any queue length. `StreamInv` relates three sequences:
what a session was due, and what it was sent, has in hand and has queued, are
equal unless it fell behind, and then still agree on the first `MaxQueued`.

`IncidentsProofs`, for any number of refreshes and clicks at once:

* `TypeCorrect`: `TypeOK`, with `PanelInv`: a click has the entry it is about
  (`Grounded`), a refresh has a length the tables had (`Fetched`), and a click under
  way leaves room for the entries it will take (`RoomKept`, about the model's bound).
* `WindowHolds`: `WindowNeverOffersMore`. The work is in a lemma on the panel's reading
  (`SuffixCallsFor`): what a suffix of a trail calls for, the whole does.
* `NeverRefused`: `OfferNeverRefused`, since the trail only grows.
* `WithdrawnHolds`: `WithdrawnOnceApproved`, the action property.

`CollectionProofs`: `TypeCorrect`, and `BookingHolds` (`BookedUnderOwnName`) for any
lifetime of the cache and any churn. `NamesJustified` follows a name from the
moment it is read: a remembered name was right no earlier than its date, the name
the cycle has in hand was right less than `Ttl` before it came to the pod, or is
the pod's own after a failed lookup.

### What stays with TLC

Liveness (`EventuallyAnswered`, `ConsumerSurvives`, `AlertsFlow`, `LeaversForgotten`,
`PanelSettles`, `ForgottenOnceGone`) and anything about `ENABLED`, which the prover
does not reach; induction over data and recursively defined operators (none of the
modules declares one). The inductive invariants were checked by TLC on the
instances of the runs before they were proved.

## Not modelled, and why

* The numbers in a kubelet summary, Prometheus queries, pricing, logging, the read
  endpoints other than the two lists, login and roles: input and output without
  protocol state. The summary page adds up the latest reading per service, which
  with several replicas is one pod's.
* The lifecycle watch: it restarts on every error and keeps no state; the events it
  sends, replays included, are `DecisionPolicy`'s environment.
* cost-intelligence and the two adapters: stateless translations; their output is
  an action of `Detector` or `DecisionPolicy`.
* A publish the broker loses without an error is in `Remediation` (*lost*) and not in
  `Messaging`, where nothing could observe it.
* `legitimate_traffic_growth` is never published by the detector, whatever
  `docs/KNOWN-LIMITATIONS.md` says: `_flag_anomaly` is only called for readings that
  traffic does not explain. This is the shape of one `if`.
* More than one collector: each node has its own, and they share nothing.
* Clocks that disagree: all services stamp rows with their own.

## Plan

The models are complete as far as the inventory above goes, and each safety
property and refinement a run checks has its theorem. What is left, in this order:

1. What connects the components and is now argued in words: that decision-policy's
   rows, as `DecisionPolicy` writes them, are the ones `Remediation` assumes of its
   first producer, and that `AlertStream` delivers what `Incidents` lets arrive.
2. Several executor pods: the ceilings are theorems of one, and what two can exceed
   them by has no bound stated yet.
3. Shorter proofs: the frame conditions of `RemediationHistoryProofs` are restated
   for each invariant, and could be one lemma per action.
