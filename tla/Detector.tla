------------------------------ MODULE Detector ------------------------------
(***************************************************************************)
(* The Behaviour Analysis Engine (services/behaviour-analysis/app).  Two   *)
(* consumer threads, one for traffic and one for cost, share the in-memory *)
(* dict _traffic_z; the baselines and the dwell counter live in the        *)
(* database and survive a restart.                                         *)
(*                                                                         *)
(* _handle_cost is one action per effect:                                  *)
(*    cpu -> evaluate -> save -> insert -> publish -> ack                  *)
(* (load-then-save of one profile is one action: a profile has one writer) *)
(* and an exception, a lost connection or a restart may strike between any *)
(* two.  Amounts are integers and sums of squares stand for Welford's m2,  *)
(* so every comparison with a threshold is exact; only confidence rounds   *)
(* its Z-scores down to whole standard deviations.  The _overall bucket,   *)
(* which nothing reads back, is left out.                                  *)
(***************************************************************************)
EXTENDS Integers, Sequences, FiniteSets

CONSTANTS
  Service,
  MinSamples,       (* MIN_SAMPLES_FOR_DETECTION                            *)
  Dwell,            (* DWELL_SAMPLES                                        *)
  MaxSuppressed,    (* MAX_CONSECUTIVE_SUPPRESSED                           *)
  Maturity,         (* MATURITY_SAMPLES                                     *)
  Corroboration,    (* CORROBORATION_NONE, in halves                        *)
  Cost, Rate,       (* what samples carry: costs (with the CPU they derive  *)
                    (* from) and request rates                              *)
  Replicas,         (* pods of a workload: each is metered in every scrape  *)
  WarmCost, WarmRate, (* what the first hour's buckets have learned so far  *)
  FaultKind, MaxFaults,
  MaxScrape, MaxTraffic, (* bounds: collection cycles, traffic samples      *)
  MaxHour              (* bound: hours after the first                      *)

(* stats.py: n, mean and m2 kept as n, the sum and the sum of squares      *)
Stats == [n : Nat, sum : Nat, squares : Nat]
NoStats == [n |-> 0, sum |-> 0, squares |-> 0]

ASSUME DetectorAssumption ==
  /\ MinSamples \in Nat /\ Dwell \in Nat \ {0} /\ MaxSuppressed \in Nat
  /\ Maturity \in Nat \ {0} /\ Replicas \in Nat \ {0}
  /\ Corroboration = 0
  /\ Cost \subseteq Nat /\ Rate \subseteq Nat
  /\ WarmCost \in Stats /\ WarmRate \in Stats
  /\ MaxFaults \in Nat /\ MaxScrape \in Nat /\ MaxTraffic \in Nat /\ MaxHour \in Nat

VARIABLES
  costs, traffic,   (* behaviour-analysis.cost and .traffic                 *)
  hour,             (* _bucket_key of the present                           *)
  task,             (* the cost thread's locals                             *)
  scored,           (* the traffic thread's: Z-scores not yet in _traffic_z *)
  cost_profile, cpu_profile, traffic_profile, (* the baselines table        *)
  traffic_z,        (* _traffic_z                                           *)
  anomalies,        (* the anomalies table                                  *)
  published,        (* indices of the rows published as anomaly.flagged     *)
  made, faults,     (* samples made of each kind; faults spent              *)
  streak,           (* history: the samples (scrape, pod) that dwell counted *)
  absorbed,         (* history: how many of them trained the baseline       *)
  unlearned,        (* history: readings in a row that trained nothing      *)
  repeats           (* history: deliveries of a sample beyond its first     *)

baselines == <<cost_profile, cpu_profile, traffic_profile>>
incidents == <<anomalies, published>>
stimuli == <<hour, made>>
history == <<streak, absorbed, unlearned>>
vars == <<costs, traffic, stimuli, task, scored, baselines, traffic_z, incidents,
          faults, history, repeats>>

Hour == 0 .. MaxHour

----------------------------------------------------------------------------
Updated(s, v) == [n |-> s.n + 1, sum |-> s.sum + v, squares |-> s.squares + v * v]

(* n * (n - 1) * stddev ^ 2, and n * (value - mean).                       *)
Spread(s) == s.n * s.squares - s.sum * s.sum
Offset(s, v) == v * s.n - s.sum

(* z_score(v) > k, >= k and < -k.  A baseline without spread scores 0.     *)
HasSpread(s) == s.n >= 2 /\ Spread(s) > 0
Far(s, v, k) == Offset(s, v) * Offset(s, v) * (s.n - 1) - k * k * s.n * Spread(s)
Above(s, v, k)   == HasSpread(s) /\ Offset(s, v) > 0 /\ Far(s, v, k) > 0
AtLeast(s, v, k) == HasSpread(s) /\ Offset(s, v) >= 0 /\ Far(s, v, k) >= 0
Below(s, v, k)   == HasSpread(s) /\ Offset(s, v) < 0 /\ Far(s, v, k) > 0

(* The Z-score rounded down, within the range in which confidence varies.  *)
Cap == 14
Sigmas(s, v) ==
  IF s.n < MinSamples THEN 0
  ELSE Cardinality({k \in 1 .. Cap : AtLeast(s, v, k)})
         - Cardinality({k \in 0 .. Cap - 1 : Below(s, v, k)})

(* confidence.py, in thousandths.                                          *)
Clamp(x, top) == IF x < 0 THEN 0 ELSE IF x > top THEN top ELSE x

(* Mutant: any anomaly that reaches this point counts as corroborated.     *)
ConfidenceCorroborated(peak, calm, n) ==
  80 * Clamp(peak - 3, 5) + 50 * Clamp(peak - calm, 6) + 100
    + (100 * Clamp(n, Maturity)) \div Maturity

Confidence(peak, calm, n) ==
  80 * Clamp(peak - 3, 5) + 50 * Clamp(peak - calm, 6) + 100 * Corroboration
    + (100 * Clamp(n, Maturity)) \div Maturity

----------------------------------------------------------------------------
Profile == [buckets : [Hour -> Stats], consecutive : Nat, consecutive_qualifying : Nat]
Sample  == [scrape : 1 .. MaxScrape, pod : 1 .. Replicas, service : Service, cost : Cost,
            hour : Hour]
Reading == [service : Service, rate : Rate, hour : Hour]
Score   == [service : Service, z : Int]
Identities == (1 .. MaxScrape) \X (1 .. Replicas)
Made    == [cost : Nat, traffic : Nat]
Anomaly == [sample : Sample, confidence : Nat,
            heard : BOOLEAN,  (* history: whether _traffic_z knew the service *)
            backing : SUBSET Identities]
                              (* history: the samples counted by dwell        *)

Identity(x) == <<x.scrape, x.pod>>

NoTask == [pc |-> "idle"]
Received == [pc : {"cpu"}, sample : Sample]
Measured == [pc : {"evaluate"}, sample : Sample, cpu_z : Int]
Judged ==
  [pc : {"save", "insert", "publish", "ack"}, sample : Sample, profile : Profile,
   qualifies : BOOLEAN, learn : BOOLEAN, flag : BOOLEAN, confidence : Nat, heard : BOOLEAN]
Task == Received \cup Measured \cup Judged

Warm(stats) ==
  [buckets |-> [h \in Hour |-> IF h = 0 THEN stats ELSE NoStats],
   consecutive |-> 0, consecutive_qualifying |-> 0]

Init ==
  /\ costs = << >> /\ traffic = << >>
  /\ hour = 0
  /\ task = NoTask /\ scored = << >>
  /\ cost_profile = [s \in Service |-> Warm(WarmCost)]
  /\ cpu_profile = [s \in Service |-> Warm(WarmCost)]
  /\ traffic_profile = [s \in Service |-> Warm(WarmRate)]
  /\ traffic_z = [s \in {} |-> 0]
  /\ anomalies = << >> /\ published = {}
  /\ made = [cost |-> 0, traffic |-> 0] /\ faults = 0
  /\ streak = [s \in Service |-> {}]
  /\ absorbed = [s \in Service |-> 0]
  /\ unlearned = [s \in Service |-> 0]
  /\ repeats = 0

At(pc) == task.pc = pc
Fault(kind) == kind \in FaultKind /\ faults < MaxFaults /\ faults' = faults + 1

(* One more sample in the profile's bucket for hour h.                     *)
Learn(profile, h, v) == [profile EXCEPT !.buckets[h] = Updated(@, v)]

----------------------------------------------------------------------------
(* The traffic thread: _handle_traffic                                     *)

ScoreTraffic ==
  /\ scored = << >> /\ traffic # << >>
  /\ LET r == Head(traffic) IN
     /\ scored' = <<[service |-> r.service,
                     z |-> Sigmas(traffic_profile[r.service].buckets[r.hour], r.rate)]>>
     /\ traffic_profile' = [traffic_profile EXCEPT ![r.service] = Learn(@, r.hour, r.rate)]
  /\ traffic' = Tail(traffic)
  /\ UNCHANGED <<costs, stimuli, task, cost_profile, cpu_profile, traffic_z, incidents,
                 faults, history, repeats>>

StoreTraffic ==
  /\ scored # << >>
  /\ LET r == Head(scored) IN
     traffic_z' = [s \in DOMAIN traffic_z \cup {r.service} |->
                    IF s = r.service THEN r.z ELSE traffic_z[s]]
  /\ scored' = << >>
  /\ UNCHANGED <<costs, traffic, stimuli, task, baselines, incidents, faults, history, repeats>>

----------------------------------------------------------------------------
(* The cost thread: _handle_cost                                           *)

TakeCost ==
  /\ At("idle") /\ costs # << >>
  /\ task' = [pc |-> "cpu", sample |-> Head(costs)]
  /\ costs' = Tail(costs)
  /\ UNCHANGED <<traffic, stimuli, scored, baselines, traffic_z, incidents,
                 faults, history, repeats>>

(* Mutant: the CPU baseline is suppressed during an incident too.          *)
CpuLearnedUnlessFlagging(x) ==
  IF cost_profile[x.service].consecutive > 0 THEN cpu_profile[x.service]
  ELSE Learn(cpu_profile[x.service], x.hour, x.cost)

CpuLearned(x) == Learn(cpu_profile[x.service], x.hour, x.cost)

(* _score_and_learn(METRIC_CPU): learns whatever the verdict on cost.      *)
LearnCpu ==
  /\ At("cpu")
  /\ LET x == task.sample IN
     /\ task' = [pc |-> "evaluate", sample |-> x,
                 cpu_z |-> Sigmas(cpu_profile[x.service].buckets[x.hour], x.cost)]
     /\ cpu_profile' = [cpu_profile EXCEPT ![x.service] = CpuLearned(x)]
  /\ UNCHANGED <<costs, traffic, stimuli, scored, cost_profile, traffic_profile, traffic_z,
                 incidents, faults, history, repeats>>

(* Mutant: an absent traffic signal is read as zero.                       *)
TrafficDefaultZero(service) ==
  IF service \in DOMAIN traffic_z THEN {traffic_z[service]} ELSE {0}

(* _traffic_z_for: absent means unknown, here the empty set.               *)
TrafficZFor(service) == {traffic_z[s] : s \in DOMAIN traffic_z \cap {service}}

(* evaluate_condition.  The CPU score can only confirm: COST_Z_THRESHOLD   *)
(* is the same three sigma, and cost must pass it anyway.                  *)
ResourceMoved(stats, cost) == stats.n >= MinSamples /\ Above(stats, cost, 3)
Qualifies(stats, x) ==
  /\ ResourceMoved(stats, x.cost)
  /\ \E z \in TrafficZFor(x.service) : z < 1

(* Mutants: off by one, and the rule the docstring of _should_learn says   *)
(* was once used: a reading trains until dwell is satisfied.               *)
ShouldLearnLate(qualifies, flag, consecutive) == ~qualifies \/ consecutive > MaxSuppressed
ShouldLearnUntilFlagged(qualifies, flag, consecutive) == ~flag \/ consecutive >= MaxSuppressed

ShouldLearn(qualifies, flag, consecutive) == ~qualifies \/ consecutive >= MaxSuppressed

(* Mutant: the dwell counter survives a reading that does not qualify.     *)
DwellCountSticky(qualifies, counted) == IF qualifies THEN counted + 1 ELSE counted

(* Mutant: it decays by one instead of starting over.                      *)
DwellCountDecay(qualifies, counted) == IF qualifies THEN counted + 1 ELSE counted - 1

DwellCount(qualifies, counted) == IF qualifies THEN counted + 1 ELSE 0

(* Scores.peak, and the confidence an anomaly raised now would carry.      *)
Peak(stats, x) == LET z == Sigmas(stats, x.cost) IN IF z > task.cpu_z THEN z ELSE task.cpu_z
ConfidenceIn(stats, x, n) ==
  LET z == TrafficZFor(x.service) IN
  Confidence(Peak(stats, x), IF z = {} THEN 0 ELSE CHOOSE t \in z : TRUE, n)

(* Scores the reading against the profile and the latest traffic score,    *)
(* and computes the profile to save.                                       *)
Evaluate ==
  /\ At("evaluate")
  /\ LET x == task.sample
         profile == cost_profile[x.service]
         stats == profile.buckets[x.hour]
         qualifies == Qualifies(stats, x)
         dwell == DwellCount(qualifies, profile.consecutive_qualifying)
         flag == qualifies /\ dwell >= Dwell
         learn == ShouldLearn(qualifies, flag, profile.consecutive)
         learned == IF learn THEN Learn(profile, x.hour, x.cost) ELSE profile
     IN task' =
          [pc |-> "save", sample |-> x, qualifies |-> qualifies, learn |-> learn, flag |-> flag,
           profile |-> [learned EXCEPT !.consecutive = IF learn THEN 0 ELSE @ + 1,
                                       !.consecutive_qualifying = dwell],
           confidence |-> IF flag THEN ConfidenceIn(stats, x, learned.buckets[x.hour].n) ELSE 0,
           heard |-> x.service \in DOMAIN traffic_z]
  /\ UNCHANGED <<costs, traffic, stimuli, scored, baselines, traffic_z, incidents,
                 faults, history, repeats>>

(* _save_profile: from here on a redelivery counts the sample again.       *)
SaveProfile ==
  /\ At("save")
  /\ LET s == task.sample.service IN
     /\ cost_profile' = [cost_profile EXCEPT ![s] = task.profile]
     /\ streak' = [streak EXCEPT ![s] = IF task.qualifies THEN @ \cup {Identity(task.sample)} ELSE {}]
     /\ absorbed' = [absorbed EXCEPT ![s] =
                      IF ~task.qualifies THEN 0 ELSE IF task.learn THEN @ + 1 ELSE @]
     /\ unlearned' = [unlearned EXCEPT ![s] = IF task.learn THEN 0 ELSE @ + 1]
  /\ task' = [task EXCEPT !.pc = IF task.flag THEN "insert" ELSE "ack"]
  /\ UNCHANGED <<costs, traffic, stimuli, scored, cpu_profile, traffic_profile, traffic_z,
                 incidents, faults, repeats>>

(* _flag_anomaly: the row, in a transaction of its own ...                 *)
InsertAnomaly ==
  /\ At("insert")
  /\ anomalies' = Append(anomalies,
       [sample |-> task.sample, confidence |-> task.confidence, heard |-> task.heard,
        backing |-> streak[task.sample.service]])
  /\ task' = [task EXCEPT !.pc = "publish"]
  /\ UNCHANGED <<costs, traffic, stimuli, scored, baselines, traffic_z, published,
                 faults, history, repeats>>

(* ... then the event.                                                     *)
PublishAnomaly ==
  /\ At("publish")
  /\ published' = published \cup {Len(anomalies)}
  /\ task' = [task EXCEPT !.pc = "ack"]
  /\ UNCHANGED <<costs, traffic, stimuli, scored, baselines, traffic_z, anomalies,
                 faults, history, repeats>>

Ack ==
  /\ At("ack")
  /\ task' = NoTask
  /\ UNCHANGED <<costs, traffic, stimuli, scored, baselines, traffic_z, incidents,
                 faults, history, repeats>>

----------------------------------------------------------------------------
(* Faults                                                                  *)

(* The database or the broker raises: the sample is nacked and dropped,    *)
(* with whatever was committed before.                                     *)
Raise ==
  /\ \E pc \in {"cpu", "evaluate", "save", "insert", "publish"} : At(pc)
  /\ Fault("error")
  /\ task' = NoTask
  /\ UNCHANGED <<costs, traffic, stimuli, scored, baselines, traffic_z, incidents,
                 history, repeats>>

(* The connection drops under the handler: the ack fails and the sample is *)
(* delivered again.                                                        *)
AckFails ==
  /\ At("ack")
  /\ Fault("reconnect")
  /\ costs' = <<task.sample>> \o costs
  /\ task' = NoTask
  /\ repeats' = repeats + 1
  /\ UNCHANGED <<traffic, stimuli, scored, baselines, traffic_z, incidents, history>>

(* The process restarts: unacknowledged messages come back, the baselines  *)
(* stay, _traffic_z is lost.                                               *)
Restart ==
  /\ Fault("restart")
  /\ costs' = IF At("idle") THEN costs ELSE <<task.sample>> \o costs
  /\ repeats' = IF At("idle") THEN repeats ELSE repeats + 1
  /\ task' = NoTask
  /\ scored' = << >>
  /\ traffic_z' = [s \in {} |-> 0]
  /\ UNCHANGED <<traffic, stimuli, baselines, incidents, history>>

----------------------------------------------------------------------------
(* The adapters                                                            *)

(* One collection cycle: cost-intelligence publishes a sample per pod, all *)
(* of them under the workload's name; its publish() retry may publish one  *)
(* twice.                                                                  *)
EmitCost ==
  /\ made.cost < MaxScrape /\ costs = << >>
  /\ made' = [made EXCEPT !.cost = @ + 1]
  /\ \E s \in Service, v \in [1 .. Replicas -> Cost] :
       LET batch == [p \in 1 .. Replicas |->
                      [scrape |-> made.cost + 1, pod |-> p, service |-> s, cost |-> v[p],
                       hour |-> hour]]
       IN \/ /\ costs' = batch
             /\ UNCHANGED <<faults, repeats>>
          \/ /\ Fault("duplicate")
             /\ \E p \in 1 .. Replicas :
                  costs' = SubSeq(batch, 1, p) \o SubSeq(batch, p, Replicas)
             /\ repeats' = repeats + 1
  /\ UNCHANGED <<traffic, hour, task, scored, baselines, traffic_z, incidents, history>>

EmitTraffic ==
  /\ made.traffic < MaxTraffic
  /\ made' = [made EXCEPT !.traffic = @ + 1]
  /\ \E s \in Service, v \in Rate :
       traffic' = Append(traffic, [service |-> s, rate |-> v, hour |-> hour])
  /\ UNCHANGED <<costs, hour, task, scored, baselines, traffic_z, incidents, faults, history,
                 repeats>>

NextHour ==
  /\ hour < MaxHour
  /\ hour' = hour + 1
  /\ UNCHANGED <<costs, traffic, made, task, scored, baselines, traffic_z, incidents, faults,
                 history, repeats>>

HandleTraffic == ScoreTraffic \/ StoreTraffic
HandleCost ==
  TakeCost \/ LearnCpu \/ Evaluate \/ SaveProfile \/ InsertAnomaly \/ PublishAnomaly \/ Ack

Next ==
  \/ HandleTraffic \/ HandleCost
  \/ Raise \/ AckFails \/ Restart
  \/ EmitCost \/ EmitTraffic \/ NextHour

Spec == Init /\ [][Next]_vars

----------------------------------------------------------------------------
(* Properties                                                              *)

TypeOK ==
  /\ costs \in Seq(Sample) /\ traffic \in Seq(Reading)
  /\ hour \in Hour
  /\ task \in Task \cup {NoTask}
  /\ scored \in Seq(Score)
  /\ cost_profile \in [Service -> Profile]
  /\ cpu_profile \in [Service -> Profile]
  /\ traffic_profile \in [Service -> Profile]
  /\ DOMAIN traffic_z \subseteq Service /\ traffic_z \in [DOMAIN traffic_z -> Int]
  /\ anomalies \in Seq(Anomaly)
  /\ published \subseteq Nat
  /\ made \in Made /\ faults \in Nat /\ repeats \in Nat
  /\ streak \in [Service -> SUBSET Identities]
  /\ absorbed \in [Service -> Nat] /\ unlearned \in [Service -> Nat]

(* "A flagged reading never trains the baseline", nor do the readings that *)
(* wait for dwell: of the readings counted toward an incident only every   *)
(* (MaxSuppressed + 1)th trained it, whatever was redelivered, dropped or  *)
(* restarted in between.                                                   *)
BaselineUnpoisoned ==
  \A s \in Service :
    (MaxSuppressed + 1) * absorbed[s] <= cost_profile[s].consecutive_qualifying

(* "Bounded, so a workload that has genuinely shifted is eventually        *)
(* re-baselined": never more than MaxSuppressed readings in a row go       *)
(* unlearned, although the count is kept in a row that restarts and        *)
(* redeliveries rewrite.                                                   *)
SuppressionBounded == \A s \in Service : unlearned[s] <= MaxSuppressed

(* CPU "should keep learning even while a cost anomaly is in progress":    *)
(* the CPU baseline is never behind the cost baseline, although the two    *)
(* are saved in separate transactions and either may be the last before a  *)
(* failure.                                                                *)
CpuKeepsLearning ==
  \A s \in Service, h \in Hour :
    cost_profile[s].buckets[h].n <= cpu_profile[s].buckets[h].n

(* An absent traffic signal is unknown, not zero: nothing is flagged for a *)
(* service this process has not heard traffic of, the dwell count that     *)
(* survived a restart notwithstanding.                                     *)
FlaggedOnlyIfHeard == \A i \in DOMAIN anomalies : anomalies[i].heard

(* "Three consecutive qualifying samples before anything is flagged": an   *)
(* incident rests on as many distinct samples as the threshold, short only *)
(* of those that were delivered more than once.  A sample is one pod's     *)
(* reading, so this is no statement about scrapes (IncidentSpansScrapes).  *)
DwellUpToRepeats ==
  \A i \in DOMAIN anomalies : Cardinality(anomalies[i].backing) + repeats >= Dwell

(* ... "so a scrape landing mid-garbage-collection cannot raise an incident *)
(* on its own": what the module's docstring concludes from dwell, that an  *)
(* incident rests on more than one scrape.                                 *)
IncidentSpansScrapes ==
  \A i \in DOMAIN anomalies : Cardinality({id[1] : id \in anomalies[i].backing}) > 1

(* What the detector publishes is uncorroborated, and no other term makes  *)
(* up for it: none of it reaches the autonomous threshold, however extreme *)
(* the reading and however mature the baseline.  (The documents blame the  *)
(* young baseline of a demo alone.)                                        *)
AutonomousThreshold == 850
NeverAutonomous == \A i \in DOMAIN anomalies : anomalies[i].confidence < AutonomousThreshold
=============================================================================
