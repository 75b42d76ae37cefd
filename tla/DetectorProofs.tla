--------------------------- MODULE DetectorProofs ---------------------------
(***************************************************************************)
(* Theorems about Detector, for every threshold, every set of services,    *)
(* every cost and rate, any number of replicas and any faults.             *)
(***************************************************************************)
EXTENDS Detector, FiniteSetTheorems, TLAPS

----------------------------------------------------------------------------
(* Lemmas about the score                                                  *)

LEMMA SigmasInt ==
  ASSUME NEW s \in Stats, NEW v \in Nat
  PROVE  Sigmas(s, v) \in Int
<1>. DEFINE Over  == {k \in 1 .. Cap : AtLeast(s, v, k)}
            Under == {k \in 0 .. Cap - 1 : Below(s, v, k)}
<1>1. IsFiniteSet(1 .. Cap) /\ IsFiniteSet(0 .. Cap - 1)
  <2>. 1 \in Int /\ Cap \in Int /\ 0 \in Int /\ Cap - 1 \in Int
    BY DEF Cap
  <2>. QED
    BY FS_Interval
<1>2. IsFiniteSet(Over) /\ IsFiniteSet(Under)
  BY <1>1, FS_Subset
<1>3. Cardinality(Over) \in Nat /\ Cardinality(Under) \in Nat
  BY <1>2, FS_CardinalityType
<1>. QED
  BY <1>3 DEF Sigmas

LEMMA ClampBounds ==
  ASSUME NEW x \in Int, NEW top \in Nat
  PROVE  Clamp(x, top) \in 0 .. top
BY DEF Clamp

(* A term scaled to a hundred stays within it.                             *)
LEMMA HundredthsBound ==
  ASSUME NEW c \in Nat, NEW m \in Nat \ {0}, c <= m
  PROVE  (100 * c) \div m \in 0 .. 100
<1>. DEFINE q == (100 * c) \div m
<1>1. q \in Int /\ m * q <= 100 * c /\ 100 * c < m * (q + 1)
  OBVIOUS
<1>2. q >= 0
  <2>1. SUFFICES ASSUME q + 1 <= 0 PROVE FALSE
    BY <1>1
  <2>2. m * (q + 1) <= 0
    BY <1>1, <2>1
  <2>. QED
    BY <1>1, <2>2
<1>3. q <= 100
  <2>1. SUFFICES ASSUME q >= 101 PROVE FALSE
    BY <1>1
  <2>2. m * q >= m * 101
    BY <1>1, <2>1
  <2>. QED
    BY <1>1, <2>2
<1>. QED
  BY <1>1, <1>2, <1>3

(* Without corroboration the four terms add up to 0.800 at most.           *)
LEMMA ConfidenceBound ==
  ASSUME NEW peak \in Int, NEW calm \in Int, NEW n \in Nat
  PROVE  Confidence(peak, calm, n) \in 0 .. 800
<1>1. Clamp(peak - 3, 5) \in 0 .. 5
  BY DEF Clamp
<1>2. Clamp(peak - calm, 6) \in 0 .. 6
  BY DEF Clamp
<1>3. (100 * Clamp(n, Maturity)) \div Maturity \in 0 .. 100
  <2>1. Maturity \in Nat \ {0}
    BY DetectorAssumption
  <2>2. Clamp(n, Maturity) \in 0 .. Maturity
    BY <2>1, ClampBounds
  <2>. QED
    BY <2>1, <2>2, HundredthsBound
<1>4. Corroboration = 0
  BY DetectorAssumption
<1>. QED
  BY <1>1, <1>2, <1>3, <1>4 DEF Confidence

----------------------------------------------------------------------------
(* Type correctness                                                        *)

LEMMA LearnType ==
  ASSUME NEW profile \in Profile, NEW h \in Hour, NEW v \in Nat
  PROVE  /\ Learn(profile, h, v) \in Profile
         /\ Learn(profile, h, v).consecutive = profile.consecutive
         /\ Learn(profile, h, v).consecutive_qualifying = profile.consecutive_qualifying
         /\ Learn(profile, h, v).buckets[h].n = profile.buckets[h].n + 1
         /\ \A g \in Hour : g # h => Learn(profile, h, v).buckets[g] = profile.buckets[g]
<1>. DEFINE new == Updated(profile.buckets[h], v)
            learned == [profile.buckets EXCEPT ![h] = new]
<1>1. profile.buckets \in [Hour -> Stats] /\ profile.buckets[h] \in Stats
  BY DEF Profile
<1>2. new \in Stats /\ new.n = profile.buckets[h].n + 1
  <2>1. v * v \in Nat
    OBVIOUS
  <2>. QED
    BY <1>1, <2>1 DEF Updated, Stats
<1>. HIDE DEF new
<1>3. /\ learned \in [Hour -> Stats]
      /\ learned[h] = new
      /\ \A g \in Hour : g # h => learned[g] = profile.buckets[g]
  BY <1>1, <1>2
<1>4. Learn(profile, h, v) = [profile EXCEPT !.buckets = learned]
  BY DEF Learn, new
<1>. HIDE DEF learned
<1>5. Learn(profile, h, v).buckets = learned
  BY <1>4 DEF Profile
<1>. QED
  BY <1>2, <1>3, <1>4, <1>5 DEF Profile

LEMMA TaskPhases ==
  ASSUME task \in Task \cup {NoTask}
  PROVE  /\ At("cpu") => task \in Received
         /\ At("evaluate") => task \in Measured
         /\ task.pc \in {"save", "insert", "publish", "ack"} => task \in Judged
         /\ ~At("idle") => task.sample \in Sample
BY DEF Task, Received, Measured, Judged, NoTask, At

(* The verdict on a sample: a well-typed profile whose counters follow the *)
(* stored ones, a confidence within the bound, and a flag that dwell and a *)
(* traffic signal warrant.                                                 *)
Verdict(x) ==
  /\ task'.pc = "save" /\ task'.sample = x
  /\ task'.learn <=> (~task'.qualifies \/ cost_profile[x.service].consecutive >= MaxSuppressed)
  /\ task'.profile.consecutive =
       IF task'.learn THEN 0 ELSE cost_profile[x.service].consecutive + 1
  /\ task'.profile.consecutive_qualifying =
       IF task'.qualifies THEN cost_profile[x.service].consecutive_qualifying + 1 ELSE 0
  /\ task'.flag => task'.profile.consecutive_qualifying >= Dwell /\ task'.heard
  /\ task'.confidence <= 800
  /\ \A h \in Hour : task'.profile.buckets[h].n <=
       cost_profile[x.service].buckets[h].n + (IF h = x.hour THEN 1 ELSE 0)

LEMMA EvaluateVerdict ==
  ASSUME TypeOK, Evaluate
  PROVE  task' \in Judged /\ Verdict(task.sample)
<1>. DEFINE x == task.sample
            profile == cost_profile[x.service]
            stats == profile.buckets[x.hour]
            qualifies == Qualifies(stats, x)
            dwell == DwellCount(qualifies, profile.consecutive_qualifying)
            flag == qualifies /\ dwell >= Dwell
            learn == ShouldLearn(qualifies, flag, profile.consecutive)
            learned == IF learn THEN Learn(profile, x.hour, x.cost) ELSE profile
            saved == [learned EXCEPT !.consecutive = IF learn THEN 0 ELSE @ + 1,
                                     !.consecutive_qualifying = dwell]
            conf == IF flag THEN ConfidenceIn(stats, x, learned.buckets[x.hour].n) ELSE 0
<1>1. task \in Measured /\ x \in Sample /\ task.cpu_z \in Int
  BY TaskPhases DEF TypeOK, Evaluate, At, Measured
<1>2. x.service \in Service /\ x.hour \in Hour /\ x.cost \in Nat
  BY <1>1, DetectorAssumption DEF Sample
<1>3. profile \in Profile /\ stats \in Stats
  <2>1. profile \in Profile
    BY <1>2 DEF TypeOK
  <2>. QED
    BY <1>2, <2>1 DEF Profile
<1>4. qualifies \in BOOLEAN /\ flag \in BOOLEAN /\ learn \in BOOLEAN
  BY DEF Qualifies, ShouldLearn
<1>5. dwell \in Nat
  BY <1>3, <1>4 DEF DwellCount, Profile
<1>6. learned \in Profile
  BY <1>2, <1>3, LearnType
<1>. HIDE DEF qualifies, dwell, flag, learn, learned
<1>7. saved \in Profile
  <2>. DEFINE suppressed == IF learn THEN 0 ELSE learned.consecutive + 1
  <2>1. suppressed \in Nat
    BY <1>4, <1>6 DEF Profile
  <2>2. saved = [learned EXCEPT !.consecutive = suppressed, !.consecutive_qualifying = dwell]
    OBVIOUS
  <2>. HIDE DEF suppressed, saved
  <2>. QED
    BY <1>5, <1>6, <2>1, <2>2 DEF Profile
<1>8. conf \in 0 .. 800
  <2>1. Peak(stats, x) \in Int
    BY <1>1, <1>2, <1>3, SigmasInt DEF Peak
  <2>. DEFINE z == TrafficZFor(x.service)
              calm == IF z = {} THEN 0 ELSE CHOOSE t \in z : TRUE
  <2>2. z \subseteq Int
    BY DEF TrafficZFor, TypeOK
  <2>3. calm \in Int
    BY <2>2
  <2>4. learned.buckets[x.hour].n \in Nat
    BY <1>2, <1>6 DEF Profile, Stats
  <2>. HIDE DEF z, calm
  <2>5. Confidence(Peak(stats, x), calm, learned.buckets[x.hour].n) \in 0 .. 800
    <3>. DEFINE peak == Peak(stats, x)
                n == learned.buckets[x.hour].n
    <3>1. peak \in Int /\ n \in Nat
      BY <2>1, <2>4
    <3>. HIDE DEF peak, n
    <3>2. Confidence(peak, calm, n) \in 0 .. 800
      BY <2>3, <3>1, ConfidenceBound, ZenonT(60)
    <3>. QED
      BY <3>2 DEF peak, n
  <2>6. ConfidenceIn(stats, x, learned.buckets[x.hour].n)
          = Confidence(Peak(stats, x), calm, learned.buckets[x.hour].n)
    BY DEF ConfidenceIn, z, calm
  <2>7. ConfidenceIn(stats, x, learned.buckets[x.hour].n) \in 0 .. 800
    BY <2>5, <2>6
  <2>. DEFINE raised == ConfidenceIn(stats, x, learned.buckets[x.hour].n)
  <2>8. conf = IF flag THEN raised ELSE 0
    OBVIOUS
  <2>9. raised \in 0 .. 800
    BY <2>7
  <2>10. 0 \in 0 .. 800
    OBVIOUS
  <2>. HIDE DEF raised, conf
  <2>. QED
    BY <1>4, <2>8, <2>9, <2>10
<1>9. task' = [pc |-> "save", sample |-> x, qualifies |-> qualifies, learn |-> learn,
               flag |-> flag, profile |-> saved, confidence |-> conf,
               heard |-> x.service \in DOMAIN traffic_z]
  BY DEF Evaluate, qualifies, dwell, flag, learn, learned
<1>. HIDE DEF conf, saved
<1>10. task' \in Judged
  BY <1>1, <1>4, <1>7, <1>8, <1>9 DEF Judged
<1>11. /\ learned.consecutive = profile.consecutive
       /\ \A h \in Hour : learned.buckets[h].n <=
            profile.buckets[h].n + (IF h = x.hour THEN 1 ELSE 0)
  <2>1. CASE learn
    <3>1. learned = Learn(profile, x.hour, x.cost)
      BY <2>1 DEF learned
    <3>2. \A h \in Hour : learned.buckets[h].n <= profile.buckets[h].n + (IF h = x.hour THEN 1 ELSE 0)
      <4>. TAKE h \in Hour
      <4>1. profile.buckets[h].n \in Nat
        BY <1>3 DEF Profile, Stats
      <4>2. CASE h = x.hour
        <5>1. learned.buckets[h].n = profile.buckets[h].n + 1
          BY <1>2, <1>3, <3>1, <4>2, LearnType
        <5>. QED
          BY <4>1, <4>2, <5>1
      <4>3. CASE h # x.hour
        <5>1. learned.buckets[h].n = profile.buckets[h].n
          BY <1>2, <1>3, <3>1, <4>3, LearnType
        <5>. QED
          BY <4>1, <4>3, <5>1
      <4>. QED
        BY <4>2, <4>3
    <3>3. learned.consecutive = profile.consecutive
      BY <1>2, <1>3, <3>1, LearnType
    <3>. QED
      BY <3>2, <3>3
  <2>2. CASE ~learn
    <3>1. learned = profile
      BY <2>2 DEF learned
    <3>. QED
      BY <1>2, <1>3, <3>1 DEF Profile, Stats
  <2>. QED
    BY <2>1, <2>2
<1>12. /\ saved.consecutive = IF learn THEN 0 ELSE learned.consecutive + 1
       /\ saved.consecutive_qualifying = dwell
       /\ saved.buckets = learned.buckets
  BY <1>6 DEF Profile, saved
<1>13. Verdict(x)
  <2>1. learn <=> (~qualifies \/ profile.consecutive >= MaxSuppressed)
    BY DEF ShouldLearn, learn
  <2>2. dwell = IF qualifies THEN profile.consecutive_qualifying + 1 ELSE 0
    BY DEF DwellCount, dwell
  <2>3. /\ task'.pc = "save" /\ task'.sample = x
        /\ task'.qualifies = qualifies /\ task'.learn = learn
        /\ task'.profile = saved /\ task'.confidence = conf
    BY <1>9
  <2>4. /\ task'.learn <=> (~task'.qualifies \/ profile.consecutive >= MaxSuppressed)
        /\ task'.profile.consecutive = IF task'.learn THEN 0 ELSE profile.consecutive + 1
        /\ task'.profile.consecutive_qualifying =
             IF task'.qualifies THEN profile.consecutive_qualifying + 1 ELSE 0
    BY <1>11, <1>12, <2>1, <2>2, <2>3
  <2>5. \A h \in Hour : task'.profile.buckets[h].n <=
          profile.buckets[h].n + (IF h = x.hour THEN 1 ELSE 0)
    BY <1>11, <1>12, <2>3
  <2>6. task'.confidence <= 800
    BY <1>8, <2>3
  <2>7. task'.flag => task'.profile.consecutive_qualifying >= Dwell /\ task'.heard
    <3>1. qualifies => x.service \in DOMAIN traffic_z
      BY DEF qualifies, Qualifies, TrafficZFor
    <3>2. flag => dwell >= Dwell /\ x.service \in DOMAIN traffic_z
      BY <3>1 DEF flag
    <3>3. task'.flag = flag /\ task'.heard = (x.service \in DOMAIN traffic_z)
      BY <1>9
    <3>. QED
      BY <1>12, <2>3, <3>2, <3>3
  <2>. QED
    BY <2>3, <2>4, <2>5, <2>6, <2>7 DEF Verdict
<1>. QED
  BY <1>10, <1>13

(* The parts of TypeOK, for steps that count.                              *)
LEMMA TypeParts ==
  ASSUME TypeOK
  PROVE  /\ costs \in Seq(Sample) /\ traffic \in Seq(Reading) /\ scored \in Seq(Score)
         /\ hour \in Hour /\ made \in Made /\ faults \in Nat /\ repeats \in Nat
         /\ absorbed \in [Service -> Nat] /\ unlearned \in [Service -> Nat]
         /\ streak \in [Service -> SUBSET Identities]
BY DEF TypeOK

LEMMA MadeCounts ==
  ASSUME TypeOK
  PROVE  /\ made.cost \in Nat /\ made.traffic \in Nat
         /\ [made EXCEPT !.cost = @ + 1] \in Made
         /\ [made EXCEPT !.traffic = @ + 1] \in Made
<1>1. made \in [cost : Nat, traffic : Nat]
  BY TypeParts DEF Made
<1>2. made.cost \in Nat /\ made.traffic \in Nat
  BY <1>1
<1>. DEFINE cost == made.cost + 1
            traffics == made.traffic + 1
<1>3. cost \in Nat /\ traffics \in Nat
  BY <1>2
<1>. HIDE DEF cost, traffics
<1>4. /\ [made EXCEPT !.cost = cost] \in Made
      /\ [made EXCEPT !.traffic = traffics] \in Made
  BY <1>1, <1>3 DEF Made
<1>. QED
  BY <1>2, <1>4 DEF cost, traffics

(* What each action leaves alone keeps its type; what it writes is typed   *)
(* case by case.                                                           *)
LEMMA TypeStep ==
  ASSUME TypeOK, [Next]_vars
  PROVE  TypeOK'
<1>. USE DEF stimuli, baselines, incidents, history
<1>1. CASE ScoreTraffic
  <2>. DEFINE r == Head(traffic)
              learned == Learn(traffic_profile[r.service], r.hour, r.rate)
              z == Sigmas(traffic_profile[r.service].buckets[r.hour], r.rate)
              entry == [service |-> r.service, z |-> z]
  <2>1. r \in Reading /\ traffic' \in Seq(Reading)
    BY <1>1 DEF ScoreTraffic, TypeOK
  <2>2. r.service \in Service /\ r.hour \in Hour /\ r.rate \in Nat
    BY <2>1, DetectorAssumption DEF Reading
  <2>3. traffic_profile[r.service] \in Profile
    BY <2>2 DEF TypeOK
  <2>4. traffic_profile[r.service].buckets[r.hour] \in Stats
    BY <2>2, <2>3 DEF Profile
  <2>5. z \in Int
    BY <2>2, <2>4, SigmasInt
  <2>6. learned \in Profile
    BY <2>2, <2>3, LearnType
  <2>7. scored' = <<entry>>
    BY <1>1 DEF ScoreTraffic
  <2>8. traffic_profile' = [traffic_profile EXCEPT ![r.service] = learned]
    BY <1>1 DEF ScoreTraffic
  <2>. HIDE DEF learned, z, r
  <2>9. scored' \in Seq(Score)
    <3>1. entry \in Score
      BY <2>2, <2>5 DEF Score
    <3>. HIDE DEF entry
    <3>. QED
      BY <2>7, <3>1
  <2>10. traffic_profile' \in [Service -> Profile]
    BY <2>2, <2>6, <2>8 DEF TypeOK
  <2>. QED
    BY <1>1, <2>1, <2>9, <2>10 DEF ScoreTraffic, TypeOK
<1>2. CASE StoreTraffic
  <2>. DEFINE r == Head(scored)
  <2>0. r \in Score
    BY <1>2, TypeParts DEF StoreTraffic
  <2>1. r.service \in Service /\ r.z \in Int
    BY <2>0 DEF Score
  <2>2. DOMAIN traffic_z' = DOMAIN traffic_z \cup {r.service}
    BY <1>2 DEF StoreTraffic
  <2>3. \A s \in DOMAIN traffic_z' : traffic_z'[s] \in Int
    BY <1>2, <2>1, <2>2 DEF StoreTraffic, TypeOK
  <2>4. traffic_z' = [s \in DOMAIN traffic_z' |-> traffic_z'[s]]
    BY <1>2, <2>2 DEF StoreTraffic
  <2>5. DOMAIN traffic_z' \subseteq Service
    BY <2>1, <2>2 DEF TypeOK
  <2>6. traffic_z' \in [DOMAIN traffic_z' -> Int]
    BY <2>3, <2>4
  <2>7. scored' \in Seq(Score)
    BY <1>2 DEF StoreTraffic
  <2>. QED
    BY <1>2, <2>5, <2>6, <2>7 DEF StoreTraffic, TypeOK
<1>3. CASE TakeCost
  <2>1. Head(costs) \in Sample /\ costs' \in Seq(Sample)
    BY <1>3 DEF TakeCost, TypeOK
  <2>2. task' \in Received
    BY <1>3, <2>1 DEF TakeCost, Received
  <2>. QED
    BY <1>3, <2>1, <2>2 DEF TakeCost, TypeOK, Task
<1>4. CASE LearnCpu
  <2>. DEFINE x == task.sample
              z == Sigmas(cpu_profile[x.service].buckets[x.hour], x.cost)
              learned == CpuLearned(x)
  <2>1. x \in Sample
    BY <1>4, TaskPhases DEF LearnCpu, TypeOK, At, Received
  <2>2. x.service \in Service /\ x.hour \in Hour /\ x.cost \in Nat
    BY <2>1, DetectorAssumption DEF Sample
  <2>3. cpu_profile[x.service] \in Profile
    BY <2>2 DEF TypeOK
  <2>4. learned \in Profile
    BY <2>2, <2>3, LearnType DEF CpuLearned
  <2>5. z \in Int
    <3>1. cpu_profile[x.service].buckets[x.hour] \in Stats
      BY <2>2, <2>3 DEF Profile
    <3>. QED
      BY <2>2, <3>1, SigmasInt
  <2>6. task' = [pc |-> "evaluate", sample |-> x, cpu_z |-> z]
    BY <1>4 DEF LearnCpu
  <2>7. cpu_profile' = [cpu_profile EXCEPT ![x.service] = learned]
    BY <1>4 DEF LearnCpu
  <2>. HIDE DEF z, learned, x
  <2>8. task' \in Measured
    BY <2>1, <2>5, <2>6 DEF Measured
  <2>9. cpu_profile' \in [Service -> Profile]
    BY <2>2, <2>4, <2>7 DEF TypeOK
  <2>. QED
    BY <1>4, <2>8, <2>9 DEF LearnCpu, TypeOK, Task
<1>5. CASE Evaluate
  <2>1. task' \in Task
    BY <1>5, EvaluateVerdict DEF Task
  <2>. QED
    BY <1>5, <2>1 DEF Evaluate, TypeOK
<1>6. CASE SaveProfile
  <2>1. task \in Judged /\ task.sample \in Sample
    BY <1>6, TaskPhases DEF SaveProfile, TypeOK, At, Judged
  <2>2. task.sample.service \in Service /\ task.profile \in Profile
    BY <2>1 DEF Judged, Sample
  <2>3. cost_profile' \in [Service -> Profile]
    BY <1>6, <2>2 DEF SaveProfile, TypeOK
  <2>4. streak' \in [Service -> SUBSET Identities]
    <3>1. Identity(task.sample) \in Identities
      BY <2>1 DEF Identity, Identities, Sample
    <3>. QED
      BY <1>6, <2>2, <3>1 DEF SaveProfile, TypeOK
  <2>5. absorbed' \in [Service -> Nat] /\ unlearned' \in [Service -> Nat]
    <3>. DEFINE s == task.sample.service
                a == IF ~task.qualifies THEN 0
                     ELSE IF task.learn THEN absorbed[s] + 1 ELSE absorbed[s]
                u == IF task.learn THEN 0 ELSE unlearned[s] + 1
    <3>1. /\ absorbed' = [absorbed EXCEPT ![s] = a]
          /\ unlearned' = [unlearned EXCEPT ![s] = u]
      BY <1>6 DEF SaveProfile
    <3>2. a \in Nat /\ u \in Nat
      BY <2>2, TypeParts, SMTT(40)
    <3>. HIDE DEF s, a, u
    <3>. QED
      BY <3>1, <3>2, TypeParts
  <2>6. task' \in Judged
    BY <1>6, <2>1 DEF SaveProfile, Judged
  <2>. QED
    BY <1>6, <2>3, <2>4, <2>5, <2>6 DEF SaveProfile, TypeOK, Task
<1>7. CASE InsertAnomaly
  <2>1. task \in Judged
    BY <1>7, TaskPhases DEF InsertAnomaly, TypeOK, At
  <2>. DEFINE row == [sample |-> task.sample, confidence |-> task.confidence,
                      heard |-> task.heard, backing |-> streak[task.sample.service]]
  <2>2. row \in Anomaly
    BY <2>1 DEF Judged, Anomaly, Sample, TypeOK
  <2>3. anomalies' = Append(anomalies, row)
    BY <1>7 DEF InsertAnomaly
  <2>. HIDE DEF row
  <2>4. anomalies' \in Seq(Anomaly)
    BY <2>2, <2>3 DEF TypeOK
  <2>5. task' \in Judged
    BY <1>7, <2>1 DEF InsertAnomaly, Judged
  <2>. QED
    BY <1>7, <2>4, <2>5 DEF InsertAnomaly, TypeOK, Task
<1>8. CASE PublishAnomaly
  <2>1. task \in Judged
    BY <1>8, TaskPhases DEF PublishAnomaly, TypeOK, At
  <2>2. task' \in Judged
    BY <1>8, <2>1 DEF PublishAnomaly, Judged
  <2>3. published' \subseteq Nat
    BY <1>8 DEF PublishAnomaly, TypeOK
  <2>. QED
    BY <1>8, <2>2, <2>3 DEF PublishAnomaly, TypeOK, Task
<1>9. CASE Ack \/ Raise
  <2>1. faults' \in Nat
    BY <1>9, TypeParts DEF Ack, Raise, Fault
  <2>. QED
    BY <1>9, <2>1 DEF Ack, Raise, TypeOK
<1>10. CASE AckFails
  <2>1. task.sample \in Sample
    BY <1>10, TaskPhases DEF AckFails, TypeOK, At
  <2>2. costs' \in Seq(Sample)
    BY <1>10, <2>1, TypeParts DEF AckFails
  <2>3. repeats' \in Nat
    BY <1>10, TypeParts DEF AckFails
  <2>4. faults' \in Nat
    BY <1>10, TypeParts DEF AckFails, Fault
  <2>. QED
    BY <1>10, <2>2, <2>3, <2>4 DEF AckFails, TypeOK
<1>11. CASE Restart
  <2>1. costs' \in Seq(Sample)
    <3>1. CASE At("idle")
      BY <1>11, <3>1 DEF Restart, TypeOK
    <3>2. CASE ~At("idle")
      <4>1. task.sample \in Sample
        BY <3>2, TaskPhases DEF TypeOK
      <4>. QED
        BY <1>11, <3>2, <4>1 DEF Restart, TypeOK
    <3>. QED
      BY <3>1, <3>2
  <2>2. DOMAIN traffic_z' \subseteq Service /\ traffic_z' \in [DOMAIN traffic_z' -> Int]
    BY <1>11 DEF Restart
  <2>3. repeats' \in Nat
    BY <1>11, TypeParts DEF Restart
  <2>4. faults' \in Nat
    BY <1>11, TypeParts DEF Restart, Fault
  <2>. QED
    BY <1>11, <2>1, <2>2, <2>3, <2>4 DEF Restart, TypeOK
<1>12. CASE EmitCost
  <2>. PICK s \in Service, v \in [1 .. Replicas -> Cost] :
         LET batch == [p \in 1 .. Replicas |->
                        [scrape |-> made.cost + 1, pod |-> p, service |-> s, cost |-> v[p],
                         hour |-> hour]]
         IN \/ /\ costs' = batch
               /\ UNCHANGED <<faults, repeats>>
            \/ /\ Fault("duplicate")
               /\ \E p \in 1 .. Replicas :
                    costs' = SubSeq(batch, 1, p) \o SubSeq(batch, p, Replicas)
               /\ repeats' = repeats + 1
    BY <1>12 DEF EmitCost
  <2>. DEFINE sample(p) == [scrape |-> made.cost + 1, pod |-> p, service |-> s,
                            cost |-> v[p], hour |-> hour]
              batch == [p \in 1 .. Replicas |-> sample(p)]
  <2>1. \A p \in 1 .. Replicas : sample(p) \in Sample
    <3>1. made.cost + 1 \in 1 .. MaxScrape
      BY <1>12, MadeCounts, DetectorAssumption, SMTT(40) DEF EmitCost
    <3>2. hour \in Hour
      BY TypeParts
    <3>. QED
      BY <3>1, <3>2 DEF Sample
  <2>2. batch \in Seq(Sample) /\ Len(batch) = Replicas
    <3>. HIDE DEF sample
    <3>1. batch \in [1 .. Replicas -> Sample]
      BY <2>1
    <3>2. Replicas \in Nat
      BY DetectorAssumption
    <3>. HIDE DEF batch
    <3>. QED
      BY <3>1, <3>2
  <2>3. \/ costs' = batch /\ UNCHANGED <<faults, repeats>>
        \/ /\ Fault("duplicate") /\ repeats' = repeats + 1
           /\ \E p \in 1 .. Replicas :
                costs' = SubSeq(batch, 1, p) \o SubSeq(batch, p, Replicas)
    OBVIOUS
  <2>. HIDE DEF batch
  <2>4. costs' \in Seq(Sample)
    <3>1. CASE costs' = batch
      BY <2>2, <3>1
    <3>2. CASE \E p \in 1 .. Replicas :
                 costs' = SubSeq(batch, 1, p) \o SubSeq(batch, p, Replicas)
      <4>. PICK p \in 1 .. Replicas :
                  costs' = SubSeq(batch, 1, p) \o SubSeq(batch, p, Replicas)
        BY <3>2
      <4>1. SubSeq(batch, 1, p) \in Seq(Sample) /\ SubSeq(batch, p, Replicas) \in Seq(Sample)
        BY <2>2
      <4>. QED
        BY <4>1
    <3>. QED
      BY <2>3, <3>1, <3>2
  <2>5. faults' \in Nat /\ repeats' \in Nat
    BY <2>3, TypeParts, SMTT(40) DEF Fault
  <2>6. made' \in Made
    BY <1>12, MadeCounts DEF EmitCost
  <2>. QED
    BY <1>12, <2>4, <2>5, <2>6 DEF EmitCost, TypeOK
<1>13. CASE EmitTraffic
  <2>. PICK s \in Service, v \in Rate :
         traffic' = Append(traffic, [service |-> s, rate |-> v, hour |-> hour])
    BY <1>13 DEF EmitTraffic
  <2>. DEFINE reading == [service |-> s, rate |-> v, hour |-> hour]
  <2>1. reading \in Reading
    BY TypeParts DEF Reading
  <2>2. traffic' = Append(traffic, reading)
    OBVIOUS
  <2>. HIDE DEF reading
  <2>3. traffic' \in Seq(Reading)
    BY <2>1, <2>2, TypeParts
  <2>4. made' \in Made
    BY <1>13, MadeCounts DEF EmitTraffic
  <2>. QED
    BY <1>13, <2>3, <2>4 DEF EmitTraffic, TypeOK
<1>14. CASE NextHour
  <2>1. hour' \in Hour
    BY <1>14, TypeParts, DetectorAssumption DEF NextHour, Hour
  <2>. QED
    BY <1>14, <2>1 DEF NextHour, TypeOK
<1>15. CASE UNCHANGED vars
  BY <1>15 DEF vars, TypeOK
<1>. QED
  BY <1>1, <1>2, <1>3, <1>4, <1>5, <1>6, <1>7, <1>8, <1>9, <1>10, <1>11, <1>12, <1>13,
     <1>14, <1>15 DEF Next, HandleTraffic, HandleCost

LEMMA TypeInit == Init => TypeOK
<1>. SUFFICES ASSUME Init PROVE TypeOK
  OBVIOUS
<1>0. WarmCost \in Stats /\ WarmRate \in Stats
  BY DetectorAssumption
<1>1. \A stats \in Stats : Warm(stats) \in Profile
  <2>. TAKE stats \in Stats
  <2>1. NoStats \in Stats
    BY DEF NoStats, Stats
  <2>. DEFINE filled == [h \in Hour |-> IF h = 0 THEN stats ELSE NoStats]
  <2>2. filled \in [Hour -> Stats]
    BY <2>1
  <2>3. Warm(stats) = [buckets |-> filled, consecutive |-> 0, consecutive_qualifying |-> 0]
    BY DEF Warm
  <2>. HIDE DEF filled
  <2>. QED
    BY <2>2, <2>3 DEF Profile
<1>2. /\ cost_profile \in [Service -> Profile]
      /\ cpu_profile \in [Service -> Profile]
      /\ traffic_profile \in [Service -> Profile]
  BY <1>0, <1>1 DEF Init
<1>3. DOMAIN traffic_z \subseteq Service /\ traffic_z \in [DOMAIN traffic_z -> Int]
  BY DEF Init
<1>4. hour \in Hour /\ made \in Made
  BY DetectorAssumption DEF Init, Hour, Made
<1>5. /\ streak \in [Service -> SUBSET Identities]
      /\ absorbed \in [Service -> Nat] /\ unlearned \in [Service -> Nat]
  BY DEF Init
<1>6. /\ costs \in Seq(Sample) /\ traffic \in Seq(Reading) /\ scored \in Seq(Score)
      /\ anomalies \in Seq(Anomaly) /\ published \subseteq Nat
  BY DEF Init
<1>. QED
  BY <1>2, <1>3, <1>4, <1>5, <1>6 DEF Init, TypeOK

(* The samples, profiles, verdicts and incidents are well-formed whatever  *)
(* is lost, repeated or restarted.                                         *)
THEOREM TypeCorrect == Spec => []TypeOK
BY TypeInit, TypeStep, PTL DEF Spec

----------------------------------------------------------------------------
(* The inductive invariant.  Between Evaluate and SaveProfile the verdict  *)
(* describes a profile that is not stored yet, so each part says what the  *)
(* verdict in hand promises as well as what is stored.                     *)

(* No confidence, awaited or recorded, exceeds the uncorroborated maximum. *)
Fitting ==
  /\ task.pc \in {"save", "insert"} => task.confidence <= 800
  /\ \A i \in DOMAIN anomalies : anomalies[i].confidence <= 800

(* The stored counters measure what happened: consecutive the readings     *)
(* unlearned in a row, and consecutive_qualifying whole suppression        *)
(* cycles, each of MaxSuppressed readings held back and one absorbed, plus *)
(* the cycle in progress.                                                  *)
CycleLength == MaxSuppressed + 1
Counting ==
  \A s \in Service :
    /\ unlearned[s] = cost_profile[s].consecutive
    /\ unlearned[s] <= MaxSuppressed
    /\ cost_profile[s].consecutive_qualifying = CycleLength * absorbed[s] + unlearned[s]

(* The verdict in hand continues the stored counters.                      *)
Judging ==
  At("save") =>
    LET stored == cost_profile[task.sample.service] IN
    /\ task.learn <=> (~task.qualifies \/ stored.consecutive >= MaxSuppressed)
    /\ task.profile.consecutive = IF task.learn THEN 0 ELSE stored.consecutive + 1
    /\ task.profile.consecutive_qualifying =
         IF task.qualifies THEN stored.consecutive_qualifying + 1 ELSE 0

(* The cost baseline keeps behind the CPU baseline, with room for the      *)
(* sample in hand once LearnCpu has counted it.                            *)
KeepsPace ==
  /\ CpuKeepsLearning
  /\ At("evaluate") =>
       LET x == task.sample IN
       cost_profile[x.service].buckets[x.hour].n < cpu_profile[x.service].buckets[x.hour].n
  /\ At("save") =>
       \A h \in Hour :
         task.profile.buckets[h].n <= cpu_profile[task.sample.service].buckets[h].n

IInv == TypeOK /\ Fitting /\ Counting /\ Judging /\ KeepsPace

(* The phase a task is in after each action of the cost thread, or a fault. *)
LEMMA PhaseStep ==
  ASSUME TypeOK, [Next]_vars
  PROVE  \/ Evaluate \/ SaveProfile \/ InsertAnomaly \/ LearnCpu
         \/ /\ UNCHANGED <<cost_profile, cpu_profile, absorbed, unlearned, anomalies>>
            /\ task' = task \/ task'.pc \in {"idle", "cpu", "ack"}
<1>. USE DEF stimuli, baselines, incidents, history
<1>1. CASE HandleTraffic \/ EmitCost \/ EmitTraffic \/ NextHour \/ UNCHANGED vars
  BY <1>1 DEF HandleTraffic, ScoreTraffic, StoreTraffic, EmitCost, EmitTraffic, NextHour, vars
<1>2. CASE TakeCost \/ Ack \/ Raise \/ AckFails \/ Restart
  BY <1>2 DEF TakeCost, Ack, Raise, AckFails, Restart, NoTask
<1>3. CASE PublishAnomaly
  <2>1. task \in Judged
    BY <1>3, TaskPhases DEF PublishAnomaly, TypeOK, At
  <2>2. task'.pc = "ack"
    BY <1>3, <2>1 DEF PublishAnomaly, Judged
  <2>. QED
    BY <1>3, <2>2 DEF PublishAnomaly
<1>. QED
  BY <1>1, <1>2, <1>3 DEF Next, HandleCost

LEMMA FittingStep ==
  ASSUME TypeOK, Fitting, [Next]_vars
  PROVE  Fitting'
<1>. USE DEF stimuli, baselines, incidents, history
<1>1. CASE Evaluate
  <2>1. task'.confidence <= 800
    BY <1>1, EvaluateVerdict DEF Verdict
  <2>2. anomalies' = anomalies
    BY <1>1 DEF Evaluate
  <2>. QED
    BY <2>1, <2>2 DEF Fitting
<1>2. CASE SaveProfile
  <2>1. task \in Judged /\ task.confidence <= 800
    BY <1>2, TaskPhases DEF SaveProfile, TypeOK, At, Fitting
  <2>2. task'.confidence = task.confidence
    BY <1>2, <2>1 DEF SaveProfile, Judged
  <2>. QED
    BY <1>2, <2>1, <2>2 DEF SaveProfile, Fitting
<1>3. CASE InsertAnomaly
  <2>1. task \in Judged /\ task.confidence <= 800
    BY <1>3, TaskPhases DEF InsertAnomaly, TypeOK, At, Fitting
  <2>2. task'.pc = "publish"
    BY <1>3, <2>1 DEF InsertAnomaly, Judged
  <2>. DEFINE row == [sample |-> task.sample, confidence |-> task.confidence,
                      heard |-> task.heard, backing |-> streak[task.sample.service]]
  <2>3. anomalies' = Append(anomalies, row) /\ row.confidence <= 800
    BY <1>3, <2>1 DEF InsertAnomaly
  <2>4. anomalies \in Seq(Anomaly)
    BY DEF TypeOK
  <2>. HIDE DEF row
  <2>5. \A i \in DOMAIN anomalies' : anomalies'[i].confidence <= 800
    <3>1. \A i \in DOMAIN anomalies' :
            \/ i \in DOMAIN anomalies /\ anomalies'[i] = anomalies[i]
            \/ anomalies'[i] = row
      BY <2>3, <2>4
    <3>. QED
      BY <2>3, <3>1 DEF Fitting
  <2>. QED
    BY <2>2, <2>5 DEF Fitting
<1>4. CASE LearnCpu
  BY <1>4 DEF LearnCpu, Fitting
<1>5. CASE /\ UNCHANGED <<cost_profile, cpu_profile, absorbed, unlearned, anomalies>>
           /\ task' = task \/ task'.pc \in {"idle", "cpu", "ack"}
  BY <1>5 DEF Fitting
<1>. QED
  BY <1>1, <1>2, <1>3, <1>4, <1>5, PhaseStep

(* The verdict is made from the stored counters, and only SaveProfile,     *)
(* which ends it, writes them.                                             *)
LEMMA JudgingStep ==
  ASSUME TypeOK, Judging, [Next]_vars
  PROVE  Judging'
<1>. USE DEF stimuli, baselines, incidents, history
<1>1. CASE Evaluate
  <2>1. Verdict(task.sample) /\ cost_profile' = cost_profile
    BY <1>1, EvaluateVerdict DEF Evaluate
  <2>. QED
    BY <2>1 DEF Verdict, Judging
<1>2. CASE SaveProfile
  <2>1. task \in Judged
    BY <1>2, TaskPhases DEF SaveProfile, TypeOK, At
  <2>2. task'.pc # "save"
    BY <1>2, <2>1 DEF SaveProfile, Judged
  <2>. QED
    BY <2>2 DEF Judging, At
<1>3. CASE InsertAnomaly
  <2>1. task \in Judged
    BY <1>3, TaskPhases DEF InsertAnomaly, TypeOK, At
  <2>2. task'.pc # "save"
    BY <1>3, <2>1 DEF InsertAnomaly, Judged
  <2>. QED
    BY <2>2 DEF Judging, At
<1>4. CASE LearnCpu
  BY <1>4 DEF LearnCpu, Judging, At
<1>5. CASE /\ UNCHANGED <<cost_profile, cpu_profile, absorbed, unlearned, anomalies>>
           /\ task' = task \/ task'.pc \in {"idle", "cpu", "ack"}
  BY <1>5 DEF Judging, At
<1>. QED
  BY <1>1, <1>2, <1>3, <1>4, <1>5, PhaseStep

(* Saving a verdict advances the cycle by one reading or closes it.        *)
LEMMA CountingStep ==
  ASSUME TypeOK, Counting, Judging, [Next]_vars
  PROVE  Counting'
<1>. USE DEF stimuli, baselines, incidents, history
<1>1. CASE SaveProfile
  <2>. DEFINE s == task.sample.service
              a == absorbed[s]
              u == unlearned[s]
  <2>1. task \in Judged /\ s \in Service
    BY <1>1, TaskPhases DEF SaveProfile, TypeOK, At, Judged, Sample
  <2>2. a \in Nat /\ u \in Nat /\ MaxSuppressed \in Nat
    BY <2>1, TypeParts, DetectorAssumption
  <2>3. /\ u <= MaxSuppressed
        /\ task.learn <=> (~task.qualifies \/ u >= MaxSuppressed)
        /\ task.profile.consecutive = IF task.learn THEN 0 ELSE u + 1
        /\ task.profile.consecutive_qualifying =
             IF task.qualifies THEN CycleLength * a + u + 1 ELSE 0
    BY <1>1, <2>1 DEF SaveProfile, Judging, Counting
  <2>4. /\ cost_profile' = [cost_profile EXCEPT ![s] = task.profile]
        /\ absorbed' = [absorbed EXCEPT ![s] =
                          IF ~task.qualifies THEN 0 ELSE IF task.learn THEN @ + 1 ELSE @]
        /\ unlearned' = [unlearned EXCEPT ![s] = IF task.learn THEN 0 ELSE @ + 1]
    BY <1>1 DEF SaveProfile
  <2>5. /\ cost_profile'[s] = task.profile
        /\ absorbed'[s] = IF ~task.qualifies THEN 0 ELSE IF task.learn THEN a + 1 ELSE a
        /\ unlearned'[s] = IF task.learn THEN 0 ELSE u + 1
        /\ \A t \in Service \ {s} : /\ cost_profile'[t] = cost_profile[t]
                                    /\ absorbed'[t] = absorbed[t]
                                    /\ unlearned'[t] = unlearned[t]
    BY <2>1, <2>4, TypeParts DEF TypeOK
  <2>. HIDE DEF a, u, s
  <2>6. unlearned'[s] = cost_profile'[s].consecutive /\ unlearned'[s] <= MaxSuppressed
    <3>1. CASE task.learn
      BY <2>2, <2>3, <2>5, <3>1
    <3>2. CASE ~task.learn
      BY <2>2, <2>3, <2>5, <3>2
    <3>. QED
      BY <3>1, <3>2
  <2>7. cost_profile'[s].consecutive_qualifying = CycleLength * absorbed'[s] + unlearned'[s]
    <3>1. CASE ~task.qualifies
      BY <2>2, <2>3, <2>5, <3>1 DEF CycleLength
    <3>2. CASE task.qualifies /\ task.learn
      <4>1. u = MaxSuppressed
        BY <2>2, <2>3, <3>2
      <4>2. CycleLength * (a + 1) = CycleLength * a + MaxSuppressed + 1
        BY <2>2 DEF CycleLength
      <4>. QED
        BY <2>2, <2>3, <2>5, <3>2, <4>1, <4>2 DEF CycleLength
    <3>3. CASE task.qualifies /\ ~task.learn
      <4>1. CycleLength * a \in Nat
        BY <2>2 DEF CycleLength
      <4>. QED
        BY <2>2, <2>3, <2>5, <3>3, <4>1
    <3>. QED
      BY <3>1, <3>2, <3>3
  <2>. QED
    BY <2>5, <2>6, <2>7 DEF Counting
<1>2. CASE Evaluate \/ InsertAnomaly \/ LearnCpu
  BY <1>2 DEF Evaluate, InsertAnomaly, LearnCpu, Counting
<1>3. CASE UNCHANGED <<cost_profile, cpu_profile, absorbed, unlearned, anomalies>>
  BY <1>3 DEF Counting
<1>. QED
  BY <1>1, <1>2, <1>3, PhaseStep

(* LearnCpu makes the room that Evaluate and SaveProfile use up.           *)
LEMMA KeepsPaceStep ==
  ASSUME TypeOK, KeepsPace, [Next]_vars
  PROVE  KeepsPace'
<1>. USE DEF stimuli, baselines, incidents, history
<1>0. \A s \in Service, h \in Hour :
        /\ cost_profile[s].buckets[h].n \in Nat
        /\ cpu_profile[s].buckets[h].n \in Nat
  <2>1. \A s \in Service : cost_profile[s] \in Profile /\ cpu_profile[s] \in Profile
    BY DEF TypeOK
  <2>2. \A q \in Profile, h \in Hour : q.buckets[h].n \in Nat
    BY DEF Profile, Stats
  <2>. QED
    BY <2>1, <2>2
<1>1. CASE LearnCpu
  <2>. DEFINE x == task.sample
  <2>1. x \in Sample
    BY <1>1, TaskPhases DEF LearnCpu, TypeOK, At
  <2>2. x.service \in Service /\ x.hour \in Hour /\ x.cost \in Nat
    BY <2>1, DetectorAssumption DEF Sample
  <2>3. cpu_profile[x.service] \in Profile
    BY <2>2 DEF TypeOK
  <2>4. task'.pc = "evaluate" /\ task'.sample = x
    BY <1>1 DEF LearnCpu
  <2>. DEFINE learned == CpuLearned(x)
  <2>5. /\ learned.buckets[x.hour].n = cpu_profile[x.service].buckets[x.hour].n + 1
        /\ \A h \in Hour : h # x.hour =>
             learned.buckets[h].n = cpu_profile[x.service].buckets[h].n
    BY <2>2, <2>3, LearnType, ZenonT(60) DEF CpuLearned
  <2>6. cpu_profile' = [cpu_profile EXCEPT ![x.service] = learned]
    BY <1>1 DEF LearnCpu
  <2>. HIDE DEF learned, x
  <2>7. \A s \in Service, h \in Hour :
          IF s = x.service /\ h = x.hour
          THEN cpu_profile'[s].buckets[h].n = cpu_profile[s].buckets[h].n + 1
          ELSE cpu_profile'[s].buckets[h].n = cpu_profile[s].buckets[h].n
    BY <2>2, <2>5, <2>6 DEF TypeOK
  <2>8. cost_profile' = cost_profile
    BY <1>1 DEF LearnCpu
  <2>9. \A s \in Service, h \in Hour :
          cost_profile[s].buckets[h].n <= cpu_profile[s].buckets[h].n
    BY DEF KeepsPace, CpuKeepsLearning
  <2>10. CpuKeepsLearning'
    BY <1>0, <2>7, <2>8, <2>9 DEF CpuKeepsLearning
  <2>11. cost_profile'[x.service].buckets[x.hour].n < cpu_profile'[x.service].buckets[x.hour].n
    BY <1>0, <2>2, <2>7, <2>8, <2>9
  <2>. QED
    BY <2>4, <2>10, <2>11 DEF KeepsPace, At
<1>2. CASE Evaluate
  <2>. DEFINE x == task.sample
  <2>1. /\ Verdict(x) /\ task'.pc = "save" /\ task'.sample = x
        /\ cost_profile' = cost_profile /\ cpu_profile' = cpu_profile
    BY <1>2, EvaluateVerdict DEF Evaluate, Verdict
  <2>2. x.service \in Service /\ x.hour \in Hour
    BY <1>2, TaskPhases DEF Evaluate, TypeOK, At, Sample
  <2>3. task' \in Judged
    BY <1>2, EvaluateVerdict
  <2>. HIDE DEF x
  <2>4. \A h \in Hour : task'.profile.buckets[h].n <= cpu_profile[x.service].buckets[h].n
    <3>. TAKE h \in Hour
    <3>1. task'.profile.buckets[h].n \in Nat
      BY <2>3 DEF Judged, Profile, Stats
    <3>2. task'.profile.buckets[h].n <=
            cost_profile[x.service].buckets[h].n + (IF h = x.hour THEN 1 ELSE 0)
      BY <2>1 DEF Verdict
    <3>3. cost_profile[x.service].buckets[h].n <= cpu_profile[x.service].buckets[h].n
      BY <2>2 DEF KeepsPace, CpuKeepsLearning
    <3>4. h = x.hour => cost_profile[x.service].buckets[h].n < cpu_profile[x.service].buckets[h].n
      BY <1>2 DEF KeepsPace, Evaluate, x
    <3>. QED
      BY <1>0, <2>2, <3>1, <3>2, <3>3, <3>4
  <2>5. CpuKeepsLearning'
    BY <2>1 DEF KeepsPace, CpuKeepsLearning
  <2>. QED
    BY <2>1, <2>4, <2>5 DEF KeepsPace, At
<1>3. CASE SaveProfile
  <2>. DEFINE s == task.sample.service
  <2>1. task \in Judged /\ s \in Service
    BY <1>3, TaskPhases DEF SaveProfile, TypeOK, At, Judged, Sample
  <2>2. cost_profile' = [cost_profile EXCEPT ![s] = task.profile] /\ cpu_profile' = cpu_profile
    BY <1>3 DEF SaveProfile
  <2>3. \A h \in Hour : task.profile.buckets[h].n <= cpu_profile[s].buckets[h].n
    BY <1>3 DEF SaveProfile, KeepsPace
  <2>4. task'.pc \in {"insert", "ack"}
    BY <1>3, <2>1 DEF SaveProfile, Judged
  <2>. HIDE DEF s
  <2>5. CpuKeepsLearning'
    BY <2>1, <2>2, <2>3 DEF TypeOK, KeepsPace, CpuKeepsLearning
  <2>. QED
    BY <2>4, <2>5 DEF KeepsPace, At
<1>4. CASE InsertAnomaly
  <2>1. task \in Judged
    BY <1>4, TaskPhases DEF InsertAnomaly, TypeOK, At
  <2>2. task'.pc = "publish"
    BY <1>4, <2>1 DEF InsertAnomaly, Judged
  <2>. QED
    BY <1>4, <2>2 DEF InsertAnomaly, KeepsPace, CpuKeepsLearning, At
<1>5. CASE /\ UNCHANGED <<cost_profile, cpu_profile, absorbed, unlearned, anomalies>>
           /\ task' = task \/ task'.pc \in {"idle", "cpu", "ack"}
  BY <1>5 DEF KeepsPace, CpuKeepsLearning, At
<1>. QED
  BY <1>1, <1>2, <1>3, <1>4, <1>5, PhaseStep

LEMMA InvariantInit == Init => IInv
<1>. SUFFICES ASSUME Init PROVE IInv
  OBVIOUS
<1>1. task.pc = "idle" /\ anomalies = << >>
  BY DEF Init, NoTask
<1>2. Fitting /\ Judging
  BY <1>1 DEF Fitting, Judging, At
<1>3. Counting
  <2>1. \A s \in Service : /\ cost_profile[s].consecutive = 0
                           /\ cost_profile[s].consecutive_qualifying = 0
                           /\ absorbed[s] = 0 /\ unlearned[s] = 0
    BY DEF Init, Warm
  <2>2. MaxSuppressed \in Nat /\ CycleLength * 0 + 0 = 0
    BY DetectorAssumption DEF CycleLength
  <2>. QED
    BY <2>1, <2>2 DEF Counting
<1>4. KeepsPace
  <2>1. cost_profile = cpu_profile
    BY DEF Init
  <2>2. \A s \in Service, h \in Hour : cpu_profile[s].buckets[h].n \in Nat
    BY TypeInit DEF TypeOK, Profile, Stats
  <2>. QED
    BY <1>1, <2>1, <2>2 DEF KeepsPace, CpuKeepsLearning, At
<1>. QED
  BY <1>2, <1>3, <1>4, TypeInit DEF IInv

LEMMA Invariant == Spec => []IInv
<1>1. IInv /\ [Next]_vars => IInv'
  BY TypeStep, FittingStep, JudgingStep, CountingStep, KeepsPaceStep DEF IInv
<1>. QED
  BY <1>1, InvariantInit, PTL DEF Spec

----------------------------------------------------------------------------
(* What the detector publishes never reaches the autonomous threshold, for *)
(* any baseline, however mature, and any reading, however extreme.         *)
THEOREM NothingAutonomous == Spec => []NeverAutonomous
<1>1. IInv => NeverAutonomous
  <2>. SUFFICES ASSUME IInv PROVE NeverAutonomous
    OBVIOUS
  <2>0. anomalies \in Seq(Anomaly)
    BY DEF IInv, TypeOK
  <2>1. \A i \in DOMAIN anomalies : anomalies[i].confidence \in Nat
    <3>1. \A i \in DOMAIN anomalies : anomalies[i] \in Anomaly
      BY <2>0
    <3>. QED
      BY <3>1 DEF Anomaly
  <2>. QED
    BY <2>1 DEF IInv, Fitting, NeverAutonomous, AutonomousThreshold
<1>. QED
  BY <1>1, Invariant, PTL

(* An incident trains its baseline at most once in MaxSuppressed + 1       *)
(* readings, and a shift holds it still for at most MaxSuppressed.         *)
THEOREM SuppressionHolds == Spec => [](BaselineUnpoisoned /\ SuppressionBounded)
<1>1. IInv => BaselineUnpoisoned /\ SuppressionBounded
  <2>. SUFFICES ASSUME IInv PROVE BaselineUnpoisoned /\ SuppressionBounded
    OBVIOUS
  <2>1. SuppressionBounded
    BY DEF IInv, Counting, SuppressionBounded
  <2>2. BaselineUnpoisoned
    <3>. SUFFICES ASSUME NEW s \in Service
                  PROVE  (MaxSuppressed + 1) * absorbed[s]
                           <= cost_profile[s].consecutive_qualifying
      BY DEF BaselineUnpoisoned
    <3>1. absorbed[s] \in Nat /\ unlearned[s] \in Nat /\ MaxSuppressed \in Nat
      BY DetectorAssumption DEF IInv, TypeOK
    <3>2. (MaxSuppressed + 1) * absorbed[s] \in Nat
      BY <3>1
    <3>3. cost_profile[s].consecutive_qualifying =
            (MaxSuppressed + 1) * absorbed[s] + unlearned[s]
      BY DEF IInv, Counting, CycleLength
    <3>. QED
      BY <3>1, <3>2, <3>3
  <2>. QED
    BY <2>1, <2>2
<1>. QED
  BY <1>1, Invariant, PTL

(* The CPU baseline is never behind the cost baseline.                     *)
THEOREM CpuLearns == Spec => []CpuKeepsLearning
<1>1. IInv => CpuKeepsLearning
  BY DEF IInv, KeepsPace
<1>. QED
  BY <1>1, Invariant, PTL

----------------------------------------------------------------------------
(* Dwell                                                                   *)

(* The positions of service s in a queue, counted from its end so that a   *)
(* sample put back at its head moves no other, and the samples they name.  *)
Awaiting(u, s) == {j \in 0 .. Len(u) - 1 : u[Len(u) - j].service = s}
Names(u, s) == {Identity(u[Len(u) - j]) : j \in Awaiting(u, s)}

LEMMA QueueFinite ==
  ASSUME NEW u \in Seq(Sample), NEW s \in Service
  PROVE  /\ IsFiniteSet(Awaiting(u, s))
         /\ Names(u, s) \subseteq Identities
         /\ IsFiniteSet(Names(u, s))
         /\ Cardinality(Names(u, s)) <= Cardinality(Awaiting(u, s))
<1>1. IsFiniteSet(Awaiting(u, s))
  <2>1. Len(u) \in Nat /\ 0 \in Int /\ Len(u) - 1 \in Int
    OBVIOUS
  <2>2. IsFiniteSet(0 .. Len(u) - 1)
    BY <2>1, FS_Interval
  <2>3. Awaiting(u, s) \in SUBSET (0 .. Len(u) - 1)
    BY DEF Awaiting
  <2>. QED
    BY <2>2, <2>3, FS_Subset
<1>2. Names(u, s) \subseteq Identities
  <2>. SUFFICES ASSUME NEW j \in Awaiting(u, s) PROVE Identity(u[Len(u) - j]) \in Identities
    BY DEF Names
  <2>1. u[Len(u) - j] \in Sample
    BY DEF Awaiting
  <2>. QED
    BY <2>1 DEF Sample, Identity, Identities
<1>3. IsFiniteSet(Names(u, s)) /\ Cardinality(Names(u, s)) <= Cardinality(Awaiting(u, s))
  <2>. DEFINE f == [j \in Awaiting(u, s) |-> Identity(u[Len(u) - j])]
  <2>1. f \in Surjection(Awaiting(u, s), Names(u, s))
    BY DEF Surjection, Names
  <2>. HIDE DEF f
  <2>. QED
    BY <1>1, <2>1, FS_Surjection
<1>. QED
  BY <1>1, <1>2, <1>3

LEMMA Prepended ==
  ASSUME NEW u \in Seq(Sample), NEW x \in Sample, NEW s \in Service
  PROVE  LET w == <<x>> \o u IN
         /\ Len(u) \notin Awaiting(u, s)
         /\ Awaiting(w, s) = Awaiting(u, s) \cup (IF x.service = s THEN {Len(u)} ELSE {})
         /\ Names(w, s) = Names(u, s) \cup (IF x.service = s THEN {Identity(x)} ELSE {})
<1>. DEFINE w == <<x>> \o u
            n == Len(u)
<1>1. n \in Nat /\ Len(w) = n + 1
  OBVIOUS
<1>2. \A j \in 0 .. n - 1 : w[n + 1 - j] = u[n - j]
  OBVIOUS
<1>3. w[1] = x
  OBVIOUS
<1>. HIDE DEF w, n
<1>4. \A j \in 0 .. n : w[n + 1 - j] = IF j = n THEN x ELSE u[n - j]
  <2>. TAKE j \in 0 .. n
  <2>1. CASE j = n
    <3>1. n + 1 - j = 1
      BY <1>1, <2>1
    <3>. QED
      BY <1>3, <2>1, <3>1
  <2>2. CASE j # n
    <3>1. j \in 0 .. n - 1
      BY <1>1, <2>2
    <3>. QED
      BY <1>2, <2>2, <3>1
  <2>. QED
    BY <2>1, <2>2
<1>5. Awaiting(u, s) = {j \in 0 .. n - 1 : u[n - j].service = s}
  BY DEF Awaiting, n
<1>6. Awaiting(w, s) = {j \in 0 .. n : w[n + 1 - j].service = s}
  BY <1>1 DEF Awaiting
<1>7. n \notin Awaiting(u, s)
  BY <1>1, <1>5
<1>8. Awaiting(w, s) = Awaiting(u, s) \cup (IF x.service = s THEN {n} ELSE {})
  <2>1. 0 .. n = (0 .. n - 1) \cup {n} /\ n \notin 0 .. n - 1
    BY <1>1
  <2>2. n \in Awaiting(w, s) <=> x.service = s
    BY <1>4, <1>6, <2>1
  <2>3. \A j \in 0 .. n - 1 : j \in Awaiting(w, s) <=> j \in Awaiting(u, s)
    BY <1>4, <1>5, <1>6, <2>1
  <2>. QED
    BY <1>5, <1>6, <2>1, <2>2, <2>3
<1>9. \A c : c \in Names(u, s) <=> \E j \in Awaiting(u, s) : c = Identity(u[n - j])
  BY DEF Names, n
<1>10. \A c : c \in Names(w, s) <=> \E j \in Awaiting(w, s) : c = Identity(w[n + 1 - j])
  <2>1. \A c : c \in Names(w, s) <=> \E j \in Awaiting(w, s) : c = Identity(w[Len(w) - j])
    BY DEF Names
  <2>2. \A j \in Awaiting(w, s) : w[Len(w) - j] = w[n + 1 - j]
    BY <1>1, <1>6
  <2>. QED
    BY <2>1, <2>2
<1>11. \A j \in Awaiting(u, s) : w[n + 1 - j] = u[n - j]
  BY <1>2, <1>5
<1>12. Names(w, s) = Names(u, s) \cup (IF x.service = s THEN {Identity(x)} ELSE {})
  <2>1. CASE x.service = s
    <3>1. Awaiting(w, s) = Awaiting(u, s) \cup {n} /\ w[n + 1 - n] = x
      <4>1. n \in 0 .. n
        BY <1>1
      <4>. QED
        BY <1>4, <1>8, <2>1, <4>1
    <3>. QED
      BY <1>9, <1>10, <1>11, <2>1, <3>1
  <2>2. CASE x.service # s
    <3>1. Awaiting(w, s) = Awaiting(u, s)
      BY <1>8, <2>2
    <3>. QED
      BY <1>9, <1>10, <1>11, <2>2, <3>1
  <2>. QED
    BY <2>1, <2>2
<1>. QED
  BY <1>7, <1>8, <1>12 DEF w, n

(* What a sample at the head adds to a queue and to the samples named.     *)
LEMMA HeadCounts ==
  ASSUME NEW u \in Seq(Sample), NEW x \in Sample, NEW s \in Service, NEW k \in SUBSET Identities
  PROVE  LET w == <<x>> \o u
             one == IF x.service = s THEN 1 ELSE 0 IN
         /\ Cardinality(Awaiting(u, s)) \in Nat
         /\ Cardinality(Awaiting(w, s)) = Cardinality(Awaiting(u, s)) + one
         /\ Cardinality(k \cup Names(u, s)) \in Nat
         /\ Cardinality(k \cup Names(w, s)) \in Nat
         /\ Cardinality(k \cup Names(u, s)) <= Cardinality(k \cup Names(w, s))
         /\ Cardinality(k \cup Names(w, s)) <= Cardinality(k \cup Names(u, s)) + one
<1>. DEFINE w == <<x>> \o u
            a == Awaiting(u, s)
            known == k \cup Names(u, s)
<1>1. IsFiniteSet(a) /\ Cardinality(a) \in Nat
  BY QueueFinite, FS_CardinalityType
<1>2. IsFiniteSet(known) /\ Cardinality(known) \in Nat
  <2>1. 1 \in Int /\ MaxScrape \in Int /\ Replicas \in Int
    BY DetectorAssumption
  <2>2. IsFiniteSet(1 .. MaxScrape) /\ IsFiniteSet(1 .. Replicas)
    BY <2>1, FS_Interval
  <2>3. IsFiniteSet(Identities)
    BY <2>2, FS_Product DEF Identities
  <2>4. known \in SUBSET Identities
    BY QueueFinite
  <2>. QED
    BY <2>3, <2>4, FS_Subset, FS_CardinalityType
<1>3. /\ Len(u) \notin a
      /\ Awaiting(w, s) = a \cup (IF x.service = s THEN {Len(u)} ELSE {})
      /\ k \cup Names(w, s) = known \cup (IF x.service = s THEN {Identity(x)} ELSE {})
  BY Prepended
<1>. HIDE DEF w, a, known
<1>4. CASE x.service = s
  <2>1. Awaiting(w, s) = a \cup {Len(u)} /\ k \cup Names(w, s) = known \cup {Identity(x)}
    BY <1>3, <1>4
  <2>2. Cardinality(Awaiting(w, s)) = Cardinality(a) + 1
    BY <1>1, <1>3, <2>1, FS_AddElement
  <2>3. Cardinality(k \cup Names(w, s)) \in {Cardinality(known), Cardinality(known) + 1}
    BY <1>2, <2>1, FS_AddElement
  <2>. QED
    BY <1>1, <1>2, <1>4, <2>2, <2>3 DEF w, a, known
<1>5. CASE x.service # s
  <2>1. Awaiting(w, s) = a /\ k \cup Names(w, s) = known
    BY <1>3, <1>5
  <2>2. /\ Cardinality(Awaiting(w, s)) = Cardinality(a)
        /\ Cardinality(k \cup Names(w, s)) = Cardinality(known)
    BY <2>1
  <2>. QED
    BY <1>1, <1>2, <1>5, <2>2 DEF w, a, known
<1>. QED
  BY <1>4, <1>5

(* A workload's dwell counter is paid for: it never outruns the samples it *)
(* stands on, those still waiting included, by more than the repeats.      *)
Balanced(q, k, u, s, r) ==
  /\ Cardinality(k) <= q
  /\ q + Cardinality(Awaiting(u, s)) <= Cardinality(k \cup Names(u, s)) + r

LEMMA KnownFinite ==
  ASSUME NEW k \in SUBSET Identities
  PROVE  IsFiniteSet(k) /\ Cardinality(k) \in Nat
<1>1. 1 \in Int /\ MaxScrape \in Int /\ Replicas \in Int
  BY DetectorAssumption
<1>2. IsFiniteSet(1 .. MaxScrape) /\ IsFiniteSet(1 .. Replicas)
  BY <1>1, FS_Interval
<1>3. IsFiniteSet(Identities)
  BY <1>2, FS_Product DEF Identities
<1>. QED
  BY <1>3, FS_Subset, FS_CardinalityType

(* A sample put back is one more repeat; one dropped was not counted.      *)
LEMMA PutBack ==
  ASSUME NEW u \in Seq(Sample), NEW x \in Sample, NEW s \in Service, NEW k \in SUBSET Identities,
         NEW q \in Nat, NEW r \in Nat, Balanced(q, k, u, s, r)
  PROVE  Balanced(q, k, <<x>> \o u, s, r + 1)
<1>. DEFINE w == <<x>> \o u
            one == IF x.service = s THEN 1 ELSE 0
<1>1. /\ Cardinality(Awaiting(u, s)) \in Nat
      /\ Cardinality(Awaiting(w, s)) = Cardinality(Awaiting(u, s)) + one
      /\ Cardinality(k \cup Names(u, s)) \in Nat
      /\ Cardinality(k \cup Names(w, s)) \in Nat
      /\ Cardinality(k \cup Names(u, s)) <= Cardinality(k \cup Names(w, s))
  BY HeadCounts
<1>2. one \in {0, 1}
  OBVIOUS
<1>. HIDE DEF w, one
<1>3. Balanced(q, k, w, s, r + 1)
  BY <1>1, <1>2 DEF Balanced
<1>. QED
  BY <1>3 DEF w

LEMMA Discard ==
  ASSUME NEW u \in Seq(Sample), NEW x \in Sample, NEW s \in Service, NEW k \in SUBSET Identities,
         NEW q \in Nat, NEW r \in Nat, Balanced(q, k, <<x>> \o u, s, r)
  PROVE  Balanced(q, k, u, s, r)
<1>. DEFINE w == <<x>> \o u
            one == IF x.service = s THEN 1 ELSE 0
<1>1. /\ Cardinality(Awaiting(u, s)) \in Nat
      /\ Cardinality(Awaiting(w, s)) = Cardinality(Awaiting(u, s)) + one
      /\ Cardinality(k \cup Names(u, s)) \in Nat
      /\ Cardinality(k \cup Names(w, s)) \in Nat
      /\ Cardinality(k \cup Names(w, s)) <= Cardinality(k \cup Names(u, s)) + one
  BY HeadCounts
<1>2. one \in {0, 1}
  OBVIOUS
<1>3. Balanced(q, k, w, s, r)
  OBVIOUS
<1>. HIDE DEF w, one
<1>. QED
  BY <1>1, <1>2, <1>3 DEF Balanced

(* Counting the sample at the head moves it from the queue to the streak.  *)
LEMMA CountHead ==
  ASSUME NEW u \in Seq(Sample), NEW x \in Sample, NEW k \in SUBSET Identities,
         NEW q \in Nat, NEW r \in Nat, Balanced(q, k, <<x>> \o u, x.service, r)
  PROVE  Balanced(q + 1, k \cup {Identity(x)}, u, x.service, r)
<1>. DEFINE w == <<x>> \o u
            s == x.service
<1>0. s \in Service
  BY DEF Sample
<1>1. /\ Cardinality(Awaiting(u, s)) \in Nat
      /\ Cardinality(Awaiting(w, s)) = Cardinality(Awaiting(u, s)) + 1
  BY <1>0, HeadCounts
<1>2. k \cup Names(w, s) = (k \cup {Identity(x)}) \cup Names(u, s)
  <2>1. Names(w, s) = Names(u, s) \cup {Identity(x)}
    BY <1>0, Prepended
  <2>. QED
    BY <2>1
<1>3. Cardinality(k \cup {Identity(x)}) <= Cardinality(k) + 1
  <2>1. IsFiniteSet(k) /\ Cardinality(k) \in Nat
    BY KnownFinite
  <2>2. Cardinality(k \cup {Identity(x)}) \in {Cardinality(k), Cardinality(k) + 1}
    BY <2>1, FS_AddElement
  <2>. QED
    BY <2>1, <2>2
<1>4. Cardinality(k) \in Nat /\ Cardinality(k \cup {Identity(x)}) \in Nat
  <2>1. k \cup {Identity(x)} \in SUBSET Identities
    BY DEF Identity, Identities, Sample
  <2>. QED
    BY <2>1, KnownFinite
<1>5. Cardinality(k \cup Names(w, s)) \in Nat
  BY <1>0, HeadCounts
<1>6. Balanced(q, k, w, s, r)
  OBVIOUS
<1>. HIDE DEF w, s
<1>7. Balanced(q + 1, k \cup {Identity(x)}, u, s, r)
  <2>1. /\ Cardinality(k) <= q
        /\ q + Cardinality(Awaiting(w, s)) <= Cardinality(k \cup Names(w, s)) + r
    BY <1>6 DEF Balanced
  <2>2. q + 1 + Cardinality(Awaiting(u, s))
          <= Cardinality((k \cup {Identity(x)}) \cup Names(u, s)) + r
    <3>1. q + 1 + Cardinality(Awaiting(u, s)) <= Cardinality(k \cup Names(w, s)) + r
      BY <1>1, <1>5, <2>1
    <3>. QED
      BY <1>2, <3>1
  <2>3. Cardinality(k \cup {Identity(x)}) <= q + 1
    BY <1>3, <1>4, <2>1
  <2>. QED
    BY <2>2, <2>3 DEF Balanced
<1>. QED
  BY <1>7 DEF s

(* What the counter forgets, it no longer owes for.                        *)
LEMMA StartOver ==
  ASSUME NEW u \in Seq(Sample), NEW s \in Service, NEW k \in SUBSET Identities,
         NEW q \in Nat, NEW r \in Nat, Balanced(q, k, u, s, r)
  PROVE  Balanced(0, {}, u, s, r)
<1>1. Names(u, s) \in SUBSET Identities /\ {} \cup Names(u, s) = Names(u, s)
  BY QueueFinite
<1>2. IsFiniteSet(k) /\ Cardinality(k) \in Nat
  BY KnownFinite
<1>3. IsFiniteSet(Names(u, s)) /\ Cardinality(Names(u, s)) \in Nat
  BY <1>1, KnownFinite
<1>4. k \cap Names(u, s) \in SUBSET Identities /\ k \cup Names(u, s) \in SUBSET Identities
  BY <1>1
<1>5. Cardinality(k \cap Names(u, s)) \in Nat /\ Cardinality(k \cup Names(u, s)) \in Nat
  BY <1>4, KnownFinite
<1>6. Cardinality(k \cup Names(u, s))
        = Cardinality(k) + Cardinality(Names(u, s)) - Cardinality(k \cap Names(u, s))
  BY <1>2, <1>3, FS_Union
<1>7. Cardinality(Awaiting(u, s)) \in Nat
  BY QueueFinite, FS_CardinalityType
<1>8. Cardinality({}) = 0
  BY FS_EmptySet
<1>9. Cardinality(k \cup Names(u, s)) <= Cardinality(k) + Cardinality(Names(u, s))
  BY <1>2, <1>3, <1>5, <1>6
<1>10. Cardinality(k) <= q /\ q + Cardinality(Awaiting(u, s)) <= Cardinality(k \cup Names(u, s)) + r
  BY DEF Balanced
<1>11. Cardinality(Awaiting(u, s)) <= Cardinality(Names(u, s)) + r
  BY <1>2, <1>3, <1>5, <1>7, <1>9, <1>10
<1>. QED
  BY <1>1, <1>7, <1>8, <1>11 DEF Balanced

(* An incident is raised when the counter has reached the threshold: then  *)
(* the streak has as many samples, up to the repeats.                      *)
LEMMA Backed ==
  ASSUME NEW u \in Seq(Sample), NEW s \in Service, NEW k \in SUBSET Identities,
         NEW q \in Nat, NEW r \in Nat, Balanced(q, k, u, s, r), q >= Dwell
  PROVE  Cardinality(k) + r >= Dwell
<1>1. Names(u, s) \in SUBSET Identities
  BY QueueFinite
<1>2. IsFiniteSet(k) /\ Cardinality(k) \in Nat
  BY KnownFinite
<1>3. IsFiniteSet(Names(u, s)) /\ Cardinality(Names(u, s)) \in Nat
  BY <1>1, KnownFinite
<1>4. k \cap Names(u, s) \in SUBSET Identities /\ k \cup Names(u, s) \in SUBSET Identities
  BY <1>1
<1>5. Cardinality(k \cap Names(u, s)) \in Nat /\ Cardinality(k \cup Names(u, s)) \in Nat
  BY <1>4, KnownFinite
<1>6. Cardinality(k \cup Names(u, s))
        = Cardinality(k) + Cardinality(Names(u, s)) - Cardinality(k \cap Names(u, s))
  BY <1>2, <1>3, FS_Union
<1>7. Cardinality(Awaiting(u, s)) \in Nat /\ Cardinality(Names(u, s)) <= Cardinality(Awaiting(u, s))
  BY QueueFinite, FS_CardinalityType
<1>8. Dwell \in Nat
  BY DetectorAssumption
<1>9. Cardinality(k \cup Names(u, s)) <= Cardinality(k) + Cardinality(Names(u, s))
  BY <1>2, <1>3, <1>5, <1>6
<1>10. q + Cardinality(Awaiting(u, s)) <= Cardinality(k \cup Names(u, s)) + r
  BY DEF Balanced
<1>. QED
  BY <1>2, <1>3, <1>5, <1>7, <1>8, <1>9, <1>10

(* One scrape of every replica of s: its samples are all new, one for each *)
(* replica at least, and no more than e of them are there twice.           *)
Scrape(b, s, m, e) ==
  /\ b \in Seq(Sample) /\ Len(b) <= Replicas + e
  /\ \A i \in DOMAIN b : b[i].service = s /\ b[i].scrape = m
  /\ \A p \in 1 .. Replicas : \E i \in DOMAIN b : b[i].pod = p

LEMMA ScrapeCounts ==
  ASSUME NEW b, NEW s \in Service, NEW m, NEW e \in Nat, Scrape(b, s, m, e)
  PROVE  /\ Cardinality(Awaiting(b, s)) <= Replicas + e
         /\ Replicas <= Cardinality(Names(b, s))
         /\ \A t \in Service : \A c \in Names(b, t) : c[1] = m
         /\ \A t \in Service \ {s} : Awaiting(b, t) = {} /\ Names(b, t) = {}
<1>0. b \in Seq(Sample) /\ Len(b) \in Nat /\ Replicas \in Nat
  BY DetectorAssumption DEF Scrape
<1>1. Cardinality(Awaiting(b, s)) <= Replicas + e
  <2>1. 0 \in Int /\ Len(b) - 1 \in Int
    BY <1>0
  <2>2. IsFiniteSet(0 .. Len(b) - 1) /\ Cardinality(0 .. Len(b) - 1) = Len(b)
    <3>1. /\ IsFiniteSet(0 .. Len(b) - 1)
          /\ Cardinality(0 .. Len(b) - 1)
               = IF 0 > Len(b) - 1 THEN 0 ELSE (Len(b) - 1) - 0 + 1
      BY <2>1, FS_Interval
    <3>. QED
      BY <1>0, <3>1
  <2>3. Awaiting(b, s) \in SUBSET (0 .. Len(b) - 1)
    BY DEF Awaiting
  <2>4. Cardinality(Awaiting(b, s)) <= Len(b)
    BY <2>2, <2>3, FS_Subset
  <2>5. Cardinality(Awaiting(b, s)) \in Nat
    BY <1>0, QueueFinite, FS_CardinalityType
  <2>. QED
    BY <1>0, <2>4, <2>5 DEF Scrape
<1>2. Replicas <= Cardinality(Names(b, s))
  <2>. DEFINE f == [p \in 1 .. Replicas |-> <<m, p>>]
  <2>1. \A p \in 1 .. Replicas : <<m, p>> \in Names(b, s)
    <3>. TAKE p \in 1 .. Replicas
    <3>1. PICK i \in DOMAIN b : b[i].pod = p
      BY DEF Scrape
    <3>2. b[i].service = s /\ b[i].scrape = m
      BY DEF Scrape
    <3>. DEFINE j == Len(b) - i
    <3>3. j \in 0 .. Len(b) - 1 /\ Len(b) - j = i
      BY <1>0
    <3>. HIDE DEF j
    <3>4. j \in Awaiting(b, s) /\ Identity(b[Len(b) - j]) = <<m, p>>
      BY <3>1, <3>2, <3>3 DEF Awaiting, Identity
    <3>. QED
      BY <3>4 DEF Names
  <2>2. f \in Injection(1 .. Replicas, Names(b, s))
    BY <2>1 DEF Injection, IsInjective
  <2>3. IsFiniteSet(Names(b, s))
    BY <1>0, QueueFinite
  <2>. HIDE DEF f
  <2>4. Cardinality(1 .. Replicas) <= Cardinality(Names(b, s))
    BY <2>2, <2>3, FS_Injection
  <2>5. Cardinality(1 .. Replicas) = Replicas
    <3>1. 1 \in Int /\ Replicas \in Int
      BY <1>0
    <3>2. Cardinality(1 .. Replicas) = IF 1 > Replicas THEN 0 ELSE Replicas - 1 + 1
      BY <3>1, FS_Interval
    <3>. QED
      BY <1>0, <3>2
  <2>. QED
    BY <2>4, <2>5
<1>3. \A t \in Service : \A j \in Awaiting(b, t) :
        b[Len(b) - j].service = t /\ b[Len(b) - j].service = s /\ b[Len(b) - j].scrape = m
  <2>. TAKE t \in Service
  <2>. TAKE j \in Awaiting(b, t)
  <2>1. Len(b) - j \in DOMAIN b
    BY <1>0 DEF Awaiting
  <2>. QED
    BY <2>1 DEF Awaiting, Scrape
<1>4. \A t \in Service : \A c \in Names(b, t) : c[1] = m
  BY <1>3 DEF Names, Identity
<1>5. \A t \in Service \ {s} : Awaiting(b, t) = {} /\ Names(b, t) = {}
  BY <1>3 DEF Names
<1>. QED
  BY <1>1, <1>2, <1>4, <1>5

(* A new scrape brings as many new names as samples, but for e of them.    *)
LEMMA ScrapeIsNew ==
  ASSUME NEW b, NEW s \in Service, NEW m, NEW e \in Nat, Scrape(b, s, m, e),
         NEW t \in Service, NEW k \in SUBSET Identities, \A c \in k : c[1] # m
  PROVE  Cardinality(Awaiting(b, t)) + Cardinality(k) <= Cardinality(k \cup Names(b, t)) + e
<1>0. b \in Seq(Sample) /\ Replicas \in Nat
  BY DetectorAssumption DEF Scrape
<1>1. IsFiniteSet(k) /\ Cardinality(k) \in Nat
  BY KnownFinite
<1>2. CASE t = s
  <2>1. Names(b, t) \in SUBSET Identities
    BY <1>0, QueueFinite
  <2>2. IsFiniteSet(Names(b, t)) /\ Cardinality(Names(b, t)) \in Nat
    BY <2>1, KnownFinite
  <2>3. k \cap Names(b, t) = {}
    BY ScrapeCounts
  <2>4. Cardinality(k \cup Names(b, t))
          = Cardinality(k) + Cardinality(Names(b, t)) - Cardinality(k \cap Names(b, t))
    BY <1>1, <2>2, FS_Union
  <2>5. Cardinality(k \cap Names(b, t)) = 0
    BY <2>3, FS_EmptySet
  <2>6. Cardinality(Awaiting(b, t)) \in Nat
    BY <1>0, QueueFinite, FS_CardinalityType
  <2>7. Cardinality(Awaiting(b, t)) <= Replicas + e /\ Replicas <= Cardinality(Names(b, t))
    BY <1>2, ScrapeCounts
  <2>. QED
    BY <1>0, <1>1, <2>2, <2>4, <2>5, <2>6, <2>7
<1>3. CASE t # s
  <2>1. Awaiting(b, t) = {} /\ k \cup Names(b, t) = k
    BY <1>3, ScrapeCounts
  <2>2. Cardinality(Awaiting(b, t)) = 0
    BY <2>1, FS_EmptySet
  <2>. QED
    BY <1>1, <2>1, <2>2
<1>. QED
  BY <1>2, <1>3

LEMMA NothingQueued ==
  ASSUME NEW s \in Service
  PROVE  Awaiting(<< >>, s) = {} /\ Names(<< >>, s) = {}
<1>1. Awaiting(<< >>, s) = {}
  BY DEF Awaiting
<1>. QED
  BY <1>1 DEF Names

(* A scrape that arrives in an empty queue, and one that arrives while the *)
(* last sample of an earlier one is being handled.                         *)
LEMMA ScrapeArrives ==
  ASSUME NEW b, NEW s \in Service, NEW m, NEW e \in Nat, Scrape(b, s, m, e),
         NEW t \in Service, NEW k \in SUBSET Identities, \A c \in k : c[1] # m,
         NEW q \in Nat, NEW r \in Nat
  PROVE  /\ Balanced(q, k, << >>, t, r) => Balanced(q, k, b, t, r + e)
         /\ \A x \in Sample : x.scrape # m /\ Balanced(q, k, <<x>> \o << >>, t, r) =>
              Balanced(q, k, <<x>> \o b, t, r + e)
<1>0. b \in Seq(Sample) /\ << >> \in Seq(Sample)
  BY DEF Scrape
<1>1. IsFiniteSet(k) /\ Cardinality(k) \in Nat /\ k \cup {} = k
  BY KnownFinite
<1>2. /\ Awaiting(<< >>, t) = {} /\ Names(<< >>, t) = {}
      /\ Cardinality(Awaiting(<< >>, t)) = 0
  BY NothingQueued, FS_EmptySet
<1>3. Cardinality(Awaiting(b, t)) \in Nat
  BY <1>0, QueueFinite, FS_CardinalityType
<1>4. Names(b, t) \in SUBSET Identities
  BY <1>0, QueueFinite
<1>5. ASSUME Balanced(q, k, << >>, t, r)
      PROVE  Balanced(q, k, b, t, r + e)
  <2>1. q <= Cardinality(k) + r /\ Cardinality(k) <= q
    <3>1. k \cup Names(<< >>, t) = k
      BY <1>1, <1>2
    <3>2. /\ Cardinality(k) <= q
          /\ q + Cardinality(Awaiting(<< >>, t)) <= Cardinality(k \cup Names(<< >>, t)) + r
      BY <1>5 DEF Balanced
    <3>3. Cardinality(k \cup Names(<< >>, t)) = Cardinality(k)
      BY <3>1
    <3>4. Cardinality(Awaiting(<< >>, t)) = 0
      BY <1>2
    <3>. QED
      BY <1>1, <3>2, <3>3, <3>4
  <2>2. Cardinality(Awaiting(b, t)) + Cardinality(k) <= Cardinality(k \cup Names(b, t)) + e
    BY ScrapeIsNew
  <2>3. Cardinality(k \cup Names(b, t)) \in Nat
    <3>1. k \cup Names(b, t) \in SUBSET Identities
      BY <1>4
    <3>. QED
      BY <3>1, KnownFinite
  <2>. QED
    BY <1>1, <1>3, <2>1, <2>2, <2>3 DEF Balanced
<1>6. ASSUME NEW x \in Sample, x.scrape # m, Balanced(q, k, <<x>> \o << >>, t, r)
      PROVE  Balanced(q, k, <<x>> \o b, t, r + e)
  <2>. DEFINE one == IF x.service = t THEN 1 ELSE 0
              more == k \cup (IF x.service = t THEN {Identity(x)} ELSE {})
              before == <<x>> \o << >>
              after == <<x>> \o b
  <2>1. one \in {0, 1}
    OBVIOUS
  <2>2. more \in SUBSET Identities /\ \A c \in more : c[1] # m
    BY <1>6 DEF Identity, Identities, Sample
  <2>3. k \cup Names(before, t) = more
    <3>1. \A u \in Seq(Sample) : Names(<<x>> \o u, t)
            = Names(u, t) \cup (IF x.service = t THEN {Identity(x)} ELSE {})
      BY Prepended
    <3>2. Names(before, t) = Names(<< >>, t) \cup (IF x.service = t THEN {Identity(x)} ELSE {})
      BY <1>0, <3>1, Zenon
    <3>. QED
      BY <1>2, <3>2
  <2>4. k \cup Names(after, t) = more \cup Names(b, t)
    <3>1. Names(after, t) = Names(b, t) \cup (IF x.service = t THEN {Identity(x)} ELSE {})
      BY <1>0, Prepended
    <3>. QED
      BY <3>1
  <2>5. /\ Cardinality(Awaiting(before, t)) = 0 + one
        /\ Cardinality(Awaiting(after, t)) = Cardinality(Awaiting(b, t)) + one
    <3>1. /\ Cardinality(Awaiting(before, t)) = Cardinality(Awaiting(<< >>, t)) + one
          /\ Cardinality(Awaiting(after, t)) = Cardinality(Awaiting(b, t)) + one
      BY <1>0, HeadCounts
    <3>. QED
      BY <1>2, <3>1
  <2>6. Balanced(q, k, before, t, r)
    BY <1>6
  <2>. HIDE DEF one, more, before, after
  <2>7. Cardinality(Awaiting(b, t)) + Cardinality(more) <= Cardinality(more \cup Names(b, t)) + e
    BY <2>2, ScrapeIsNew
  <2>8. Cardinality(more) \in Nat /\ Cardinality(more \cup Names(b, t)) \in Nat
    <3>1. more \cup Names(b, t) \in SUBSET Identities
      BY <1>4, <2>2
    <3>. QED
      BY <2>2, <3>1, KnownFinite
  <2>9. Cardinality(k) <= q /\ q + one <= Cardinality(more) + r
    <3>1. /\ Cardinality(k) <= q
          /\ q + Cardinality(Awaiting(before, t)) <= Cardinality(k \cup Names(before, t)) + r
      BY <2>6 DEF Balanced
    <3>2. Cardinality(k \cup Names(before, t)) = Cardinality(more)
      BY <2>3
    <3>3. Cardinality(Awaiting(before, t)) = 0 + one
      BY <2>5
    <3>. QED
      BY <2>1, <2>8, <3>1, <3>2, <3>3
  <2>10. q + (Cardinality(Awaiting(b, t)) + one) <= Cardinality(more \cup Names(b, t)) + (r + e)
    BY <1>3, <2>1, <2>7, <2>8, <2>9
  <2>11. Balanced(q, k, after, t, r + e)
    BY <2>4, <2>5, <2>9, <2>10 DEF Balanced
  <2>. QED
    BY <2>11 DEF after
<1>. QED
  BY <1>5, <1>6

(* The samples that wait to be counted, the one in hand included.          *)
Uncounted ==
  IF task.pc \in {"cpu", "evaluate", "save"} THEN <<task.sample>> \o costs ELSE costs

Balance ==
  \A s \in Service :
    Balanced(cost_profile[s].consecutive_qualifying, streak[s], Uncounted, s, repeats)

(* The adapters' next scrape is new to every queue and every streak.       *)
Earlier ==
  /\ \A i \in DOMAIN costs : costs[i].scrape <= made.cost
  /\ ~At("idle") => task.sample.scrape <= made.cost
  /\ \A s \in Service : \A c \in streak[s] : c[1] <= made.cost

(* A reading is only flagged with dwell satisfied and traffic known.       *)
Warranted ==
  /\ At("save") /\ task.flag =>
       task.profile.consecutive_qualifying >= Dwell /\ task.heard
  /\ At("insert") =>
       /\ cost_profile[task.sample.service].consecutive_qualifying >= Dwell
       /\ task.heard

LEMMA WarrantedStep ==
  ASSUME TypeOK, Warranted, [Next]_vars
  PROVE  Warranted'
<1>. USE DEF stimuli, baselines, incidents, history
<1>1. CASE Evaluate
  <2>1. Verdict(task.sample)
    BY <1>1, EvaluateVerdict
  <2>. QED
    BY <2>1 DEF Verdict, Warranted, At
<1>2. CASE SaveProfile
  <2>. DEFINE s == task.sample.service
  <2>1. task \in Judged /\ s \in Service
    BY <1>2, TaskPhases DEF SaveProfile, TypeOK, At, Judged, Sample
  <2>2. /\ task'.pc = IF task.flag THEN "insert" ELSE "ack"
        /\ task'.sample = task.sample /\ task'.heard = task.heard
    BY <1>2, <2>1 DEF SaveProfile, Judged
  <2>3. cost_profile'[s] = task.profile
    BY <1>2, <2>1 DEF SaveProfile, TypeOK
  <2>4. task.flag => task.profile.consecutive_qualifying >= Dwell /\ task.heard
    BY <1>2 DEF SaveProfile, Warranted
  <2>. QED
    BY <2>2, <2>3, <2>4 DEF Warranted, At
<1>3. CASE InsertAnomaly
  <2>1. task'.pc = "publish"
    BY <1>3, TaskPhases DEF InsertAnomaly, TypeOK, At, Judged
  <2>. QED
    BY <2>1 DEF Warranted, At
<1>4. CASE LearnCpu
  BY <1>4 DEF LearnCpu, Warranted, At
<1>5. CASE /\ UNCHANGED <<cost_profile, cpu_profile, absorbed, unlearned, anomalies>>
           /\ task' = task \/ task'.pc \in {"idle", "cpu", "ack"}
  BY <1>5 DEF Warranted, At
<1>. QED
  BY <1>1, <1>2, <1>3, <1>4, <1>5, PhaseStep

(* Only InsertAnomaly writes a row, and it writes one.                     *)
LEMMA RowStep ==
  ASSUME TypeOK, [Next]_vars
  PROVE  \/ anomalies' = anomalies
         \/ /\ InsertAnomaly
            /\ \A i \in DOMAIN anomalies' :
                 \/ i \in DOMAIN anomalies /\ anomalies'[i] = anomalies[i]
                 \/ /\ anomalies'[i].heard = task.heard
                    /\ anomalies'[i].backing = streak[task.sample.service]
<1>1. CASE InsertAnomaly
  <2>. DEFINE row == [sample |-> task.sample, confidence |-> task.confidence,
                      heard |-> task.heard, backing |-> streak[task.sample.service]]
  <2>1. anomalies' = Append(anomalies, row)
    BY <1>1 DEF InsertAnomaly
  <2>2. anomalies \in Seq(Anomaly)
    BY DEF TypeOK
  <2>3. row.heard = task.heard /\ row.backing = streak[task.sample.service]
    OBVIOUS
  <2>. HIDE DEF row
  <2>4. \A i \in DOMAIN anomalies' :
          \/ i \in DOMAIN anomalies /\ anomalies'[i] = anomalies[i]
          \/ anomalies'[i] = row
    BY <2>1, <2>2
  <2>. QED
    BY <1>1, <2>3, <2>4
<1>2. CASE Evaluate \/ SaveProfile \/ LearnCpu
  BY <1>2 DEF Evaluate, SaveProfile, LearnCpu, incidents
<1>. QED
  BY <1>1, <1>2, PhaseStep

(* Nothing is flagged for a service whose traffic this process has not     *)
(* heard of, through any restart that empties _traffic_z and leaves the    *)
(* dwell counter.                                                          *)
THEOREM HeardHolds == Spec => []FlaggedOnlyIfHeard
<1>1. Init => Warranted /\ FlaggedOnlyIfHeard
  BY DEF Init, NoTask, Warranted, FlaggedOnlyIfHeard, At
<1>2. IInv /\ Warranted /\ FlaggedOnlyIfHeard /\ [Next]_vars => (Warranted /\ FlaggedOnlyIfHeard)'
  <2>. SUFFICES ASSUME TypeOK, Warranted, FlaggedOnlyIfHeard, [Next]_vars
                PROVE  Warranted' /\ FlaggedOnlyIfHeard'
    BY DEF IInv
  <2>1. Warranted'
    BY WarrantedStep
  <2>2. CASE anomalies' = anomalies
    BY <2>1, <2>2 DEF FlaggedOnlyIfHeard
  <2>3. CASE InsertAnomaly
    <3>1. task.heard
      BY <2>3 DEF InsertAnomaly, Warranted
    <3>. QED
      BY <2>1, <3>1, RowStep DEF FlaggedOnlyIfHeard
  <2>. QED
    BY <2>2, <2>3, RowStep
<1>. QED
  BY <1>1, <1>2, Invariant, PTL DEF Spec

(* What a step does to the queue of uncounted samples, but for the two     *)
(* steps that count one and that bring new ones.                           *)
Moved ==
  \/ Uncounted' = Uncounted /\ repeats' \in {repeats, repeats + 1}
  \/ \E x \in Sample : /\ Uncounted = <<x>> \o costs /\ Uncounted' = costs
                       /\ repeats' = repeats
  \/ \E x \in Sample : /\ Uncounted = costs /\ Uncounted' = <<x>> \o costs
                       /\ repeats' = repeats + 1

LEMMA QueueStep ==
  ASSUME TypeOK, [Next]_vars
  PROVE  \/ SaveProfile
         \/ EmitCost
         \/ UNCHANGED <<cost_profile, streak>> /\ Moved
<1>. USE DEF stimuli, baselines, incidents, history
<1>0. costs \in Seq(Sample) /\ repeats \in Nat
  BY TypeParts
<1>1. CASE HandleTraffic \/ EmitTraffic \/ NextHour \/ UNCHANGED vars
  BY <1>1 DEF HandleTraffic, ScoreTraffic, StoreTraffic, EmitTraffic, NextHour, vars, Moved, Uncounted
<1>2. CASE TakeCost
  <2>1. costs = <<Head(costs)>> \o Tail(costs)
    BY <1>0, <1>2 DEF TakeCost
  <2>. QED
    BY <1>2, <2>1 DEF TakeCost, Moved, Uncounted, At
<1>3. CASE LearnCpu \/ Evaluate
  <2>1. /\ task.pc \in {"cpu", "evaluate"}
        /\ task'.pc \in {"evaluate", "save"} /\ task'.sample = task.sample
    <3>1. CASE LearnCpu
      BY <3>1 DEF LearnCpu, At
    <3>2. CASE Evaluate
      BY <3>2, EvaluateVerdict DEF Evaluate, At, Verdict
    <3>. QED
      BY <1>3, <3>1, <3>2
  <2>2. UNCHANGED <<costs, repeats, cost_profile, streak>>
    BY <1>3 DEF LearnCpu, Evaluate
  <2>. QED
    BY <2>1, <2>2 DEF Moved, Uncounted
<1>4. CASE InsertAnomaly \/ PublishAnomaly \/ Ack
  <2>1. task \in Judged
    BY <1>4, TaskPhases DEF InsertAnomaly, PublishAnomaly, Ack, TypeOK, At
  <2>2. task'.pc \notin {"cpu", "evaluate", "save"}
    BY <1>4, <2>1 DEF InsertAnomaly, PublishAnomaly, Ack, Judged, NoTask
  <2>. QED
    BY <1>4, <2>2 DEF InsertAnomaly, PublishAnomaly, Ack, Moved, Uncounted, At
<1>5. CASE Raise
  <2>1. task.sample \in Sample
    BY <1>5, TaskPhases DEF Raise, TypeOK, At
  <2>2. Uncounted' = costs
    BY <1>5 DEF Raise, Uncounted, NoTask
  <2>3. Uncounted = costs \/ Uncounted = <<task.sample>> \o costs
    BY DEF Uncounted
  <2>. QED
    BY <1>5, <2>1, <2>2, <2>3 DEF Raise, Moved
<1>6. CASE AckFails
  <2>1. task.sample \in Sample
    BY <1>6, TaskPhases DEF AckFails, TypeOK, At
  <2>2. Uncounted = costs /\ Uncounted' = <<task.sample>> \o costs
    BY <1>6 DEF AckFails, Uncounted, NoTask, At
  <2>. QED
    BY <1>6, <2>1, <2>2 DEF AckFails, Moved
<1>7. CASE Restart
  <2>1. CASE At("idle")
    BY <1>7, <2>1 DEF Restart, Moved, Uncounted, NoTask, At
  <2>2. CASE ~At("idle")
    <3>1. task.sample \in Sample
      BY <2>2, TaskPhases DEF TypeOK
    <3>2. Uncounted' = <<task.sample>> \o costs /\ repeats' = repeats + 1
      BY <1>7, <2>2 DEF Restart, Uncounted, NoTask
    <3>3. Uncounted = costs \/ Uncounted = <<task.sample>> \o costs
      BY DEF Uncounted
    <3>. QED
      BY <1>7, <3>1, <3>2, <3>3 DEF Restart, Moved
  <2>. QED
    BY <2>1, <2>2, <1>7 DEF Restart
<1>. QED
  BY <1>1, <1>2, <1>3, <1>4, <1>5, <1>6, <1>7 DEF Next, HandleCost

LEMMA EmitScrape ==
  ASSUME TypeOK, EmitCost
  PROVE  \E s \in Service, e \in Nat :
           Scrape(costs', s, made.cost + 1, e) /\ repeats' = repeats + e
<1>. PICK s \in Service, v \in [1 .. Replicas -> Cost] :
       LET batch == [p \in 1 .. Replicas |->
                      [scrape |-> made.cost + 1, pod |-> p, service |-> s, cost |-> v[p],
                       hour |-> hour]]
       IN \/ /\ costs' = batch
             /\ UNCHANGED <<faults, repeats>>
          \/ /\ Fault("duplicate")
             /\ \E p \in 1 .. Replicas :
                  costs' = SubSeq(batch, 1, p) \o SubSeq(batch, p, Replicas)
             /\ repeats' = repeats + 1
  BY DEF EmitCost
<1>. DEFINE sample(p) == [scrape |-> made.cost + 1, pod |-> p, service |-> s,
                          cost |-> v[p], hour |-> hour]
            batch == [p \in 1 .. Replicas |-> sample(p)]
<1>1. \A p \in 1 .. Replicas :
        /\ sample(p) \in Sample /\ sample(p).pod = p
        /\ sample(p).service = s /\ sample(p).scrape = made.cost + 1
  <2>1. made.cost + 1 \in 1 .. MaxScrape
    BY MadeCounts, DetectorAssumption, SMTT(40) DEF EmitCost
  <2>2. hour \in Hour
    BY TypeParts
  <2>. QED
    BY <2>1, <2>2 DEF Sample
<1>2. Replicas \in Nat /\ repeats \in Nat
  BY DetectorAssumption, TypeParts
<1>3. \/ costs' = batch /\ repeats' = repeats
      \/ /\ repeats' = repeats + 1
         /\ \E p \in 1 .. Replicas :
              costs' = SubSeq(batch, 1, p) \o SubSeq(batch, p, Replicas)
  OBVIOUS
<1>. HIDE DEF sample
<1>4. batch \in [1 .. Replicas -> Sample] /\ \A p \in 1 .. Replicas : batch[p] = sample(p)
  BY <1>1
<1>. HIDE DEF batch
<1>5. batch \in Seq(Sample) /\ Len(batch) = Replicas
  BY <1>2, <1>4
<1>6. ASSUME costs' = batch, repeats' = repeats
      PROVE  Scrape(costs', s, made.cost + 1, 0) /\ repeats' = repeats + 0
  <2>1. Len(batch) <= Replicas + 0 /\ DOMAIN batch = 1 .. Replicas
    BY <1>2, <1>5
  <2>2. Scrape(batch, s, made.cost + 1, 0)
    BY <1>1, <1>4, <1>5, <2>1 DEF Scrape
  <2>. QED
    BY <1>2, <1>6, <2>2
<1>7. ASSUME NEW n \in 1 .. Replicas, repeats' = repeats + 1,
             costs' = SubSeq(batch, 1, n) \o SubSeq(batch, n, Replicas)
      PROVE  Scrape(costs', s, made.cost + 1, 1)
  <2>. DEFINE twice == SubSeq(batch, 1, n) \o SubSeq(batch, n, Replicas)
  <2>1. /\ SubSeq(batch, 1, n) \in Seq(Sample) /\ Len(SubSeq(batch, 1, n)) = n
        /\ SubSeq(batch, n, Replicas) \in Seq(Sample)
        /\ Len(SubSeq(batch, n, Replicas)) = Replicas - n + 1
        /\ \A i \in 1 .. n : SubSeq(batch, 1, n)[i] = batch[i]
        /\ \A i \in 1 .. Replicas - n + 1 : SubSeq(batch, n, Replicas)[i] = batch[n + i - 1]
    BY <1>2, <1>5
  <2>2. /\ twice \in Seq(Sample) /\ Len(twice) = Replicas + 1
        /\ \A i \in 1 .. n : twice[i] = batch[i]
        /\ \A i \in n + 1 .. Replicas + 1 : twice[i] = batch[i - 1]
    BY <1>2, <2>1
  <2>. HIDE DEF twice
  <2>3. DOMAIN twice = 1 .. Replicas + 1
    BY <2>2
  <2>4. \A i \in DOMAIN twice : twice[i].service = s /\ twice[i].scrape = made.cost + 1
    <3>. TAKE i \in DOMAIN twice
    <3>1. \E p \in 1 .. Replicas : twice[i] = batch[p]
      <4>1. CASE i \in 1 .. n
        <5>1. i \in 1 .. Replicas
          BY <1>2, <4>1
        <5>. QED
          BY <2>2, <4>1, <5>1
      <4>2. CASE i \in n + 1 .. Replicas + 1
        <5>1. i - 1 \in 1 .. Replicas
          BY <1>2, <4>2
        <5>. QED
          BY <2>2, <4>2, <5>1
      <4>. QED
        BY <1>2, <2>3, <4>1, <4>2
    <3>. QED
      BY <1>1, <1>4, <3>1
  <2>5. \A p \in 1 .. Replicas : \E i \in DOMAIN twice : twice[i].pod = p
    <3>. TAKE p \in 1 .. Replicas
    <3>1. \E i \in DOMAIN twice : twice[i] = batch[p]
      <4>1. CASE p \in 1 .. n
        <5>1. p \in DOMAIN twice
          BY <1>2, <2>3, <4>1
        <5>. QED
          BY <2>2, <4>1, <5>1
      <4>2. CASE p \in n + 1 .. Replicas
        <5>1. p + 1 \in n + 1 .. Replicas + 1 /\ (p + 1) - 1 = p
          BY <1>2, <4>2
        <5>2. p + 1 \in DOMAIN twice
          BY <1>2, <2>3
        <5>. QED
          BY <2>2, <5>1, <5>2
      <4>. QED
        BY <1>2, <4>1, <4>2
    <3>. QED
      BY <1>1, <1>4, <3>1
  <2>6. Len(twice) <= Replicas + 1
    BY <1>2, <2>2
  <2>7. Scrape(twice, s, made.cost + 1, 1)
    BY <2>2, <2>4, <2>5, <2>6 DEF Scrape
  <2>. QED
    BY <1>7, <2>7 DEF twice
<1>. QED
  <2>1. 0 \in Nat /\ 1 \in Nat
    OBVIOUS
  <2>2. CASE costs' = batch /\ repeats' = repeats
    BY <1>6, <2>1, <2>2
  <2>3. CASE /\ repeats' = repeats + 1
             /\ \E p \in 1 .. Replicas :
                  costs' = SubSeq(batch, 1, p) \o SubSeq(batch, p, Replicas)
    BY <1>7, <2>1, <2>3
  <2>. QED
    BY <1>3, <2>2, <2>3

LEMMA EarlierStep ==
  ASSUME TypeOK, Earlier, [Next]_vars
  PROVE  Earlier'
<1>. USE DEF stimuli, baselines, incidents, history
<1>0. costs \in Seq(Sample) /\ made.cost \in Nat
  BY TypeParts, MadeCounts
<1>1. CASE HandleTraffic \/ EmitTraffic \/ NextHour \/ UNCHANGED vars
  <2>1. UNCHANGED <<costs, task, streak>> /\ made'.cost = made.cost
    BY <1>1, TypeParts DEF HandleTraffic, ScoreTraffic, StoreTraffic, EmitTraffic, NextHour, vars, Made
  <2>. QED
    BY <2>1 DEF Earlier, At
<1>2. CASE TakeCost
  <2>1. Head(costs) = costs[1] /\ 1 \in DOMAIN costs
    BY <1>0, <1>2 DEF TakeCost
  <2>2. \A i \in DOMAIN Tail(costs) : Tail(costs)[i] = costs[i + 1] /\ i + 1 \in DOMAIN costs
    BY <1>0, <1>2 DEF TakeCost
  <2>. QED
    BY <1>2, <2>1, <2>2 DEF TakeCost, Earlier, At
<1>3. CASE LearnCpu \/ Evaluate
  <2>1. ~At("idle") /\ task'.sample = task.sample
    <3>1. CASE LearnCpu
      BY <3>1 DEF LearnCpu, At
    <3>2. CASE Evaluate
      BY <3>2, EvaluateVerdict DEF Evaluate, At, Verdict
    <3>. QED
      BY <1>3, <3>1, <3>2
  <2>2. UNCHANGED <<costs, made, streak>>
    BY <1>3 DEF LearnCpu, Evaluate
  <2>. QED
    BY <2>1, <2>2 DEF Earlier
<1>4. CASE SaveProfile
  <2>. DEFINE x == task.sample
              s == x.service
  <2>1. task \in Judged /\ s \in Service
    BY <1>4, TaskPhases DEF SaveProfile, TypeOK, At, Judged, Sample
  <2>2. task'.sample = x
    BY <1>4, <2>1 DEF SaveProfile, Judged
  <2>3. x.scrape <= made.cost /\ Identity(x)[1] = x.scrape
    BY <1>4 DEF SaveProfile, Earlier, At, Identity
  <2>4. UNCHANGED <<costs, made>>
    BY <1>4 DEF SaveProfile
  <2>5. streak' = [streak EXCEPT ![s] = IF task.qualifies THEN @ \cup {Identity(x)} ELSE {}]
    BY <1>4 DEF SaveProfile
  <2>. HIDE DEF x, s
  <2>6. \A t \in Service : \A c \in streak'[t] : c \in streak[t] \/ c = Identity(x)
    BY <2>1, <2>5 DEF TypeOK
  <2>7. \A t \in Service : \A c \in streak'[t] : c[1] <= made.cost
    BY <2>3, <2>6 DEF Earlier
  <2>. QED
    BY <2>2, <2>3, <2>4, <2>7 DEF Earlier
<1>5. CASE InsertAnomaly \/ PublishAnomaly
  <2>1. task \in Judged
    BY <1>5, TaskPhases DEF InsertAnomaly, PublishAnomaly, TypeOK, At
  <2>2. task'.sample = task.sample /\ ~At("idle")
    BY <1>5, <2>1 DEF InsertAnomaly, PublishAnomaly, Judged, At
  <2>. QED
    BY <1>5, <2>2 DEF InsertAnomaly, PublishAnomaly, Earlier
<1>6. CASE Ack \/ Raise
  BY <1>6 DEF Ack, Raise, Earlier, NoTask, At
<1>7. CASE AckFails \/ Restart
  <2>1. costs' = costs \/ (~At("idle") /\ costs' = <<task.sample>> \o costs)
    <3>1. CASE AckFails
      BY <3>1 DEF AckFails, At
    <3>2. CASE Restart
      <4>1. costs' = IF At("idle") THEN costs ELSE <<task.sample>> \o costs
        BY <3>2 DEF Restart
      <4>. QED
        BY <4>1
    <3>. QED
      BY <1>7, <3>1, <3>2
  <2>2. ~At("idle") => task.sample \in Sample /\ task.sample.scrape <= made.cost
    BY TaskPhases DEF TypeOK, Earlier
  <2>3. \A x \in Sample : \A i \in DOMAIN (<<x>> \o costs) :
          \/ (<<x>> \o costs)[i] = x
          \/ \E j \in DOMAIN costs : (<<x>> \o costs)[i] = costs[j]
    <3>. TAKE x \in Sample
    <3>. TAKE i \in DOMAIN (<<x>> \o costs)
    <3>1. CASE i = 1
      BY <1>0, <3>1
    <3>2. CASE i # 1
      <4>1. i - 1 \in DOMAIN costs /\ (<<x>> \o costs)[i] = costs[i - 1]
        BY <1>0, <3>2
      <4>. QED
        BY <4>1
    <3>. QED
      BY <3>1, <3>2
  <2>4. \A i \in DOMAIN costs' : costs'[i].scrape <= made.cost
    <3>1. CASE costs' = costs
      BY <3>1 DEF Earlier
    <3>2. CASE ~At("idle") /\ costs' = <<task.sample>> \o costs
      <4>. DEFINE x == task.sample
      <4>1. x \in Sample /\ x.scrape <= made.cost /\ costs' = <<x>> \o costs
        BY <2>2, <3>2
      <4>. HIDE DEF x
      <4>. QED
        BY <2>3, <4>1 DEF Earlier
    <3>. QED
      BY <2>1, <3>1, <3>2
  <2>5. task' = NoTask /\ UNCHANGED <<made, streak>>
    BY <1>7 DEF AckFails, Restart
  <2>. QED
    BY <2>4, <2>5 DEF Earlier, NoTask, At
<1>8. CASE EmitCost
  <2>1. PICK s \in Service, e \in Nat : Scrape(costs', s, made.cost + 1, e)
    BY <1>8, EmitScrape
  <2>2. made'.cost = made.cost + 1 /\ UNCHANGED <<task, streak>>
    <3>1. made \in [cost : Nat, traffic : Nat]
      BY TypeParts DEF Made
    <3>. QED
      BY <1>8, <3>1 DEF EmitCost
  <2>3. \A i \in DOMAIN costs' : costs'[i].scrape <= made'.cost
    BY <1>0, <2>1, <2>2 DEF Scrape
  <2>4. ~At("idle") => task.sample.scrape \in Int
    BY TaskPhases DEF TypeOK, Sample
  <2>5. \A s1 \in Service : \A c \in streak[s1] : c[1] \in Int
    BY TypeParts DEF Identities
  <2>. QED
    BY <1>0, <2>2, <2>3, <2>4, <2>5 DEF Earlier, At
<1>. QED
  BY <1>1, <1>2, <1>3, <1>4, <1>5, <1>6, <1>7, <1>8 DEF Next, HandleCost

LEMMA BalanceParts ==
  ASSUME TypeOK, NEW s \in Service
  PROVE  /\ cost_profile[s].consecutive_qualifying \in Nat
         /\ streak[s] \in SUBSET Identities
         /\ costs \in Seq(Sample) /\ repeats \in Nat
         /\ Uncounted \in Seq(Sample)
<1>1. cost_profile[s] \in Profile
  BY DEF TypeOK
<1>2. cost_profile[s].consecutive_qualifying \in Nat
  BY <1>1 DEF Profile
<1>3. costs \in Seq(Sample)
  BY TypeParts
<1>4. Uncounted \in Seq(Sample)
  <2>1. CASE task.pc \in {"cpu", "evaluate", "save"}
    <3>1. task.sample \in Sample
      BY <2>1, TaskPhases DEF TypeOK, At
    <3>. QED
      BY <1>3, <2>1, <3>1 DEF Uncounted
  <2>2. CASE task.pc \notin {"cpu", "evaluate", "save"}
    BY <1>3, <2>2 DEF Uncounted
  <2>. QED
    BY <2>1, <2>2
<1>. QED
  BY <1>2, <1>3, <1>4, TypeParts

(* A repeat more never hurts.                                              *)
LEMMA MoreRepeats ==
  ASSUME NEW u \in Seq(Sample), NEW s \in Service, NEW k \in SUBSET Identities,
         NEW q \in Nat, NEW r \in Nat, NEW e \in Nat, Balanced(q, k, u, s, r)
  PROVE  Balanced(q, k, u, s, r + e)
<1>1. Cardinality(Awaiting(u, s)) \in Nat
  BY QueueFinite, FS_CardinalityType
<1>2. k \cup Names(u, s) \in SUBSET Identities
  BY QueueFinite
<1>3. Cardinality(k \cup Names(u, s)) \in Nat
  BY <1>2, KnownFinite
<1>. QED
  BY <1>1, <1>3 DEF Balanced

LEMMA SaveBalance ==
  ASSUME TypeOK, Judging, Balance, SaveProfile, NEW t \in Service
  PROVE  Balanced(cost_profile'[t].consecutive_qualifying, streak'[t], Uncounted', t, repeats')
<1>. DEFINE x == task.sample
            s == x.service
            q == cost_profile[t].consecutive_qualifying
            k == streak[t]
<1>1. task \in Judged /\ x \in Sample /\ s \in Service
  BY TaskPhases DEF SaveProfile, TypeOK, At, Judged, Sample
<1>2. Uncounted = <<x>> \o costs /\ Uncounted' = costs /\ repeats' = repeats
  <2>1. task'.pc \in {"insert", "ack"} /\ costs' = costs
    BY <1>1 DEF SaveProfile, Judged
  <2>. QED
    BY <2>1 DEF SaveProfile, Uncounted, At
<1>3. q \in Nat /\ k \in SUBSET Identities /\ costs \in Seq(Sample) /\ repeats \in Nat
  BY BalanceParts
<1>4. Balanced(q, k, <<x>> \o costs, t, repeats)
  BY <1>2 DEF Balance
<1>5. /\ cost_profile'[t] = IF t = s THEN task.profile ELSE cost_profile[t]
      /\ streak'[t] = IF t # s THEN k ELSE IF task.qualifies THEN k \cup {Identity(x)} ELSE {}
  BY <1>1 DEF SaveProfile, TypeOK
<1>6. t = s => task.profile.consecutive_qualifying = IF task.qualifies THEN q + 1 ELSE 0
  BY DEF SaveProfile, Judging
<1>. HIDE DEF x, s, q, k
<1>7. Balanced(cost_profile'[t].consecutive_qualifying, streak'[t], costs, t, repeats)
  <2>1. Balanced(q, k, costs, t, repeats)
    BY <1>1, <1>3, <1>4, Discard
  <2>2. CASE t # s
    <3>1. cost_profile'[t].consecutive_qualifying = q /\ streak'[t] = k
      BY <1>5, <2>2 DEF q
    <3>. QED
      BY <2>1, <3>1, Zenon
  <2>3. CASE t = s /\ task.qualifies
    <3>1. cost_profile'[t].consecutive_qualifying = q + 1
      BY <1>5, <1>6, <2>3
    <3>2. streak'[t] = k \cup {Identity(x)}
      BY <1>5, <2>3
    <3>3. t = x.service
      BY <2>3 DEF s
    <3>4. Balanced(q + 1, k \cup {Identity(x)}, costs, t, repeats)
      BY <1>1, <1>3, <1>4, <3>3, CountHead
    <3>. QED
      BY <3>1, <3>2, <3>4, Zenon
  <2>4. CASE t = s /\ ~task.qualifies
    <3>1. cost_profile'[t].consecutive_qualifying = 0 /\ streak'[t] = {}
      BY <1>5, <1>6, <2>4
    <3>2. Balanced(0, {}, costs, t, repeats)
      BY <1>3, <2>1, StartOver
    <3>. QED
      BY <3>1, <3>2, Zenon
  <2>. QED
    BY <2>2, <2>3, <2>4
<1>. QED
  BY <1>2, <1>7

LEMMA EmitBalance ==
  ASSUME TypeOK, Earlier, Balance, EmitCost, NEW t \in Service
  PROVE  Balanced(cost_profile'[t].consecutive_qualifying, streak'[t], Uncounted', t, repeats')
<1>. DEFINE x == task.sample
            q == cost_profile[t].consecutive_qualifying
            k == streak[t]
            m == made.cost + 1
<1>1. PICK s \in Service, e \in Nat : Scrape(costs', s, m, e) /\ repeats' = repeats + e
  BY EmitScrape
<1>2. UNCHANGED <<cost_profile, streak, task>> /\ costs = << >>
  BY DEF EmitCost, baselines, history
<1>3. q \in Nat /\ k \in SUBSET Identities /\ repeats \in Nat
  BY BalanceParts
<1>4. made.cost \in Nat
  BY MadeCounts
<1>5. \A c \in k : c[1] # m
  BY <1>3, <1>4 DEF Earlier, Identities
<1>6. Balanced(q, k, Uncounted, t, repeats)
  BY DEF Balance
<1>7. CASE task.pc \in {"cpu", "evaluate", "save"}
  <2>1. x \in Sample /\ x.scrape <= made.cost
    BY <1>7, TaskPhases DEF TypeOK, Earlier, At
  <2>2. x.scrape # m
    BY <1>4, <2>1 DEF Sample
  <2>3. Uncounted = <<x>> \o << >> /\ Uncounted' = <<x>> \o costs'
    BY <1>2, <1>7 DEF Uncounted
  <2>. HIDE DEF x, q, k, m
  <2>4. Balanced(q, k, <<x>> \o << >>, t, repeats)
    BY <1>6, <2>3
  <2>5. PICK b : b = costs'
    OBVIOUS
  <2>6. Scrape(b, s, m, e)
    BY <1>1, <2>5
  <2>7. Balanced(q, k, <<x>> \o b, t, repeats + e)
    BY <1>3, <1>5, <2>1, <2>2, <2>4, <2>6, ScrapeArrives
  <2>. QED
    BY <1>1, <1>2, <2>3, <2>5, <2>7 DEF q, k
<1>8. CASE task.pc \notin {"cpu", "evaluate", "save"}
  <2>1. Uncounted = << >> /\ Uncounted' = costs'
    BY <1>2, <1>8 DEF Uncounted
  <2>. HIDE DEF x, q, k, m
  <2>2. Balanced(q, k, << >>, t, repeats)
    BY <1>6, <2>1
  <2>3. Balanced(q, k, costs', t, repeats + e)
    BY <1>1, <1>3, <1>5, <2>2, ScrapeArrives
  <2>. QED
    BY <1>1, <1>2, <2>1, <2>3 DEF q, k
<1>. QED
  BY <1>7, <1>8

LEMMA BalanceStep ==
  ASSUME TypeOK, Judging, Earlier, Balance, [Next]_vars
  PROVE  Balance' /\ repeats' \in Nat /\ repeats' >= repeats
<1>1. CASE SaveProfile
  <2>1. repeats' = repeats /\ repeats \in Nat
    BY <1>1, TypeParts DEF SaveProfile
  <2>2. Balance'
    BY <1>1, SaveBalance DEF Balance
  <2>. QED
    BY <2>1, <2>2
<1>2. CASE EmitCost
  <2>1. repeats' \in Nat /\ repeats' >= repeats
    BY <1>2, EmitScrape, TypeParts
  <2>. QED
    BY <1>2, <2>1, EmitBalance DEF Balance
<1>3. CASE UNCHANGED <<cost_profile, streak>> /\ Moved
  <2>1. repeats \in Nat /\ costs \in Seq(Sample)
    BY TypeParts
  <2>2. repeats' \in Nat /\ repeats' >= repeats
    <3>1. repeats' = repeats \/ repeats' = repeats + 1
      BY <1>3 DEF Moved
    <3>. QED
      BY <2>1, <3>1
  <2>3. ASSUME NEW t \in Service
        PROVE  Balanced(cost_profile'[t].consecutive_qualifying, streak'[t], Uncounted', t, repeats')
    <3>. DEFINE q == cost_profile[t].consecutive_qualifying
                k == streak[t]
    <3>1. q \in Nat /\ k \in SUBSET Identities /\ Uncounted \in Seq(Sample)
      BY BalanceParts
    <3>2. Balanced(q, k, Uncounted, t, repeats)
      BY DEF Balance
    <3>3. cost_profile'[t].consecutive_qualifying = q /\ streak'[t] = k
      BY <1>3
    <3>. HIDE DEF q, k
    <3>4. CASE Uncounted' = Uncounted /\ repeats' \in {repeats, repeats + 1}
      <4>1. Balanced(q, k, Uncounted, t, repeats + 1)
        BY <2>1, <3>1, <3>2, MoreRepeats
      <4>2. Balanced(q, k, Uncounted, t, repeats')
        BY <3>2, <3>4, <4>1
      <4>. QED
        BY <3>3, <3>4, <4>2, Zenon
    <3>5. CASE \E x \in Sample : /\ Uncounted = <<x>> \o costs /\ Uncounted' = costs
                                 /\ repeats' = repeats
      <4>. PICK x \in Sample : /\ Uncounted = <<x>> \o costs /\ Uncounted' = costs
                               /\ repeats' = repeats
        BY <3>5
      <4>1. Balanced(q, k, <<x>> \o costs, t, repeats)
        BY <3>2
      <4>2. Balanced(q, k, costs, t, repeats)
        BY <2>1, <3>1, <4>1, Discard
      <4>. QED
        BY <3>3, <4>2, Zenon
    <3>6. CASE \E x \in Sample : /\ Uncounted = costs /\ Uncounted' = <<x>> \o costs
                                 /\ repeats' = repeats + 1
      <4>. PICK x \in Sample : /\ Uncounted = costs /\ Uncounted' = <<x>> \o costs
                               /\ repeats' = repeats + 1
        BY <3>6
      <4>1. Balanced(q, k, costs, t, repeats)
        BY <3>2
      <4>2. Balanced(q, k, <<x>> \o costs, t, repeats + 1)
        BY <2>1, <3>1, <4>1, PutBack
      <4>. QED
        BY <3>3, <4>2, Zenon
    <3>. QED
      BY <1>3, <3>4, <3>5, <3>6 DEF Moved
  <2>. QED
    BY <2>2, <2>3 DEF Balance
<1>. QED
  BY <1>1, <1>2, <1>3, QueueStep

(* An incident rests on as many distinct samples as the dwell threshold    *)
(* asks for, short only of those delivered more than once: for any         *)
(* threshold, any number of replicas, and any failures.                    *)
THEOREM DwellHolds == Spec => []DwellUpToRepeats
<1>. DEFINE Inv == Warranted /\ Earlier /\ Balance /\ DwellUpToRepeats
<1>1. Init => Inv
  <2>. SUFFICES ASSUME Init PROVE Inv
    OBVIOUS
  <2>1. /\ Uncounted = << >> /\ repeats = 0 /\ At("idle") /\ anomalies = << >> /\ costs = << >>
        /\ \A s \in Service :
             streak[s] = {} /\ cost_profile[s].consecutive_qualifying = 0
    BY DEF Init, NoTask, Warm, Uncounted, At
  <2>2. Balance
    <3>. SUFFICES ASSUME NEW s \in Service PROVE Balanced(0, {}, << >>, s, 0)
      BY <2>1 DEF Balance
    <3>1. Awaiting(<< >>, s) = {} /\ {} \cup Names(<< >>, s) = {}
      BY NothingQueued
    <3>2. Cardinality(Awaiting(<< >>, s)) = 0 /\ Cardinality({} \cup Names(<< >>, s)) = 0
          /\ Cardinality({}) = 0
      BY <3>1, FS_EmptySet
    <3>. QED
      BY <3>2 DEF Balanced
  <2>. QED
    BY <2>1, <2>2 DEF Warranted, Earlier, DwellUpToRepeats, At
<1>2. IInv /\ Inv /\ [Next]_vars => Inv'
  <2>. SUFFICES ASSUME TypeOK, Judging, Warranted, Earlier, Balance, DwellUpToRepeats, [Next]_vars
                PROVE  Warranted' /\ Earlier' /\ Balance' /\ DwellUpToRepeats'
    BY DEF IInv
  <2>1. Warranted' /\ Earlier'
    BY WarrantedStep, EarlierStep
  <2>2. Balance' /\ repeats' \in Nat /\ repeats' >= repeats
    BY BalanceStep
  <2>3. repeats \in Nat /\ Dwell \in Nat /\ anomalies \in Seq(Anomaly)
    BY DetectorAssumption DEF TypeOK
  <2>4. \A i \in DOMAIN anomalies :
          /\ Cardinality(anomalies[i].backing) \in Nat
          /\ Cardinality(anomalies[i].backing) + repeats >= Dwell
    <3>. TAKE i \in DOMAIN anomalies
    <3>1. anomalies[i] \in Anomaly
      BY <2>3
    <3>2. anomalies[i].backing \in SUBSET Identities
      BY <3>1 DEF Anomaly
    <3>. QED
      BY <3>2, KnownFinite DEF DwellUpToRepeats
  <2>5. CASE anomalies' = anomalies
    <3>1. \A i \in DOMAIN anomalies : Cardinality(anomalies[i].backing) + repeats' >= Dwell
      BY <2>2, <2>3, <2>4
    <3>. QED
      BY <2>1, <2>2, <2>5, <3>1 DEF DwellUpToRepeats
  <2>6. CASE InsertAnomaly
    <3>. DEFINE s == task.sample.service
                q == cost_profile[s].consecutive_qualifying
    <3>1. s \in Service
      BY <2>6, TaskPhases DEF InsertAnomaly, TypeOK, At, Sample
    <3>2. q >= Dwell
      BY <2>6 DEF InsertAnomaly, Warranted
    <3>3. /\ q \in Nat /\ streak[s] \in SUBSET Identities
          /\ Uncounted \in Seq(Sample)
      BY <3>1, BalanceParts
    <3>4. Balanced(q, streak[s], Uncounted, s, repeats)
      BY <3>1 DEF Balance
    <3>. HIDE DEF q
    <3>5. Cardinality(streak[s]) + repeats >= Dwell
      BY <2>3, <3>1, <3>2, <3>3, <3>4, Backed
    <3>6. Cardinality(streak[s]) \in Nat
      BY <3>3, KnownFinite
    <3>7. \A i \in DOMAIN anomalies' :
            \/ i \in DOMAIN anomalies /\ anomalies'[i].backing = anomalies[i].backing
            \/ anomalies'[i].backing = streak[s]
      BY <2>5, RowStep
    <3>8. repeats' = repeats
      BY <2>6 DEF InsertAnomaly
    <3>. HIDE DEF s
    <3>. QED
      BY <2>1, <2>2, <2>3, <2>4, <3>5, <3>6, <3>7, <3>8 DEF DwellUpToRepeats
  <2>. QED
    BY <2>1, <2>2, <2>5, <2>6, RowStep
<1>. QED
  BY <1>1, <1>2, Invariant, PTL DEF Spec
=============================================================================
