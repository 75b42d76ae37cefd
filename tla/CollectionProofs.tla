-------------------------- MODULE CollectionProofs --------------------------
(***************************************************************************)
(* Theorems about Collection, for every set of pods and controllers, every *)
(* cache lifetime, and any churn, faults and length of the run.            *)
(***************************************************************************)
EXTENDS Collection, TLAPS

----------------------------------------------------------------------------
(* Type correctness                                                        *)

LEMMA NameOfType ==
  ASSUME TypeOK, NEW p \in Pod, owner[p] # Gone
  PROVE  NameOf(p, owner[p]) \in Name
BY DEF TypeOK, NameOf, Name, Bare, Gone

LEMMA RememberType ==
  ASSUME TypeOK, NEW p \in Pod, NEW service \in Name, NEW at \in 0 .. now,
         Remember(p, service, at)
  PROVE  /\ DOMAIN cache' = DOMAIN cache \cup {p} /\ DOMAIN cache' \subseteq Pod
         /\ cache' \in [DOMAIN cache' -> [service : Name, at : 0 .. now]]
         /\ cache'[p] = [service |-> service, at |-> at]
         /\ \A q \in DOMAIN cache \ {p} : cache'[q] = cache[q]
BY DEF TypeOK, Remember

(* What the cycle does next with a pod it is at.                           *)
LEMMA AtPod ==
  ASSUME TypeOK, cycle.pc \in {"pod", "replicaset", "publish"}
  PROVE  /\ cycle \in Working /\ cycle.pod \in Pod /\ cycle.pod \in Name
         /\ cycle.service \in Name /\ cycle.at \in 0 .. now
BY DEF TypeOK, Waiting, Working, Name

LEMMA ResolvedType ==
  ASSUME TypeOK, cycle.pc \in {"pod", "replicaset"}, NEW service \in Name, Resolved(service)
  PROVE  /\ cycle' \in Working /\ cycle'.todo = cycle.todo /\ cycle'.live = cycle.live
         /\ cycle'.pc = "publish" /\ cycle'.pod = cycle.pod /\ cycle'.at = cycle.at
         /\ cycle'.service = service
BY AtPod DEF Working, Resolved

LEMMA ResolveType ==
  ASSUME TypeOK, NEW p \in Pod, Resolve(p)
  PROVE  TypeOK'
<1>1. Fresh(p) => cache[p].service \in Name
  BY DEF Fresh, TypeOK
<1>2. cycle \in Waiting /\ p \in Name /\ now \in 0 .. now
  BY DEF Resolve, TypeOK, Waiting, Working, Name
<1>3. cycle' \in Working /\ cycle'.todo = cycle.todo \ {p} /\ cycle'.live = cycle.live \cup {p}
  BY <1>1, <1>2 DEF Resolve, Waiting, Working
<1>. QED
  BY <1>3 DEF Resolve, TypeOK, cluster, Waiting, Working, Name

LEMMA LookupType ==
  ASSUME TypeOK, ReadPod \/ ReadReplicaSet \/ LookupFails
  PROVE  TypeOK'
<1>. DEFINE p == cycle.pod
<1>1. cycle.pc \in {"pod", "replicaset"} /\ p \in Pod /\ p \in Name
  BY AtPod DEF ReadPod, ReadReplicaSet, LookupFails
<1>2. UNCHANGED <<owner, running, now>>
  BY DEF ReadPod, ReadReplicaSet, LookupFails, cluster
<1>3. ASSUME NEW service \in Name, Resolved(service), Remember(p, service, cycle.at)
      PROVE  TypeOK'
  <2>1. cycle' \in Working /\ cycle'.todo = cycle.todo /\ cycle'.live = cycle.live
    BY <1>1, <1>3, ResolvedType
  <2>2. DOMAIN cache' \subseteq Pod /\ cache' \in [DOMAIN cache' -> [service : Name, at : 0 .. now]]
    BY <1>1, <1>3, AtPod, RememberType
  <2>. QED
    BY <1>2, <2>1, <2>2 DEF TypeOK, Waiting, Working
<1>4. CASE ReadPod /\ owner[p] \in Replicated
  <2>1. cycle' = [cycle EXCEPT !.pc = "replicaset", !.service = owner[p]] /\ UNCHANGED cache
    BY <1>4, CollectionAssumption DEF ReadPod, Gone
  <2>2. owner[p] \in Name
    BY <1>4, CollectionAssumption DEF Name
  <2>3. cycle' \in Working /\ cycle'.todo = cycle.todo /\ cycle'.live = cycle.live
    BY <1>1, <2>1, <2>2, AtPod DEF Working
  <2>. QED
    BY <1>2, <2>1, <2>3 DEF TypeOK, Waiting, Working
<1>5. CASE ReadPod /\ owner[p] \notin Replicated
  BY <1>1, <1>3, <1>5, NameOfType DEF ReadPod
<1>6. CASE ReadReplicaSet
  BY <1>1, <1>3, <1>6, AtPod DEF ReadReplicaSet
<1>7. CASE LookupFails
  BY <1>1, <1>3, <1>7 DEF LookupFails
<1>. QED
  BY <1>4, <1>5, <1>6, <1>7

LEMMA CycleType ==
  ASSUME TypeOK, Fetch \/ PublishNode \/ PublishMetric \/ Prune \/ CycleFails
  PROVE  TypeOK'
<1>1. UNCHANGED <<owner, running, now>>
  BY DEF Fetch, PublishNode, PublishMetric, Prune, CycleFails, cluster
<1>2. cycle' \in Waiting /\ cycle'.todo \cap cycle'.live = {}
  BY DEF Fetch, PublishNode, PublishMetric, Prune, CycleFails, Asleep, TypeOK, Waiting, Working
<1>3. DOMAIN cache' \subseteq Pod /\ cache' \in [DOMAIN cache' -> [service : Name, at : 0 .. now]]
  BY DEF Fetch, PublishNode, PublishMetric, Prune, CycleFails, Restrict, TypeOK
<1>. QED
  BY <1>1, <1>2, <1>3 DEF TypeOK, Waiting, Working

LEMMA ClusterType ==
  ASSUME TypeOK, Tick \/ \E p \in Mortal : Create(p) \/ Delete(p) \/ Stop(p)
  PROVE  TypeOK'
<1>1. CASE Tick
  <2>1. now' \in Nat /\ now \in Nat /\ now <= now' /\ UNCHANGED <<owner, running, cache, cycle>>
    BY <1>1 DEF Tick, cluster, collector, TypeOK
  <2>2. cycle' \in (Waiting \cup Working)'
    BY <2>1 DEF TypeOK, Waiting, Working
  <2>3. cache' \in [DOMAIN cache' -> [service : Name, at : 0 .. now']]
    BY <2>1 DEF TypeOK
  <2>. QED
    BY <2>1, <2>2, <2>3 DEF TypeOK
<1>2. ASSUME NEW p \in Mortal, Create(p) \/ Delete(p) \/ Stop(p)
      PROVE  TypeOK'
  <2>1. UNCHANGED <<now, cache, cycle>>
    BY <1>2 DEF Create, Delete, Stop, Change, collector
  <2>2. p \in Pod
    BY CollectionAssumption
  <2>3. /\ owner' \in [Pod -> Workload \cup {Bare, Gone}] /\ running' \subseteq Pod
        /\ \A q \in Pod : owner'[q] # Gone => q \in running'
    <3>1. CASE Create(p)
      BY <2>2, <3>1 DEF Create, Change, TypeOK, Gone
    <3>2. CASE Delete(p)
      BY <2>2, <3>2 DEF Delete, Change, TypeOK, Gone
    <3>3. CASE Stop(p)
      BY <2>2, <3>3 DEF Stop, TypeOK, Gone
    <3>. QED
      BY <1>2, <3>1, <3>2, <3>3
  <2>. QED
    BY <2>1, <2>3 DEF TypeOK, Waiting, Working
<1>. QED
  BY <1>1, <1>2

LEMMA TypeStep ==
  ASSUME TypeOK, [Next]_vars
  PROVE  TypeOK'
<1>1. CASE UNCHANGED vars
  BY <1>1 DEF TypeOK, vars, cluster, collector, Waiting, Working
<1>. QED
  BY <1>1, ResolveType, LookupType, CycleType, ClusterType DEF Next, Collect

(* The three views agree where they must: what the API server knows runs,  *)
(* and the cache and the cycle hold names of pods and controllers only.    *)
THEOREM TypeCorrect == FairSpec => []TypeOK
<1>1. Init => TypeOK
  BY CollectionAssumption DEF Init, TypeOK, Asleep, Waiting, Working, Bare, Gone
<1>2. TypeOK /\ [Next]_vars => TypeOK'
  BY TypeStep
<1>. QED
  BY <1>1, <1>2, PTL DEF FairSpec

----------------------------------------------------------------------------
(* Booking                                                                 *)

(* The pod had the name at t, or it is its own and a lookup failed at t.   *)
Justified(p, service, t, names, failures) ==
  \/ <<p, service, t>> \in names
  \/ service = p /\ <<p, t>> \in failures

(* Why a name is right, from the moment it is found: what the API server   *)
(* says now is on record; each remembered name was right no earlier than   *)
(* it is dated, as is the ReplicaSet's; and the cycle publishes one that   *)
(* was right then, or less than Ttl before it came to the pod.             *)
NamesJustified ==
  /\ Owned(owner, now) \subseteq owned
  /\ \A p \in DOMAIN cache : \E t \in cache[p].at .. now :
       Justified(p, cache[p].service, t, owned, failed)
  /\ cycle.pc = "replicaset" =>
       \E t \in cycle.at .. now : <<cycle.pod, cycle.service, t>> \in owned
  /\ cycle.pc = "publish" =>
       \E t \in 0 .. now : /\ t + Ttl > cycle.at \/ t >= cycle.at
                           /\ Justified(cycle.pod, cycle.service, t, owned, failed)

LEMMA StillJustified ==
  ASSUME owned \subseteq owned', failed \subseteq failed',
         NEW p, NEW service, NEW t, Justified(p, service, t, owned, failed)
  PROVE  Justified(p, service, t, owned', failed')
BY DEF Justified

(* A step that leaves cache and cycle alone forgets no reason.             *)
LEMMA ClusterJustified ==
  ASSUME TypeOK, NamesJustified, UNCHANGED <<cache, cycle, failed>>, owned \subseteq owned',
         now' \in Nat, now <= now', Owned(owner', now') \subseteq owned'
  PROVE  NamesJustified'
<1>1. now \in Nat /\ 0 .. now \subseteq 0 .. now' /\ \A n \in Nat : n .. now \subseteq n .. now'
  BY DEF TypeOK
<1>2. \A p \in DOMAIN cache : \E t \in cache[p].at .. now' :
        Justified(p, cache[p].service, t, owned', failed')
  BY <1>1, StillJustified DEF NamesJustified, TypeOK
<1>3. cycle.pc = "replicaset" =>
        \E t \in cycle.at .. now' : <<cycle.pod, cycle.service, t>> \in owned'
  BY <1>1, AtPod DEF NamesJustified
<1>4. cycle.pc = "publish" =>
        \E t \in 0 .. now' : /\ t + Ttl > cycle.at \/ t >= cycle.at
                             /\ Justified(cycle.pod, cycle.service, t, owned', failed')
  BY <1>1, StillJustified DEF NamesJustified
<1>. QED
  BY <1>2, <1>3, <1>4 DEF NamesJustified, Owned

LEMMA ResolveJustified ==
  ASSUME TypeOK, NamesJustified, NEW p \in Pod, Resolve(p)
  PROVE  NamesJustified'
<1>1. /\ UNCHANGED <<owner, now, cache, owned, failed>>
      /\ cycle'.pc \in {"pod", "publish"} /\ cycle'.pod = p /\ cycle'.at = now
      /\ cycle'.pc = "publish" => Fresh(p) /\ cycle'.service = cache[p].service
  BY DEF Resolve, cluster
<1>2. ASSUME Fresh(p)
      PROVE  \E t \in 0 .. now : t + Ttl > now /\ Justified(p, cache[p].service, t, owned, failed)
  <2>1. p \in DOMAIN cache /\ now - cache[p].at < Ttl /\ cache[p].at \in 0 .. now
    BY <1>2 DEF Fresh, TypeOK
  <2>2. PICK t \in cache[p].at .. now : Justified(p, cache[p].service, t, owned, failed)
    BY <2>1 DEF NamesJustified
  <2>3. t \in 0 .. now /\ t + Ttl > now
    BY <2>1, <2>2, CollectionAssumption DEF TypeOK
  <2>. QED
    BY <2>2, <2>3
<1>. QED
  BY <1>1, <1>2 DEF NamesJustified, Justified, Owned

(* A lookup that ends with a name it found right since it began, or on     *)
(* record as failed.                                                       *)
LEMMA ResolvedJustified ==
  ASSUME TypeOK, NamesJustified, cycle.pc \in {"pod", "replicaset"},
         UNCHANGED <<owner, now, owned>>, failed \subseteq failed',
         NEW service \in Name, Resolved(service), Remember(cycle.pod, service, cycle.at),
         \E t \in cycle.at .. now : Justified(cycle.pod, service, t, owned', failed')
  PROVE  NamesJustified'
<1>1. PICK t \in cycle.at .. now : Justified(cycle.pod, service, t, owned', failed')
  OBVIOUS
<1>2. /\ cycle.pod \in Pod /\ cycle.at \in 0 .. now /\ now \in Nat /\ t \in 0 .. now
      /\ t >= cycle.at
  <2>1. cycle.pod \in Pod /\ cycle.at \in 0 .. now
    BY AtPod
  <2>2. now \in Nat
    BY CollectionAssumption DEF TypeOK
  <2>. QED
    BY <2>1, <2>2
<1>3. /\ cycle'.pc = "publish" /\ cycle'.pod = cycle.pod /\ cycle'.at = cycle.at
      /\ cycle'.service = service
  BY ResolvedType
<1>4. /\ DOMAIN cache' = DOMAIN cache \cup {cycle.pod}
      /\ cache'[cycle.pod] = [service |-> service, at |-> cycle.at]
      /\ \A q \in DOMAIN cache \ {cycle.pod} : cache'[q] = cache[q]
  BY <1>2, RememberType
<1>5. ASSUME NEW q \in DOMAIN cache'
      PROVE  \E u \in cache'[q].at .. now : Justified(q, cache'[q].service, u, owned', failed')
  <2>1. CASE q = cycle.pod
    BY <1>1, <1>4, <2>1
  <2>2. CASE q # cycle.pod
    BY <1>4, <2>2, StillJustified DEF NamesJustified
  <2>. QED
    BY <2>1, <2>2
<1>6. Justified(cycle'.pod, cycle'.service, t, owned', failed')
  BY <1>1, <1>3 DEF Justified
<1>. QED
  BY <1>2, <1>3, <1>5, <1>6 DEF NamesJustified, Owned

LEMMA LookupJustified ==
  ASSUME TypeOK, NamesJustified, ReadPod \/ ReadReplicaSet \/ LookupFails
  PROVE  NamesJustified'
<1>. DEFINE p == cycle.pod
<1>1. /\ cycle.pc \in {"pod", "replicaset"} /\ p \in Pod /\ p \in Name
      /\ now \in cycle.at .. now
  BY AtPod DEF ReadPod, ReadReplicaSet, LookupFails, TypeOK
<1>2. UNCHANGED <<owner, now, owned>> /\ failed \subseteq failed'
  BY DEF ReadPod, ReadReplicaSet, LookupFails, cluster
<1>3. owner[p] # Gone => <<p, NameOf(p, owner[p]), now>> \in owned
  BY <1>1 DEF NamesJustified, Owned
<1>4. CASE ReadPod /\ owner[p] \in Replicated
  <2>1. cycle' = [cycle EXCEPT !.pc = "replicaset", !.service = owner[p]] /\ UNCHANGED cache
        /\ owner[p] \notin {Gone, Bare} /\ UNCHANGED failed
    BY <1>4, CollectionAssumption DEF ReadPod, Gone, Bare
  <2>2. cycle'.pc = "replicaset" /\ cycle'.pod = p /\ cycle'.service = owner[p]
        /\ cycle'.at = cycle.at
    BY <1>1, <2>1, AtPod DEF Working
  <2>. QED
    BY <1>1, <1>2, <1>3, <2>1, <2>2 DEF NamesJustified, Justified, Owned, NameOf
<1>5. CASE ReadPod /\ owner[p] \notin Replicated /\ owner[p] # Gone
  <2>1. Justified(p, NameOf(p, owner[p]), now, owned', failed')
    BY <1>2, <1>3, <1>5 DEF Justified
  <2>. QED
    BY <1>1, <1>2, <1>5, <2>1, NameOfType, ResolvedJustified DEF ReadPod
<1>6. CASE ReadPod /\ owner[p] = Gone
  <2>1. Resolved(p) /\ Remember(p, p, cycle.at) /\ <<p, now>> \in failed'
    BY <1>6, CollectionAssumption DEF ReadPod, Gone
  <2>2. Justified(p, p, now, owned', failed')
    BY <1>2, <2>1 DEF Justified
  <2>. QED
    BY <1>1, <1>2, <2>1, <2>2, ResolvedJustified
<1>7. CASE ReadReplicaSet
  <2>1. \E t \in cycle.at .. now : Justified(p, cycle.service, t, owned', failed')
    BY <1>2, <1>7 DEF NamesJustified, ReadReplicaSet, Justified
  <2>. QED
    BY <1>1, <1>2, <1>7, <2>1, AtPod, ResolvedJustified DEF ReadReplicaSet
<1>8. CASE LookupFails
  <2>1. Justified(p, p, now, owned', failed')
    BY <1>2, <1>8 DEF LookupFails, Justified
  <2>. QED
    BY <1>1, <1>2, <1>8, <2>1, ResolvedJustified DEF LookupFails
<1>. QED
  BY <1>4, <1>5, <1>6, <1>7, <1>8

LEMMA CycleJustified ==
  ASSUME TypeOK, NamesJustified, Fetch \/ PublishNode \/ PublishMetric \/ Prune \/ CycleFails
  PROVE  NamesJustified'
<1>1. /\ UNCHANGED <<owner, now, owned, failed>> /\ cycle'.pc \in {"sleep", "node", "pods"}
      /\ DOMAIN cache' \subseteq DOMAIN cache /\ \A p \in DOMAIN cache' : cache'[p] = cache[p]
  BY DEF Fetch, PublishNode, PublishMetric, Prune, CycleFails, Asleep, TypeOK, Waiting,
         Working, Restrict, cluster
<1>. QED
  BY <1>1 DEF NamesJustified, Justified, Owned

LEMMA JustifiedStep ==
  ASSUME TypeOK, NamesJustified, [Next]_vars
  PROVE  NamesJustified'
<1>1. CASE UNCHANGED vars
  BY <1>1 DEF vars, cluster, collector, NamesJustified, Justified, Owned
<1>2. CASE Tick
  <2>1. /\ UNCHANGED <<owner, cache, cycle, failed>> /\ now' = now + 1
        /\ owned' = owned \cup Owned(owner, now')
    BY <1>2 DEF Tick, cluster, collector
  <2>. QED
    BY <2>1, ClusterJustified DEF TypeOK
<1>3. ASSUME NEW p \in Mortal, Create(p) \/ Delete(p) \/ Stop(p)
      PROVE  NamesJustified'
  <2>1. /\ UNCHANGED <<now, cache, cycle, failed>> /\ owned \subseteq owned'
        /\ Owned(owner', now) \subseteq owned'
    BY <1>3 DEF Create, Delete, Stop, Change, collector, NamesJustified
  <2>. QED
    BY <2>1, ClusterJustified DEF TypeOK
<1>. QED
  BY <1>1, <1>2, <1>3, ResolveJustified, LookupJustified, CycleJustified DEF Next, Collect

(* The name a sample is booked under was its pod's less than the cache's   *)
(* lifetime before the cycle came to it, or its own after a failed lookup. *)
THEOREM BookingHolds == FairSpec => []BookedUnderOwnName
<1>1. Init => NamesJustified
  BY DEF Init, NamesJustified, Asleep
<1>2. TypeOK /\ NamesJustified /\ [Next]_vars => NamesJustified'
  BY JustifiedStep
<1>3. NamesJustified => BookedUnderOwnName
  BY DEF NamesJustified, BookedUnderOwnName, Justified
<1>. QED
  BY <1>1, <1>2, <1>3, TypeCorrect, PTL DEF FairSpec
=============================================================================
