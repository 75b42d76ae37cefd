----------------------------- MODULE Collection -----------------------------
(***************************************************************************)
(* Observation: the collector of one node (services/collector) meters the  *)
(* node's pods and names the workload each belongs to.                     *)
(*                                                                         *)
(* A pod's name is new after every restart, so costs are booked under its  *)
(* controller, which two reads of the Kubernetes API find and a cache      *)
(* remembers for Ttl.  The kubelet's list of pods, the API server's and    *)
(* the cache are three views that agree only most of the time.             *)
(***************************************************************************)
EXTENDS Naturals, Functions

CONSTANTS
  Pod,        (* pod names, (namespace, name)                               *)
  Mortal,     (* those that are deleted and created in this instance        *)
  Workload,   (* controllers: Deployments, DaemonSets, ...                  *)
  Replicated, (* those whose pods a ReplicaSet owns: Deployments, and       *)
              (* ReplicaSets that have no owner and go by their own name    *)
  InitialOwner, (* each pod's controller at the start, or Bare or Gone      *)
  Ttl,        (* CACHE_TTL_SECONDS                                          *)
  MaxTime,    (* bound: ticks of the clock                                  *)
  MaxChurn,   (* bound: pods created                                        *)
  MaxFaults   (* bound: failed calls and lost connections                   *)

ASSUME CollectionAssumption ==
  /\ Mortal \subseteq Pod /\ Replicated \subseteq Workload /\ Pod \cap Workload = {}
  /\ {"bare", "gone"} \cap Workload = {}
  /\ InitialOwner \in [Pod -> Workload \cup {"bare", "gone"}]
  /\ Ttl \in Nat /\ MaxTime \in Nat /\ MaxChurn \in Nat
  /\ MaxFaults \in Nat

VARIABLES
  owner,    (* the API server's view: each pod's controller, or none, or    *)
            (* that there is no such pod                                    *)
  running,  (* the kubelet's view: the pods stats/summary lists             *)
  now,      (* time.monotonic()                                             *)
  cache,    (* WorkloadResolver._cache                                      *)
  cycle,    (* how far _collect_once has come                               *)
  owned,    (* history: what the API server would have called each pod, and *)
            (* when                                                         *)
  failed,   (* history: the lookups that failed                             *)
  churn, faults

cluster == <<owner, running, churn>>
collector == <<cache, cycle, failed>>
vars == <<cluster, now, collector, owned, faults>>

Bare == "bare"
Gone == "gone"
Name == Pod \cup Workload

NameOf(p, o) == IF o = Bare THEN p ELSE o
Owned(view, time) == {<<p, NameOf(p, view[p]), time>> : p \in {q \in Pod : view[q] # Gone}}

Asleep == [pc |-> "sleep", todo |-> {}, live |-> {}]

Init ==
  /\ owner = InitialOwner
  /\ running = {p \in Pod : owner[p] # Gone}
  /\ now = 0
  /\ cache = << >>
  /\ cycle = Asleep
  /\ owned = Owned(owner, 0) /\ failed = {}
  /\ churn = 0 /\ faults = 0

Fault == faults < MaxFaults /\ faults' = faults + 1

----------------------------------------------------------------------------
(* The collector's cycle                                                   *)

(* fetch_stats_summary and parse_pod_metrics: the pods the kubelet lists.  *)
Fetch ==
  /\ cycle.pc = "sleep"
  /\ cycle' = [pc |-> "node", todo |-> running, live |-> {}]
  /\ UNCHANGED <<cluster, now, cache, failed, owned, faults>>

(* The node's own metric, which no one books: it names no pod.             *)
PublishNode ==
  /\ cycle.pc = "node"
  /\ cycle' = [cycle EXCEPT !.pc = "pods"]
  /\ UNCHANGED <<cluster, now, cache, failed, owned, faults>>

Resolved(service) == cycle' = [cycle EXCEPT !.pc = "publish", !.service = service]

Remember(p, service, at) ==
  cache' = [q \in DOMAIN cache \cup {p} |->
              IF q = p THEN [service |-> service, at |-> at] ELSE cache[q]]

Fresh(p) == p \in DOMAIN cache /\ now - cache[p].at < Ttl

(* Mutant: a hit renews the entry.                                         *)
ResolveRenewing(p) ==
  /\ cycle.pc = "pods" /\ p \in cycle.todo
  /\ cycle' = [pc |-> IF Fresh(p) THEN "publish" ELSE "pod",
               todo |-> cycle.todo \ {p}, live |-> cycle.live \cup {p}, pod |-> p,
               service |-> IF Fresh(p) THEN cache[p].service ELSE p, at |-> now]
  /\ cache' = IF Fresh(p) THEN [cache EXCEPT ![p].at = now] ELSE cache
  /\ UNCHANGED <<cluster, now, failed, owned, faults>>

(* resolve(): the cached name while it is fresh, else a lookup, dated to   *)
(* the moment before it began.                                             *)
Resolve(p) ==
  /\ cycle.pc = "pods" /\ p \in cycle.todo
  /\ cycle' = [pc |-> IF Fresh(p) THEN "publish" ELSE "pod",
               todo |-> cycle.todo \ {p}, live |-> cycle.live \cup {p}, pod |-> p,
               service |-> IF Fresh(p) THEN cache[p].service ELSE p, at |-> now]
  /\ UNCHANGED <<cluster, now, cache, failed, owned, faults>>

(* Mutant: the API server's answer is taken for a name.                    *)
ReadPodUnchecked ==
  LET p == cycle.pod IN
  /\ cycle.pc = "pod"
  /\ Resolved(owner[p]) /\ Remember(p, owner[p], cycle.at)
  /\ UNCHANGED <<cluster, now, failed, owned, faults>>

(* _lookup(), first read: a pod without a controller keeps its own name.   *)
(* So does one the API server no longer knows: that raises, like an error. *)
ReadPod ==
  LET p == cycle.pod IN
  /\ cycle.pc = "pod"
  /\ \/ /\ owner[p] \in Replicated
        /\ cycle' = [cycle EXCEPT !.pc = "replicaset", !.service = owner[p]]
        /\ UNCHANGED <<cache, failed>>
     \/ /\ owner[p] \notin Replicated \cup {Gone}
        /\ Resolved(NameOf(p, owner[p])) /\ Remember(p, NameOf(p, owner[p]), cycle.at)
        /\ UNCHANGED failed
     \/ /\ owner[p] = Gone
        /\ Resolved(p) /\ Remember(p, p, cycle.at)
        /\ failed' = failed \cup {<<p, now>>}
  /\ UNCHANGED <<cluster, now, owned, faults>>

(* _lookup(), second read: the ReplicaSet names its Deployment, or itself. *)
ReadReplicaSet ==
  /\ cycle.pc = "replicaset"
  /\ Resolved(cycle.service) /\ Remember(cycle.pod, cycle.service, cycle.at)
  /\ UNCHANGED <<cluster, now, failed, owned, faults>>

(* Either read raises: the pod's own name, remembered like an answer.      *)
LookupFails ==
  /\ cycle.pc \in {"pod", "replicaset"}
  /\ Fault
  /\ Resolved(cycle.pod) /\ Remember(cycle.pod, cycle.pod, cycle.at)
  /\ failed' = failed \cup {<<cycle.pod, now>>}
  /\ UNCHANGED <<cluster, now, owned>>

PublishMetric ==
  /\ cycle.pc = "publish"
  /\ cycle' = [pc |-> "pods", todo |-> cycle.todo, live |-> cycle.live]
  /\ UNCHANGED <<cluster, now, cache, failed, owned, faults>>

(* Mutant: what is pruned is what is old.                                  *)
PruneExpired ==
  /\ cycle.pc = "pods" /\ cycle.todo = {}
  /\ cache' = Restrict(cache, {p \in DOMAIN cache : Fresh(p)})
  /\ cycle' = Asleep
  /\ UNCHANGED <<cluster, now, failed, owned, faults>>

(* The cycle completes: the cache forgets every pod it did not list.       *)
Prune ==
  /\ cycle.pc = "pods" /\ cycle.todo = {}
  /\ cache' = Restrict(cache, DOMAIN cache \cap cycle.live)
  /\ cycle' = Asleep
  /\ UNCHANGED <<cluster, now, failed, owned, faults>>

(* The summary or a publish raises: the cycle is given up, its remaining   *)
(* pods unmetered and nothing pruned, and the loop sleeps until the next.  *)
CycleFails ==
  /\ cycle.pc \in {"sleep", "node", "publish"}
  /\ Fault
  /\ cycle' = Asleep
  /\ UNCHANGED <<cluster, now, cache, failed, owned>>

----------------------------------------------------------------------------
(* The cluster (external)                                                  *)

(* A pod is created, perhaps under a name used before; deleted at the API  *)
(* server; or stopped, after which the kubelet no longer lists it.         *)
Change(view) ==
  /\ owner' = view
  /\ owned' = owned \cup Owned(view, now)
  /\ UNCHANGED <<now, collector, faults>>

Create(p) ==
  /\ owner[p] = Gone /\ p \notin running
  /\ churn < MaxChurn /\ churn' = churn + 1
  /\ \E o \in Workload \cup {Bare} : Change([owner EXCEPT ![p] = o])
  /\ running' = running \cup {p}

Delete(p) ==
  /\ owner[p] # Gone
  /\ Change([owner EXCEPT ![p] = Gone])
  /\ UNCHANGED <<running, churn>>

Stop(p) ==
  /\ owner[p] = Gone /\ p \in running
  /\ running' = running \ {p}
  /\ UNCHANGED <<owner, churn, now, collector, owned, faults>>

Tick ==
  /\ now < MaxTime
  /\ now' = now + 1
  /\ owned' = owned \cup Owned(owner, now')
  /\ UNCHANGED <<cluster, collector, faults>>

Collect ==
  \/ Fetch \/ PublishNode \/ ReadPod \/ ReadReplicaSet \/ PublishMetric \/ Prune
  \/ \E p \in Pod : Resolve(p)

Next ==
  \/ Collect \/ LookupFails \/ CycleFails
  \/ \E p \in Mortal : Create(p) \/ Delete(p) \/ Stop(p)
  \/ Tick

(* The loop runs for ever; a deleted pod stops.                            *)
FairSpec ==
  /\ Init /\ [][Next]_vars
  /\ WF_vars(Collect)
  /\ \A p \in Mortal : WF_vars(Stop(p))

----------------------------------------------------------------------------
(* Properties                                                              *)

Waiting ==
  [pc : {"sleep", "node", "pods"}, todo : SUBSET Pod, live : SUBSET Pod]
Working ==
  [pc : {"pod", "replicaset", "publish"}, todo : SUBSET Pod, live : SUBSET Pod,
   pod : Pod, service : Name, at : 0 .. now]

TypeOK ==
  /\ owner \in [Pod -> Workload \cup {Bare, Gone}] /\ now \in Nat
  /\ running \subseteq Pod /\ \A p \in Pod : owner[p] # Gone => p \in running
  /\ cache \in [DOMAIN cache -> [service : Name, at : 0 .. now]] /\ DOMAIN cache \subseteq Pod
  /\ cycle \in Waiting \cup Working /\ cycle.todo \cap cycle.live = {}

(* "Identity is the owning workload": the name a sample is booked under is *)
(* one its pod really had less than Ttl before the cycle came to it, or    *)
(* the pod's own after a lookup that failed less than Ttl before; however  *)
(* pods come and go, are recreated under a name used before, or change     *)
(* while they are looked up.                                               *)
BookedUnderOwnName ==
  cycle.pc = "publish" =>
    \E t \in 0 .. now :
      /\ t + Ttl > cycle.at \/ t >= cycle.at
      /\ \/ <<cycle.pod, cycle.service, t>> \in owned
         \/ cycle.service = cycle.pod /\ <<cycle.pod, t>> \in failed

(* "So a long-lived collector on a churning node does not grow this map":  *)
(* the cache forgets a pod that is gone, although failed cycles do not     *)
(* prune.                                                                  *)
ForgottenOnceGone ==
  \A p \in Pod : <>[](p \notin running) => <>[](p \notin DOMAIN cache)
=============================================================================
