-------------------------------- MODULE Policy --------------------------------
(***************************************************************************)
(* The policy captures of internal/collector/policy.go: WorkloadPolicies   *)
(* and ClusterPolicy read nine informer caches, one after the other, while *)
(* the caches fill, fail and follow the cluster and while pods enter and   *)
(* leave the index.  A policy object is a record with the source it is     *)
(* cached under; what it selects is a label (or "everything", an empty     *)
(* selector), a workload, a claim name or its namespace.                   *)
(***************************************************************************)
EXTENDS Naturals, FiniteSets, SequencesExt

CONSTANTS Pods,       \* [ns, kind, name, label, claims, admitted]
          Objects,    \* [source, ns, name, selects, fits, details]
          MaxPolicyChanges  \* bound on changes of the cluster and of a watch

\* A name fits its bound or not wherever it stands; the items of a limit range
\* hold no name but a type, and nothing is read from inside a service.
ASSUME PolicyAssumption ==
  /\ IsFiniteSet(Pods)
  /\ \A o \in Objects :
       /\ \A d, e \in o.details : d.id = e.id => d.fits = e.fits
       /\ o.source = "limit_ranges" => \A d \in o.details : d.fits
       /\ o.source = "services" => o.details = {}

VARIABLES cluster,  \* policy objects that exist
          cache,    \* those the informer caches hold
          watch,    \* source of this capture -> "filling", "ok", "failing" or "recent"
          podCache, \* admitted pods the pod lister holds
          index,    \* those the handlers have indexed
          subject,  \* the capture this behaviour makes
          stage,    \* 0, or the position of the capture in its reads
          gaps,     \* sources the capture declares unavailable
          rows,     \* workloads (or namespaces) of the capture
          claims,   \* <<row key, claim name>> of the index it read
          todo,     \* objects listed and not matched yet
          hand,     \* the object being matched: [object, zones, pods]
          attached, \* [key, object, details] of the capture; its payload once idle
          policyChanges,
          owed,     \* ghost: objects this capture must carry or excuse
          steady,   \* ghost: pods cached and indexed throughout the capture
          touched   \* ghost: pods indexed at some moment of it

world == <<cluster, cache, watch, podCache, index, policyChanges>>
capture == <<stage, gaps, rows, claims, todo, hand, attached>>
policyVars == <<world, subject, capture, owed, steady, touched>>

workloadPolicySources ==
  {"services", "endpoint_slices", "pod_disruption_budgets",
   "horizontal_pod_autoscalers", "persistent_volume_claims"}
clusterPolicySources ==
  {"limit_ranges", "resource_quotas", "priority_classes", "storage_classes"}

Catalogs == {"priority_classes", "storage_classes"}
Selectors == {"pod_disruption_budgets", "services"}

Wanted == [workload |-> workloadPolicySources, cluster |-> clusterPolicySources]

Cached(s) == {o \in cache : o.source = s}
Key(p) == [ns |-> p.ns, name |-> p.name]

-----------------------------------------------------------------------------
\* The reductions: what does not fit the bound is dropped, never cut.
describeMetric(m) == IF m.fits /\ m.present THEN {m.id} ELSE {}
quantityMap(list) == {q.id : q \in {r \in list : r.fits}}

describeAutoscaler(o) == UNION {describeMetric(m) : m \in o.details}
describeClaim(o) == {c.id : c \in {d \in o.details : d.fits}}

\* An item with none of its four amounts set is left out.
describeLimitRange(o) == {i.id : i \in {j \in o.details : j.amounts}}

\* The ceiling in force is the one in status, once there is one.
describeQuota(o) ==
  LET status == {q \in o.details : q.status}
  IN  quantityMap(IF status = {} THEN o.details ELSE status)

Described(o) ==
  CASE o.source = "horizontal_pod_autoscalers" -> describeAutoscaler(o)
    [] o.source = "persistent_volume_claims" -> describeClaim(o)
    [] o.source = "limit_ranges" -> describeLimitRange(o)
    [] o.source = "resource_quotas" -> describeQuota(o)
    [] OTHER -> {}

-----------------------------------------------------------------------------
\* The joins.

\* A label selector, as the API defines it: an empty one matches every pod.
Selects(o, p) == o.ns = p.ns /\ o.selects \in {"everything", p.label}

\* Fault, not the code: the pods a selector matches are not looked up in the
\* index.
workloadsSelectingAnyPod(h) == {Key(p) : p \in {q \in Pods : Selects(h.object, q)}}

\* The keys of the pods listed for a selector that the index holds afterwards.
workloadsSelecting(h) == {Key(p) : p \in h.pods \cap index}

RowKeys == {[ns |-> r.ns, name |-> r.name] : r \in rows}

\* The rows each kind of object is attached to; an empty selector is skipped.
attachBudgets(h) ==
  IF h.object.selects = "everything" THEN {} ELSE workloadsSelecting(h) \cap RowKeys

attachServices(h) ==
  IF h.object.selects = "everything" THEN {} ELSE workloadsSelecting(h) \cap RowKeys

attachAutoscalers(o) ==
  {[ns |-> r.ns, name |-> r.name] :
     r \in {w \in rows : w.ns = o.ns /\ [kind |-> w.kind, name |-> w.name] = o.selects}}

attachClaims(o) == {c[1] : c \in {d \in claims : d[1].ns = o.ns /\ d[2] = o.name}}

limitsAndQuotasIn(o) == {k \in RowKeys : k.ns = o.ns}

classes(o) == IF o.fits THEN {[ns |-> "cluster", name |-> "catalog"]} ELSE {}

KeysOf(h) ==
  LET o == h.object
  IN  CASE o.source = "pod_disruption_budgets" -> attachBudgets(h)
        [] o.source = "services" -> attachServices(h)
        [] o.source = "horizontal_pod_autoscalers" -> attachAutoscalers(o)
        [] o.source = "persistent_volume_claims" -> attachClaims(o)
        [] o.source \in {"limit_ranges", "resource_quotas"} -> limitsAndQuotasIn(o)
        [] OTHER -> classes(o)

\* endpointZones: the zones of a service, from slices in another cache.
endpointZones(o) ==
  {e.name : e \in {f \in Cached("endpoint_slices") : f.ns = o.ns /\ f.selects = o.name}}

-----------------------------------------------------------------------------
Read(s, ns) == [source |-> s, ns |-> ns]

\* The listings of a capture, in order; ClusterPolicy makes two per namespace.
WorkloadReads ==
  <<Read("pod_disruption_budgets", "all"), Read("horizontal_pod_autoscalers", "all"),
    Read("persistent_volume_claims", "all"), Read("services", "all")>>

ClusterReads(nss) ==
  LET ns == SetToSeq(nss)  n == 2 * Len(ns)
  IN  [i \in 1 .. n + 2 |->
         IF i > n THEN Read(IF i = n + 1 THEN "priority_classes" ELSE "storage_classes", "all")
         ELSE Read(IF i % 2 = 1 THEN "limit_ranges" ELSE "resource_quotas", ns[(i + 1) \div 2])]

Reads ==
  IF subject = "workload" THEN WorkloadReads ELSE ClusterReads({r.ns : r \in rows})

Idle == stage = 0

PolicyInit ==
  /\ subject \in {"workload", "cluster"}
  /\ cluster = {o \in Objects : o.source \in Wanted[subject]}
  /\ \E s \in Wanted[subject] :
       watch = [t \in Wanted[subject] |-> IF t = s THEN "filling" ELSE "ok"]
  /\ cache = {o \in cluster : watch[o.source] = "ok"}
  /\ podCache = {p \in Pods : p.admitted} /\ index = podCache
  /\ stage = 0 /\ gaps = {} /\ rows = {} /\ claims = {} /\ todo = {} /\ hand = {} /\ attached = {}
  /\ policyChanges = 0 /\ owed = {} /\ steady = {} /\ touched = {}

-----------------------------------------------------------------------------
\* The world: the cluster, the caches that follow it, and the index.
ObjectChanges(o) ==
  /\ o.source \in Wanted[subject] /\ policyChanges < MaxPolicyChanges
  /\ cluster' = IF o \in cluster THEN cluster \ {o} ELSE cluster \cup {o}
  /\ policyChanges' = policyChanges + 1
  /\ owed' = owed \ {o}
  /\ UNCHANGED <<cache, watch, podCache, index, subject, capture, steady, touched>>

EventArrives(o) ==
  /\ watch[o.source] \in {"ok", "recent"}
  /\ (o \in cluster) # (o \in cache)
  /\ cache' = IF o \in cache THEN cache \ {o} ELSE cache \cup {o}
  /\ UNCHANGED <<cluster, watch, podCache, index, policyChanges, subject, capture, owed, steady, touched>>

Relisted(s) == (cache \ Cached(s)) \cup {o \in cluster : o.source = s}

Fills(s) ==
  /\ watch[s] = "filling"
  /\ watch' = [watch EXCEPT ![s] = "ok"] /\ cache' = Relisted(s)
  /\ UNCHANGED <<cluster, podCache, index, policyChanges, subject, capture, owed, steady, touched>>

WatchFails(s) ==
  /\ policyChanges < MaxPolicyChanges /\ watch[s] \in {"ok", "recent"}
  /\ watch' = [watch EXCEPT ![s] = "failing"] /\ policyChanges' = policyChanges + 1
  /\ UNCHANGED <<cluster, cache, podCache, index, subject, capture, owed, steady, touched>>

WatchRecovers(s) ==
  /\ watch[s] = "failing"
  /\ watch' = [watch EXCEPT ![s] = "recent"] /\ cache' = Relisted(s)
  /\ UNCHANGED <<cluster, podCache, index, policyChanges, subject, capture, owed, steady, touched>>

\* The last failure is older than the window of failedWithin.
FailureAges(s) ==
  /\ watch[s] = "recent"
  /\ watch' = [watch EXCEPT ![s] = "ok"]
  /\ UNCHANGED <<cluster, cache, podCache, index, policyChanges, subject, capture, owed, steady, touched>>

\* A pod comes or goes in the lister's cache; its handler indexes it later.
PodMoves(p) ==
  /\ policyChanges < MaxPolicyChanges /\ p.admitted
  /\ podCache' = IF p \in podCache THEN podCache \ {p} ELSE podCache \cup {p}
  /\ policyChanges' = policyChanges + 1 /\ steady' = steady \ {p}
  /\ UNCHANGED <<cluster, cache, watch, index, subject, capture, owed, touched>>

HandlerRuns(p) ==
  /\ (p \in podCache) # (p \in index)
  /\ index' = IF p \in index THEN index \ {p} ELSE index \cup {p}
  /\ steady' = steady \ {p} /\ touched' = IF Idle THEN touched ELSE touched \cup index'
  /\ UNCHANGED <<cluster, cache, watch, podCache, policyChanges, subject, capture, owed>>

-----------------------------------------------------------------------------
\* The capture.
unavailablePolicySources == {s \in Wanted[subject] : watch[s] # "ok"}

Begin ==
  /\ Idle
  /\ gaps' = unavailablePolicySources
  /\ stage' = 1 /\ rows' = {} /\ claims' = {} /\ attached' = {}
  /\ owed' = {o \in cluster : /\ o.source \in Wanted[subject]
                              /\ o \in cache \/ watch[o.source] # "ok"}
  /\ steady' = podCache \cap index /\ touched' = index
  /\ UNCHANGED <<world, subject, todo, hand>>

Row(p) == [ns |-> p.ns, kind |-> p.kind, name |-> p.name]

\* collectedWorkloads: one row per namespace and name, so of two workloads that
\* differ in their kind alone one is kept, in the order of a map.
collectedWorkloads ==
  /\ stage = 1 /\ subject = "workload"
  /\ \E kept \in SUBSET {Row(p) : p \in index} :
       /\ \A p \in index : Cardinality({r \in kept : r.ns = p.ns /\ r.name = p.name}) = 1
       /\ rows' = kept
       /\ stage' = IF kept = {} THEN 0 ELSE 2
  /\ claims' = UNION {{<<Key(p), c>> : c \in p.claims} : p \in index}
  /\ UNCHANGED <<world, subject, gaps, todo, hand, attached, owed, steady, touched>>

collectedNamespaces ==
  /\ stage = 1 /\ subject = "cluster"
  /\ rows' = {[ns |-> p.ns, kind |-> "Namespace", name |-> "namespace"] : p \in index}
  /\ stage' = 2
  /\ UNCHANGED <<world, subject, gaps, claims, todo, hand, attached, owed, steady, touched>>

List ==
  /\ stage \in 2 .. Len(Reads) + 1 /\ todo = {} /\ hand = {}
  /\ LET r == Reads[stage - 1] IN
     todo' = {o \in Cached(r.source) : r.ns \in {"all", o.ns}}
  /\ stage' = stage + 1
  /\ UNCHANGED <<world, subject, gaps, rows, claims, hand, attached, owed, steady, touched>>

\* One object of the listing is taken up: a service reads the cache of slices,
\* and a selector lists the pods it matches.
Taken(o) ==
  [object |-> o, zones |-> endpointZones(o),
   pods |-> {p \in podCache : o.source \in Selectors /\ Selects(o, p)}]

TakeUp(o) ==
  /\ o.source \in Selectors /\ hand = {}
  /\ todo' = todo \ {o} /\ hand' = {Taken(o)}
  /\ UNCHANGED <<world, subject, stage, gaps, rows, claims, attached, owed, steady, touched>>

Attach(h) ==
  /\ attached' = attached \cup
       {[key |-> k, object |-> h.object,
         details |-> IF h.object.source = "services" THEN h.zones ELSE Described(h.object)]
        : k \in KeysOf(h)}
  /\ UNCHANGED <<world, subject, stage, gaps, rows, claims, owed, steady, touched>>

\* A budget or a service is joined by the index as it is after the listing; any
\* other object by the rows and the claims that the capture has collected.
Match(h) == hand' = {} /\ Attach(h) /\ UNCHANGED todo

Join(o) ==
  /\ o.source \notin Selectors
  /\ todo' = todo \ {o} /\ Attach(Taken(o))
  /\ UNCHANGED hand

\* Fault, not the code: the sources are asked for their state after the reads.
FinishDeclares ==
  /\ stage > 1 /\ stage = Len(Reads) + 2 /\ todo = {} /\ hand = {}
  /\ rows' = {r \in rows : \E a \in attached : a.key = [ns |-> r.ns, name |-> r.name]}
  /\ stage' = 0 /\ gaps' = unavailablePolicySources
  /\ UNCHANGED <<world, subject, claims, todo, hand, attached, owed, steady, touched>>

\* A row with nothing attached contributes no record.
Finish ==
  /\ stage > 1 /\ stage = Len(Reads) + 2 /\ todo = {} /\ hand = {}
  /\ rows' = {r \in rows : \E a \in attached : a.key = [ns |-> r.ns, name |-> r.name]}
  /\ stage' = 0
  /\ UNCHANGED <<world, subject, gaps, claims, todo, hand, attached, owed, steady, touched>>

PolicyNext ==
  \/ \E o \in Objects : ObjectChanges(o)
  \/ \E o \in cluster \cup cache : EventArrives(o)
  \/ \E o \in todo : TakeUp(o) \/ Join(o)
  \/ \E h \in hand : Match(h)
  \/ \E s \in Wanted[subject] : Fills(s) \/ WatchFails(s) \/ WatchRecovers(s) \/ FailureAges(s)
  \/ \E p \in Pods : PodMoves(p) \/ HandlerRuns(p)
  \/ Begin \/ collectedWorkloads \/ collectedNamespaces \/ List \/ Finish

PolicySpec == PolicyInit /\ [][PolicyNext]_policyVars

-----------------------------------------------------------------------------
\* The reference for a join: a pod by which an object bears on a row.  A service
\* without a selector routes to no pod.
Bears(o, p) ==
  CASE o.source = "pod_disruption_budgets" -> Selects(o, p)
    [] o.source = "services" -> Selects(o, p) /\ o.selects # "everything"
    [] o.source = "horizontal_pod_autoscalers" ->
         o.ns = p.ns /\ o.selects = [kind |-> p.kind, name |-> p.name]
    [] o.source = "persistent_volume_claims" -> o.ns = p.ns /\ o.name \in p.claims
    [] o.source \in {"limit_ranges", "resource_quotas"} -> o.ns = p.ns
    [] OTHER -> o.fits

\* Another workload of the same namespace and name was collected.
Twinned(p) == \E q \in touched : Key(q) = Key(p) /\ q.kind # p.kind

Carried(o) == {a \in attached : a.object = o}

\* A record shows the object for this pod; the zones of a service are in the
\* service that the slices name, once it is shown.
Shown(o, p) ==
  IF o.source = "endpoint_slices"
  THEN \A a \in attached : (a.object.source = "services" /\ a.object.ns = o.ns
                            /\ a.object.name = o.selects) => o.name \in a.details
  ELSE \E a \in Carried(o) : o.source \in clusterPolicySources \/ a.key = Key(p)

\* A budget that covers its whole namespace, which attachBudgets skips.
SelectsAll(o) == o.source = "pod_disruption_budgets" /\ o.selects = "everything"

\* The object is shown for the pod, or need not be: its source is declared
\* unavailable, or it is an autoscaler that misses a workload because another of
\* its name but of another kind was collected.
Accounted(o, p) ==
  \/ o.source \in gaps \/ ~Bears(o, p) \/ Shown(o, p)
  \/ o.source = "horizontal_pod_autoscalers" /\ Twinned(p)

\* An object the cluster had throughout the capture, whose event was not on its
\* way, is accounted for at every pod indexed throughout it: a cache that has
\* not filled or is failing is never read as an absence.  One kind of object is
\* silently left out: a budget whose selector is empty.
SilenceIsDeclared ==
  Idle => \A o \in owed : \A p \in steady : Accounted(o, p) \/ SelectsAll(o)

\* As policy.go has it, "Silence here is a fact", with no budget excepted.
SilenceIsAFact ==
  Idle => \A o \in owed : \A p \in steady : Accounted(o, p)

\* Nothing is named that no admitted pod accounts for: every object of a
\* payload bears on a pod that was in the index during the capture, the two
\* catalogs excepted, and every name kept from inside one is within its bound.
OnlyAdmittedNamed ==
  \A a \in attached :
    /\ a.object.source \in Catalogs \/ \E p \in touched : Bears(a.object, p) /\ p.ns = a.key.ns
    /\ a.object.source \in Catalogs => a.object.fits
    /\ \A d \in a.object.details : d.id \in a.details => d.fits
=============================================================================
