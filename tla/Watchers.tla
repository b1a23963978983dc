------------------------------- MODULE Watchers -------------------------------
(***************************************************************************)
(* The watchers of internal/collector over one namespace: the pod index    *)
(* with its admission decisions and counters, the deduplication of OOM     *)
(* kills, restarts and job runs, and the node list with its arrivals and   *)
(* departures.  Which of the three informers is followed (`kind`) is fixed *)
(* at the start; they share no state.                                      *)
(*                                                                         *)
(* A pod handler changes the index under one lock and reports under        *)
(* another, so it is two steps; the readers see the state in between.      *)
(***************************************************************************)
EXTENDS Informer, FiniteSets, FiniteSetsExt

CONSTANTS MaxUid,      \* bound: objects ever created
          MaxChanges,  \* bound: changes in the cluster
          MaxFaults,   \* bound: broken watches and restarts of the agent
          Allowed      \* the namespace passes the configured lists

Kinds == {"pods", "jobs", "nodes"}
Uids == 1 .. MaxUid
None == -1

\* CollectAnnotation or ProfileAnnotation set to "false".
Annotations == {"none", "noCollect", "noProfile"}
\* Where a job may carry the refusal: on itself, or on its pod template.
JobAnnotations == {"none", "noCollect", "templateNoCollect"}
\* What the owner chain's caches hold of the workload.
Lookups == Annotations \cup {"notCached", "unknownKind"}
Reasons == {"namespace_filter", "namespace_annotation", "workload_annotation", "pod_annotation"}

VARIABLES kind,      \* the informer this behaviour follows
          clock,     \* changes so far, the cluster's time
          uids,      \* objects created so far
          ns,        \* the namespace's annotation in its cache
          owner,     \* the workload's annotation in its caches
          cur,       \* what the handler goroutine is doing
          index,     \* uid -> entry, or NoEntry
          nameIndex, \* name -> uid, or None
          sig,       \* reportedSig
          base,      \* restartCounts
          dedup,     \* reportedOOMs and reportedJobs
          nodes,     \* NodeWatcher.nodes: name -> view, or None
          since,     \* when this process started
          counters,  \* the filter's counters
          faults,
          stale,     \* ghost: pods whose namespace or workload changed since their event
          orphans,   \* ghost: pods a relist replaced without a delete
          heirs,     \* ghost: the pods that replaced them
          tally,     \* ghost: Adds refused, and indexed pods deleted
          met,       \* ghost: restarts of a pod when this process first admitted it
          told,      \* ghost: uid -> restarts, digest and runs reported, kills reported
          fleet      \* ghost: name -> joins and departures reported, and found at the start

decision == <<ns, owner>>
process == <<cur, index, nameIndex, sig, base, dedup, nodes, since, counters>>
ghosts == <<stale, orphans, heirs, tally, met, told, fleet>>
vars == <<kind, clock, uids, informer, decision, process, ghosts, faults>>

Idle == [op |-> "idle"]
NoEntry == [profilable |-> FALSE]
NoBase == [last |-> None, first |-> None]
Untold == [restarts |-> 0, digest |-> None, runs |-> 0, kills |-> {}, twice |-> FALSE]

Forget ==
  /\ cur' = Idle /\ index' = [u \in Uids |-> NoEntry] /\ nameIndex' = [n \in Names |-> None]
  /\ sig' = [u \in Uids |-> None] /\ base' = [n \in Names |-> NoBase] /\ dedup' = {}
  /\ nodes' = [n \in Names |-> None]
  /\ counters' = [observed |-> 0, excluded |-> [r \in Reasons |-> 0], noProfile |-> 0,
                  unresolved |-> 0, jobs |-> 0, jobsExcluded |-> 0]
  /\ stale' = {} /\ orphans' = {} /\ heirs' = {} /\ tally' = [refused |-> 0, deleted |-> 0]
  /\ met' = [u \in Uids |-> None] /\ told' = [u \in Uids |-> Untold]
  /\ fleet' = [n \in Names |-> [joins |-> 0, left |-> 0, found |-> 0]]

Init ==
  /\ kind \in Kinds
  /\ clock = 0 /\ uids = 0 /\ ns = "none" /\ owner = "none" /\ faults = 0
  /\ live = [n \in Names |-> NoObject] /\ store = live /\ watching = TRUE /\ queue = <<>>
  /\ cur = Idle /\ index = [u \in Uids |-> NoEntry] /\ nameIndex = [n \in Names |-> None]
  /\ sig = [u \in Uids |-> None] /\ base = [n \in Names |-> NoBase] /\ dedup = {}
  /\ nodes = [n \in Names |-> None] /\ since = 0
  /\ counters = [observed |-> 0, excluded |-> [r \in Reasons |-> 0], noProfile |-> 0,
                 unresolved |-> 0, jobs |-> 0, jobsExcluded |-> 0]
  /\ stale = {} /\ orphans = {} /\ heirs = {} /\ tally = [refused |-> 0, deleted |-> 0]
  /\ met = [u \in Uids |-> None] /\ told = [u \in Uids |-> Untold]
  /\ fleet = [n \in Names |-> [joins |-> 0, left |-> 0, found |-> 0]]

-----------------------------------------------------------------------------
\* The cluster.
Elapse == clock < MaxChanges /\ clock' = clock + 1

Create(n) ==
  /\ Elapse /\ ~Has(live, n) /\ uids < MaxUid
  /\ uids' = uids + 1
  /\ \E a \in CASE kind = "pods" -> Annotations [] kind = "jobs" -> JobAnnotations
                [] OTHER -> {"none"} :
       Set(n, [uid |-> uids + 1, name |-> n, born |-> clock + 1, ann |-> a, digest |-> 0,
               restarts |-> 0, last |-> 0, state |-> 0, done |-> FALSE])
  /\ UNCHANGED <<kind, decision, process, ghosts, faults>>

\* A container dies of memory, restarts, or starts with a digest; a pod is
\* condemned or a job ends (done); a job is touched; a node is relabelled; an
\* annotation is written.
Modified(o) ==
  CASE kind = "pods" ->
         {[o EXCEPT !.ann = a] : a \in Annotations} \cup {[o EXCEPT !.done = TRUE]}
         \cup (IF o.digest = 0 THEN {[o EXCEPT !.digest = 1]} ELSE
               {[o EXCEPT !.last = o.state, !.state = 0, !.restarts = @ + 1]}
               \cup (IF o.state = 0 THEN {[o EXCEPT !.state = clock + 1]} ELSE {}))
    [] kind = "jobs" -> {[o EXCEPT !.done = TRUE], [o EXCEPT !.digest = 1 - @]}
    [] OTHER -> {[o EXCEPT !.digest = 1 - @]}

Modify(n) ==
  /\ Elapse /\ Has(live, n)
  /\ \E o \in Modified(live[n]) \ {live[n]} : Set(n, o)
  /\ UNCHANGED <<kind, uids, decision, process, ghosts, faults>>

Delete(n) ==
  /\ Elapse /\ Has(live, n)
  /\ Set(n, NoObject)
  /\ UNCHANGED <<kind, uids, decision, process, ghosts, faults>>

\* The namespace or the owner chain changes in its own informer, which tells no
\* pod handler.
Annotate ==
  /\ kind # "nodes" /\ Elapse
  /\ \/ ns' \in Annotations \ {ns} /\ UNCHANGED owner
     \/ owner' \in Lookups \ {owner} /\ UNCHANGED ns
  /\ stale' = Uids
  /\ UNCHANGED <<kind, uids, informer, process, orphans, heirs, tally, met, told, fleet, faults>>

-----------------------------------------------------------------------------
\* Filter.

\* Filter.AdmitPod: the first control that rejects the pod; an owner that could
\* not be read rejects nothing.
AdmitPod(o) ==
  IF ~Allowed THEN "namespace_filter"
  ELSE IF ns = "noCollect" THEN "namespace_annotation"
  ELSE IF owner = "noCollect" THEN "workload_annotation"
  ELSE IF o.ann = "noCollect" THEN "pod_annotation"
  ELSE ""

\* Filter.AdmitJob: the owner is the CronJob, and the last step reads the Job
\* and its pod template.
AdmitJob(o) ==
  IF ~Allowed THEN "namespace_filter"
  ELSE IF ns = "noCollect" THEN "namespace_annotation"
  ELSE IF owner = "noCollect" THEN "workload_annotation"
  ELSE IF o.ann \in {"noCollect", "templateNoCollect"} THEN "object_annotation"
  ELSE ""

AdmitProfiling(o) == "noProfile" \notin {ns, owner, o.ann}

Unresolved == owner \in {"notCached", "unknownKind"}

admit(o) == [collect |-> AdmitPod(o) = "", profile |-> AdmitPod(o) = "" /\ AdmitProfiling(o),
             reason |-> AdmitPod(o)]

decisionFor(u) ==
  IF index[u] = NoEntry THEN [known |-> FALSE, profile |-> FALSE]
  ELSE [known |-> TRUE, profile |-> index[u].profilable]

\* One more: of the counters of a decision.
Count(c, fields) == [f \in DOMAIN c |-> IF f \in fields THEN c[f] + 1 ELSE c[f]]
Exclude(c, reason) == [c EXCEPT !.excluded[reason] = @ + 1]

\* admit with count set, on an Add.
countAppearance(c, d) ==
  LET counted == IF ~d.collect THEN Exclude(c, d.reason)
                 ELSE Count(c, {"observed"} \cup IF d.profile THEN {} ELSE {"noProfile"})
  IN  Count(counted, IF Unresolved THEN {"unresolved"} ELSE {})

\* Fault, not the code: every update of an excluded pod counts it.
countEveryUpdate(c, was, d) ==
  IF ~d.collect THEN Exclude(c, d.reason)
  ELSE IF ~was.known THEN Count(c, {"observed"}) ELSE c

countTransition(c, was, d) ==
  IF was.known /\ ~d.collect THEN Exclude(c, d.reason)
  ELSE IF ~was.known /\ d.collect
       THEN Count(c, {"observed"} \cup IF d.profile THEN {} ELSE {"noProfile"})
  ELSE IF was.known /\ d.collect /\ was.profile /\ ~d.profile THEN Count(c, {"noProfile"})
  ELSE c

-----------------------------------------------------------------------------
\* The pod index.

\* resolveWorkload: the intermediate object when the chain is not cached.
resolveWorkload == IF owner = "notCached" THEN "intermediate" ELSE "top"

Entry(o, d) == [name |-> o.name, digest |-> o.digest, workload |-> resolveWorkload,
                profilable |-> d.profile]

indexPod(o, d) ==
  /\ index' = [index EXCEPT ![o.uid] = Entry(o, d)]
  /\ nameIndex' = [nameIndex EXCEPT ![o.name] = o.uid]

\* Fault, not the code: a pod once admitted stays.
dropPodNever(u) == UNCHANGED <<index, nameIndex>>

dropPod(u) ==
  /\ index' = [index EXCEPT ![u] = NoEntry]
  /\ nameIndex' = IF index[u] # NoEntry /\ nameIndex[index[u].name] = u
                  THEN [nameIndex EXCEPT ![index[u].name] = None] ELSE nameIndex

\* The informer calls a handler.
Take(k) ==
  /\ kind = k /\ cur = Idle /\ queue # <<>>
  /\ queue' = Tail(queue)
  /\ UNCHANGED <<kind, clock, uids, live, store, watching, decision, since, faults>>

event == Head(queue)

\* AddFunc and UpdateFunc up to the index.
HandlePod ==
  /\ Take("pods") /\ event.op # "delete"
  /\ LET o == event.obj  d == admit(o)  was == decisionFor(o.uid) IN
       /\ cur' = [op |-> event.op, obj |-> o, d |-> d, was |-> was]
       /\ IF d.collect THEN indexPod(o, d)
          ELSE IF event.op = "update" THEN dropPod(o.uid)
          ELSE UNCHANGED <<index, nameIndex>>
       /\ counters' = IF event.op = "add" THEN countAppearance(counters, d) ELSE counters
       /\ stale' = stale \ {o.uid}
       /\ tally' = IF event.op = "add" /\ ~d.collect THEN [tally EXCEPT !.refused = @ + 1] ELSE tally
       /\ met' = IF d.collect /\ met[o.uid] = None THEN [met EXCEPT ![o.uid] = o.restarts] ELSE met
  /\ UNCHANGED <<sig, base, dedup, nodes, orphans, heirs, told, fleet>>

\* Fault, not the code: a first sight is reported as an advance.
restartsFromZero(b, n) == [base |-> [last |-> n, first |-> IF b = NoBase THEN n ELSE b.first],
                           report |-> IF b = NoBase THEN n ELSE n - b.last]

\* reportRestarts: a counter seen for the first time, or fallen, is baselined.
reportRestarts(b, n) ==
  IF b = NoBase \/ n < b.last THEN [base |-> [last |-> n, first |-> n], report |-> 0]
  ELSE [base |-> [b EXCEPT !.last = n], report |-> n - b.last]

\* Fault, not the code: the key changes when the kill moves to lastState.
oomKeyWithCount(o, t) == <<o.name, t, o.restarts>>

\* A kill is known by its container and its instant, a disruption by its pod.
oomKey(o, t) == <<o.name, t>>
Disruption == 0

OOMs(o) == {t \in {o.last, o.state} : t # 0}
disruptionOf(o) == IF o.done THEN {Disruption} ELSE {}
Shown(o) == OOMs(o) \cup disruptionOf(o)
Fresh(o) == {t \in Shown(o) : oomKey(o, t) \notin dedup}

\* reportPodIfChanged.
changed(o) == sig[o.uid] # o.digest

\* The reports, and countTransition.
ReportPod ==
  /\ kind = "pods" /\ cur.op \in {"add", "update"}
  /\ cur' = Idle
  /\ LET o == cur.obj  r == reportRestarts(base[o.name], o.restarts)  t == told[o.uid] IN
       IF cur.d.collect
       THEN /\ sig' = [sig EXCEPT ![o.uid] = o.digest]
            /\ base' = [base EXCEPT ![o.name] = r.base]
            /\ dedup' = dedup \cup {oomKey(o, k) : k \in Shown(o)}
            /\ told' = [told EXCEPT ![o.uid] =
                          [t EXCEPT !.digest = IF changed(o) THEN o.digest ELSE @,
                                    !.restarts = @ + r.report,
                                    !.kills = @ \cup Fresh(o),
                                    !.twice = @ \/ Fresh(o) \cap t.kills # {}]]
       ELSE /\ sig' = IF cur.op = "update" THEN [sig EXCEPT ![o.uid] = None] ELSE sig
            /\ UNCHANGED <<base, dedup, told>>
  /\ counters' = IF cur.op = "update" THEN countTransition(counters, cur.was, cur.d) ELSE counters
  /\ UNCHANGED <<kind, clock, uids, informer, decision, index, nameIndex, nodes, since,
                 stale, orphans, heirs, tally, met, fleet, faults>>

\* DeleteFunc: dropPod, forgetOOMKills, forgetRestarts, forgetDisruptions.
DeletePod ==
  /\ Take("pods") /\ event.op = "delete"
  /\ LET o == event.obj IN
       /\ dropPod(o.uid)
       /\ sig' = [sig EXCEPT ![o.uid] = None]
       /\ base' = [base EXCEPT ![o.name] = NoBase]
       /\ dedup' = {k \in dedup : k[1] # o.name}
       /\ tally' = IF index[o.uid] # NoEntry THEN [tally EXCEPT !.deleted = @ + 1] ELSE tally
  /\ UNCHANGED <<cur, nodes, counters, stale, orphans, heirs, met, told, fleet>>
-----------------------------------------------------------------------------
\* Jobs.

jobKey(o) == <<o.uid, "job">>

\* reportJobRun: a finished job is put to the filter, and counted, at every
\* notification, and reported once.
HandleJob ==
  /\ Take("jobs") /\ event.op # "delete"
  /\ LET o == event.obj  allowed == AdmitJob(o) = ""  key == jobKey(o) IN
       IF ~o.done THEN UNCHANGED <<counters, dedup, told>>
       ELSE /\ counters' = Count(counters, {IF allowed THEN "jobs" ELSE "jobsExcluded"}
                                           \cup IF Unresolved THEN {"unresolved"} ELSE {})
            /\ dedup' = IF allowed THEN dedup \cup {key} ELSE dedup
            /\ told' = IF allowed /\ key \notin dedup
                       THEN [told EXCEPT ![o.uid].runs = @ + 1] ELSE told
  /\ stale' = stale \ {event.obj.uid}
  /\ UNCHANGED <<cur, index, nameIndex, sig, base, nodes, orphans, heirs, tally, met, fleet>>

\* forgetJobRun.
DeleteJob ==
  /\ Take("jobs") /\ event.op = "delete"
  /\ dedup' = dedup \ {jobKey(event.obj)}
  /\ UNCHANGED <<cur, index, nameIndex, sig, base, nodes, counters, ghosts>>

-----------------------------------------------------------------------------
\* Nodes.

\* Fault, not the code: every node that was not held is an arrival.
reportJoinAlways(o) == TRUE

\* A node is an arrival when it was created after this process started.
reportJoin(o) == o.born > since

\* upsert; the consumer is told when the view changed.
UpsertNode ==
  /\ Take("nodes") /\ event.op # "delete"
  /\ LET o == event.obj  n == o.name  existed == nodes[n] # None IN
       /\ nodes' = [nodes EXCEPT ![n] = o.digest]
       /\ told' = IF nodes[n] # o.digest THEN [told EXCEPT ![o.uid].digest = o.digest] ELSE told
       /\ fleet' = IF existed THEN fleet
                   ELSE IF reportJoin(o) THEN [fleet EXCEPT ![n].joins = @ + 1]
                   ELSE fleet
  /\ UNCHANGED <<cur, index, nameIndex, sig, base, dedup, counters, stale, orphans, heirs,
                 tally, met>>

reportDeparture ==
  /\ Take("nodes") /\ event.op = "delete"
  /\ LET n == event.obj.name IN
       /\ nodes' = [nodes EXCEPT ![n] = None]
       /\ fleet' = IF nodes[n] = None THEN fleet ELSE [fleet EXCEPT ![n].left = @ + 1]
  /\ UNCHANGED <<cur, index, nameIndex, sig, base, dedup, counters, stale, orphans, heirs,
                 tally, met, told>>

-----------------------------------------------------------------------------
\* Faults.
WatchBreaks ==
  /\ faults < MaxFaults /\ faults' = faults + 1
  /\ BreakWatch
  /\ UNCHANGED <<kind, clock, uids, decision, process, ghosts>>

ListAgain ==
  /\ Relist
  /\ orphans' = orphans \cup {store[n].uid : n \in Replaced}
  /\ heirs' = heirs \cup {live[n].uid : n \in Replaced}
  /\ fleet' = [n \in Names |->
                 IF Has(live, n) /\ ~Has(store, n) /\ live[n].born =< since
                 THEN [fleet[n] EXCEPT !.found = 1] ELSE fleet[n]]
  /\ UNCHANGED <<kind, clock, uids, decision, process, faults, stale, tally, met, told>>

\* The agent restarts; its caches fill by the next list.
Restart ==
  /\ faults < MaxFaults /\ faults' = faults + 1
  /\ Forget
  /\ since' = clock
  /\ store' = [n \in Names |-> NoObject] /\ watching' = FALSE /\ queue' = <<>>
  /\ UNCHANGED <<kind, clock, uids, live, decision>>

Next ==
  \/ \E n \in Names : Create(n) \/ Modify(n) \/ Delete(n)
  \/ Annotate
  \/ HandlePod \/ ReportPod \/ DeletePod
  \/ HandleJob \/ DeleteJob
  \/ UpsertNode \/ reportDeparture
  \/ WatchBreaks \/ ListAgain \/ Restart

Spec == Init /\ [][Next]_vars

-----------------------------------------------------------------------------
\* What the consumers are answered.
Indexed == {u \in Uids : index[u] # NoEntry}

\* PodReplica: a running pod of the workload that may be profiled, found in the
\* index and looked up by its name in the store.
PodReplica(workload) ==
  {store[index[u].name] : u \in {v \in Indexed : /\ index[v].workload = workload
                                                /\ index[v].profilable
                                                /\ index[v].digest # 0
                                                /\ Has(store, index[v].name)}}

\* RestartCounters: pods of the store that are indexed and baselined.
RestartCounters ==
  {[obj |-> store[n], restarts |-> base[n].last, before |-> base[n].first] :
     n \in {m \in Names : /\ Has(store, m) /\ index[store[m].uid] # NoEntry
                          /\ store[m].restarts > 0 /\ base[m] # NoBase}}

\* Decisions: the filter asked again about every object of the store.
podDecisions == [n \in {m \in Names : Has(store, m)} |-> admit(store[n])]
jobDecisions == [n \in {m \in Names : Has(store, m)} |-> AdmitJob(store[n]) = ""]

Settled == cur = Idle /\ queue = <<>> /\ watching

Counts == 0 .. 2 * (MaxChanges + MaxFaults * MaxUid)
Objects == [uid : Uids, name : Names, born : 1 .. MaxChanges, ann : Annotations \cup JobAnnotations, digest : {0, 1},
            restarts : 0 .. MaxChanges, last : 0 .. MaxChanges, state : 0 .. MaxChanges,
            done : BOOLEAN]
TypeOK ==
  /\ kind \in Kinds /\ clock \in 0 .. MaxChanges /\ uids \in 0 .. MaxUid
  /\ {live, store} \subseteq [Names -> Objects \cup {NoObject}]
  /\ \A i \in DOMAIN queue : queue[i].obj \in Objects
  /\ ns \in Annotations /\ owner \in Lookups /\ since \in 0 .. clock
  /\ \A n \in Names : nameIndex[n] # None => index[nameIndex[n]] # NoEntry
  /\ \A n \in Names : base[n].first =< base[n].last
  /\ nodes \in [Names -> {None, 0, 1}]
  /\ counters.observed \in Counts /\ counters.noProfile \in Counts

(***************************************************************************)
(* Pods: the index is the current truth.  Once the handler has caught up,  *)
(* a pod is indexed exactly when the decision a reader is shown for it     *)
(* admits it, with what the caches say of it and its digest reported; its  *)
(* name leads to it; nothing else is indexed but what a relist replaced    *)
(* without a delete; and PodReplica, which chooses in the index and looks  *)
(* up by name in the store, hands out only pods that may be profiled.      *)
(* About indexPod, dropPod, admit, reportPodIfChanged, Decisions and the   *)
(* handlers of PodWatcher.Run.                                             *)
(***************************************************************************)
IndexIsCurrent ==
  (kind = "pods" /\ Settled) =>
    /\ \A n \in DOMAIN podDecisions :
         LET o == store[n]  d == podDecisions[n] IN
         o.uid \notin stale =>
           IF d.collect
           THEN index[o.uid] = Entry(o, d) /\ nameIndex[n] = o.uid /\ told[o.uid].digest = o.digest
           ELSE index[o.uid] = NoEntry /\ nameIndex[n] \in {None} \cup orphans
    /\ \A u \in Indexed : u \in orphans \/ \E n \in DOMAIN podDecisions : store[n].uid = u
    /\ stale = {} /\ orphans = {} =>
         \A w \in {"top", "intermediate"} : \A o \in PodReplica(w) : admit(o).profile

(***************************************************************************)
(* ADR 0054: a pod never leaves the collected set while every count holds  *)
(* still.  Pods observed or refused are the ones indexed now, the ones     *)
(* excluded and the ones deleted, whatever the order of the updates.       *)
(* ADR 0034 for nodes: arrivals less departures is the change of the fleet *)
(* since this process started; a restart invents no arrival and a relist   *)
(* no departure, and the view held of a node is its current one.  About    *)
(* admit, countTransition, upsert, reportJoin and reportDeparture.         *)
(***************************************************************************)
CountsBalance ==
  /\ (kind = "pods" /\ cur = Idle) =>
       counters.observed + tally.refused =
         Cardinality(Indexed) + tally.deleted
         + MapThenSumSet(LAMBDA r : counters.excluded[r], Reasons)
  /\ (kind = "nodes" /\ Settled) =>
       \A n \in Names :
         /\ fleet[n].joins + fleet[n].found - fleet[n].left = IF Has(live, n) THEN 1 ELSE 0
         /\ Has(live, n) => nodes[n] = live[n].digest

(***************************************************************************)
(* ADR 0034: what happened is reported exactly once.  The advances of a    *)
(* pod are what its counter rose by since this process first admitted it,  *)
(* through exclusions and missed notifications, except for a pod that took *)
(* over another's baseline, and RestartCounters, also between the two      *)
(* steps of a handler, never exceeds the pod's own counter.  No kill is    *)
(* reported twice as it moves from state to lastState, no job's run twice, *)
(* and a second job of one name is another run; none that an admitted      *)
(* object shows is left out, unless a pod took over a name whose deletion  *)
(* was never seen.  About reportRestarts, forgetRestarts, RestartCounters, *)
(* reportOOMKills, reportDisruptions and reportJobRun.                     *)
(***************************************************************************)
ReportedOnce ==
  /\ (kind = "pods") =>
       \A c \in RestartCounters :
         c.before =< c.restarts /\ (c.obj.uid \notin heirs => c.restarts =< c.obj.restarts)
  /\ \A u \in Uids : ~told[u].twice /\ told[u].runs =< 1
  /\ (kind = "pods" /\ Settled) =>
       \A u \in Indexed \ (heirs \cup orphans) :
         /\ told[u].restarts = store[index[u].name].restarts - met[u]
         /\ Shown(store[index[u].name]) \subseteq told[u].kills
  /\ (kind = "jobs" /\ Settled) =>
       \A n \in DOMAIN jobDecisions :
         (store[n].uid \notin stale /\ store[n].done /\ jobDecisions[n]) => told[store[n].uid].runs = 1

(***************************************************************************)
(* PodWatcher.Pods: "Excluded and deleted pods are absent", the snapshot   *)
(* is the current truth and never a history.                               *)
(***************************************************************************)
DeletedAreAbsent ==
  (kind = "pods" /\ Settled) => \A u \in Indexed : \E n \in Names : Has(live, n) /\ live[n].uid = u
=============================================================================
