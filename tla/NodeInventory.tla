---------------------------- MODULE NodeInventory ----------------------------
(***************************************************************************)
(* The inventory path: each node asks the controller which pods it may     *)
(* scan, scans its processes (internal/nodescan), and posts a report       *)
(* (cmd/agent/node.go, nodeship.go); the controller joins reports into the *)
(* store on request goroutines while the flush pass forgets and publishes  *)
(* (cmd/agent/main.go flushInventory).                                     *)
(*                                                                         *)
(* A report is posted once.  When the client gives up, the request may     *)
(* still be served later, after a newer one.  A process is its start time  *)
(* and the work it has done, which moves every counter.                    *)
(***************************************************************************)
EXTENDS PodIndex, Inventory

CONSTANTS Nodes, Pids, PodOf, VersionOf, PortsOf, CPUsOf,
          MaxPasses,   \* scan passes of all nodes
          MaxFlushes   \* flush passes

VARIABLES proc,     \* pid -> [start, work]
          names,    \* the nodes the node watcher knows
          scan,     \* node -> [phase, scope, pass, cache], and the ghost allowed: the
                    \* node's admitted pods when the pass began
          net,      \* reports posted and neither served nor lost
          store,    \* the controller's store
          flush,    \* [phase, live, count] of the flush pass
          clock,    \* reports served so far, the store's clock
          said,     \* ghost: node -> the joined binaries of its last served report
          spooled,  \* ghost: [keys, liveSince] of the flush under way
          handed    \* ghost: digest -> the facts written to the spool, whether a pod has
                    \* been running it since, and whether it was written again meanwhile

invVars == <<proc, names, scan, net, store, flush, clock, said, spooled, handed>>

Digests == {DigestOf[p] : p \in Pods}
PidsOn(n) == {i \in Pids : NodeOf[PodOf[i]] = n}

-----------------------------------------------------------------------------
\* nodescan.  A reading may miss a file: "partial" is a schedstat that could not
\* be read (its counters are zero), "gone" a stat that could not (there is no
\* reading), "dropped" an executable that could not (scanPID returns, and the
\* process is not of this pass).  Pids are of Go programs that are not
\* infrastructure: scanPID drops the others by what they are, at every pass.
readProcessCounters(i, how) ==
  [start |-> proc[i].start, user |-> proc[i].work,
   onCPU |-> IF how = "partial" THEN 0 ELSE proc[i].work]

\* Fault, not the code: the start time is not compared.
deltaOfReusedPid(last, i, cur, pass) ==
  IF i \notin DOMAIN last THEN NoDelta
  ELSE IF cur.onCPU < last[i].onCPU \/ cur.user < last[i].user THEN NoDelta
  ELSE [observed |-> pass - last[i].at, onCPU |-> cur.onCPU - last[i].onCPU,
        user |-> cur.user - last[i].user]

\* counterCache.delta, with the cache of the previous pass.
delta(last, i, cur, pass) ==
  IF i \notin DOMAIN last \/ last[i].start # cur.start THEN NoDelta
  ELSE IF cur.onCPU < last[i].onCPU \/ cur.user < last[i].user THEN NoDelta
  ELSE [observed |-> pass - last[i].at, onCPU |-> cur.onCPU - last[i].onCPU,
        user |-> cur.user - last[i].user]

\* Scope.Admits: a scope that was never answered admits nothing.
DenyAll == {}
Admits(scope, pod) == pod \in scope

\* What scanPID keeps of a process in scope; truth is a ghost, the work since the process
\* was last read, and doubtful says that one of the two readings is partial.
BinaryInfo(n, i, how, pass) ==
  LET last == scan[n].cache
      same == i \in DOMAIN last /\ last[i].start = proc[i].start
  IN  [pid |-> i, pod |-> PodOf[i], version |-> VersionOf[i], ports |-> PortsOf[i],
       peak |-> proc[i].work + 1, cpus |-> CPUsOf[n],
       delta |-> IF how = "gone" THEN NoDelta
                 ELSE delta(last, i, readProcessCounters(i, how), pass),
       truth |-> IF same THEN proc[i].work - last[i].work ELSE -1,
       doubtful |-> how = "partial" \/ (same /\ last[i].partial)]

\* endPass keeps what this pass read.
CacheAfter(scope, how, n, pass) ==
  [i \in {j \in PidsOn(n) : Admits(scope, PodOf[j]) /\ how[j] \notin {"gone", "dropped"}} |->
     LET cur == readProcessCounters(i, how[i])
     IN  [start |-> cur.start, onCPU |-> cur.onCPU, user |-> cur.user, at |-> pass,
          work |-> proc[i].work, partial |-> how[i] = "partial"]]

Scan(n, how) ==
  LET scope == scan[n].scope
      pass == scan[n].pass + 1
      admitted == {i \in PidsOn(n) : Admits(scope, PodOf[i])}
      kept == {i \in admitted : how[i] # "dropped"}
  IN  [node |-> n, pass |-> pass, allowed |-> scan[n].allowed,
       bins |-> {BinaryInfo(n, i, how[i], pass) : i \in kept},
       tallies |-> [scanned |-> Cardinality(PidsOn(n)), found |-> Cardinality(kept),
                    filtered |-> Cardinality(PidsOn(n)) - Cardinality(admitted)]]

-----------------------------------------------------------------------------
\* The node's loop.
\* Fault, not the code: a query that fails leaves the previous scope in place.
scanScopeKeeps(n, ok) ==
  scan' = [scan EXCEPT ![n].phase = "scoped", ![n].allowed = AdmittedPodsOnNode(n),
                       ![n].scope = IF ok THEN AdmittedPodsOnNode(n) ELSE @]

\* scanScope: it fails closed.
scanScope(n, ok) ==
  scan' = [scan EXCEPT ![n].phase = "scoped", ![n].allowed = AdmittedPodsOnNode(n),
                       ![n].scope = IF ok THEN AdmittedPodsOnNode(n) ELSE DenyAll]

PassStarts(n) ==
  /\ scan[n].phase = "idle" /\ Sum(LAMBDA m : scan[m].pass, Nodes) < MaxPasses
  /\ \E ok \in BOOLEAN : scanScope(n, ok)
  /\ UNCHANGED <<proc, names, net, store, flush, clock, said, spooled, handed, budget>>

\* scanOnce after the scope: Scan, and the report is posted.
scanOnce(n, how) ==
  /\ net' = net \cup {Scan(n, how)}
  /\ scan' = [scan EXCEPT ![n].phase = "shipping", ![n].pass = @ + 1,
                          ![n].cache = CacheAfter(scan[n].scope, how, n, scan[n].pass + 1)]

PassScans(n) ==
  /\ scan[n].phase = "scoped"
  /\ \E bad \in SUBSET PidsOn(n), how \in {"partial", "gone", "dropped"} :
       /\ Spend(Cardinality(bad))
       /\ scanOnce(n, [i \in PidsOn(n) |-> IF i \in bad THEN how ELSE "ok"])
  /\ UNCHANGED <<proc, names, store, flush, clock, said, spooled, handed>>

\* The process tree cannot be read: the pass ends without a report.
PassFails(n) ==
  /\ scan[n].phase = "scoped" /\ Spend(1)
  /\ scan' = [scan EXCEPT ![n].phase = "idle", ![n].pass = @ + 1]
  /\ UNCHANGED <<proc, names, net, store, flush, clock, said, spooled, handed>>

\* reportShipper.ship returns: the controller answered, or the client gave up
\* (the request may be lost, or be served later).
ShipReturns(n) ==
  /\ scan[n].phase = "shipping"
  /\ scan' = [scan EXCEPT ![n].phase = "idle"]
  /\ LET mine == {r \in net : r.node = n /\ r.pass = scan[n].pass} IN
     \/ mine = {} /\ UNCHANGED <<net, budget>>
     \/ mine # {} /\ Spend(1) /\ net' \in {net, net \ mine}
  /\ UNCHANGED <<proc, names, store, flush, clock, said, spooled, handed>>

\* A report lists its binaries by pid.
Listed(bins) == SetToSortSeq(bins, LAMBDA a, b : a.pid < b.pid)

\* onReport: the resolver is bound to the node that sent the report.
OnReport(r) ==
  LET joined == {b \in r.bins : LookupContainerOnNode(b.pod, r.node)}
      resolve == [b \in joined |-> [key |-> KeyOf[b.pod], digest |-> DigestOf[b.pod]]]
  IN  /\ r \in net
      /\ net' = net \ {r}
      /\ clock' = clock + 1
      /\ store' = Ingest(store, r.node, r.tallies, "disabled", Listed(r.bins), resolve, clock + 1)
      /\ said' = [said EXCEPT ![r.node] = {[bin |-> b, at |-> resolve[b]] : b \in joined}]
      /\ UNCHANGED <<proc, names, scan, flush, spooled, handed, budget>>

-----------------------------------------------------------------------------
\* Fault, not the code: this flush forgets nothing first.
FlushStartsPublishing ==
  /\ flush.phase = "idle" /\ flush.count < MaxFlushes
  /\ flush' = [phase |-> "publish", live |-> LiveKeys(index), count |-> flush.count + 1]
  /\ spooled' = [keys |-> {}, liveSince |-> LiveKeys(index)]
  /\ UNCHANGED <<proc, names, scan, net, store, clock, said, handed, budget>>

\* flushInventory.  podWatcher.Pods() is read before the store is locked, and
\* reports are served between the steps.
FlushStarts ==
  /\ flush.phase = "idle" /\ flush.count < MaxFlushes
  /\ flush' = [phase |-> "retain", live |-> LiveKeys(index), count |-> flush.count + 1]
  /\ spooled' = [keys |-> {}, liveSince |-> LiveKeys(index)]
  /\ UNCHANGED <<proc, names, scan, net, store, clock, said, handed, budget>>

FlushRetains ==
  /\ flush.phase = "retain"
  /\ store' = Retain(store, flush.live)
  /\ said' = [n \in Nodes |-> {x \in said[n] : x.at.key \in flush.live}]
  /\ flush' = [flush EXCEPT !.phase = "nodes"]
  /\ UNCHANGED <<proc, names, scan, net, clock, spooled, handed, budget>>

FlushRetainsNodes ==
  /\ flush.phase = "nodes"
  /\ store' = RetainNodes(store, names)
  /\ said' = [n \in Nodes |-> IF n \in names THEN said[n] ELSE {}]
  /\ flush' = [flush EXCEPT !.phase = "publish"]
  /\ UNCHANGED <<proc, names, scan, net, clock, spooled, handed, budget>>

\* The four superseding payloads; one whose write fails is not in the spool.  Each
\* snapshot locks the store by itself; no property relates two, so one step takes
\* all four.
Payloads ==
  <<DOMAIN Snapshot(store), {p[1] : p \in DOMAIN PeakSnapshot(store)},
    {p[1] : p \in DOMAIN CounterSnapshot(store)}, {p[1] : p \in DOMAIN PortSnapshot(store)}>>

FlushPublishes ==
  /\ flush.phase = "publish"
  /\ \E failed \in SUBSET DOMAIN Payloads :
       /\ Spend(Cardinality(failed))
       /\ spooled' = [spooled EXCEPT !.keys = UNION {Payloads[i] : i \in DOMAIN Payloads \ failed}]
  /\ flush' = [flush EXCEPT !.phase = "builds"]
  /\ UNCHANGED <<proc, names, scan, net, store, clock, said, handed>>

\* Fault, not the code: a build is marked whether or not its write succeeded.
MarkedAll(s, ok) == [s EXCEPT !.written = @ \cup PendingBuilds(s)]

\* Each pending build is marked once its write succeeded.
Marked(s, ok) == MarkBuildWritten(s, ok)

FlushWritesBuilds ==
  /\ flush.phase = "builds"
  /\ \E ok \in SUBSET PendingBuilds(store) :
       /\ Spend(Cardinality(PendingBuilds(store) \ ok))
       /\ store' = Marked(store, ok)
       /\ handed' = [d \in Digests |->
                       IF d \in ok
                       THEN [facts |-> store.builds[d],
                             again |-> handed[d].again \/ handed[d].running,
                             running |-> TRUE]
                       ELSE handed[d]]
  /\ flush' = [flush EXCEPT !.phase = "idle"]
  /\ UNCHANGED <<proc, names, scan, net, clock, said, spooled>>

-----------------------------------------------------------------------------
\* The cluster.
ProcessWorks(i) ==
  /\ Spend(1)
  /\ proc' = [proc EXCEPT ![i].work = @ + 1]
  /\ UNCHANGED <<names, scan, net, store, flush, clock, said, spooled, handed>>

\* The process ends and its pid is given to another one of the container.
PidReused(i) ==
  /\ Spend(1)
  /\ proc' = [proc EXCEPT ![i] = [start |-> @.start + 1, work |-> 0]]
  /\ UNCHANGED <<names, scan, net, store, flush, clock, said, spooled, handed>>

NodeMoves(n) ==
  /\ Spend(1)
  /\ names' = IF n \in names THEN names \ {n} ELSE names \cup {n}
  /\ UNCHANGED <<proc, scan, net, store, flush, clock, said, spooled, handed>>

PodMoves(p) ==
  /\ IndexMoves(p)
  /\ spooled' = [spooled EXCEPT !.liveSince = @ \cup LiveKeys(index')]
  /\ handed' = [d \in Digests |->
                  [handed[d] EXCEPT !.running = @ /\ \E q \in index' : DigestOf[q] = d]]
  /\ UNCHANGED <<proc, names, scan, net, store, flush, clock, said>>

InvInit ==
  /\ IndexInit
  /\ proc = [i \in Pids |-> [start |-> 0, work |-> 0]]
  /\ names = Nodes
  /\ scan = [n \in Nodes |-> [phase |-> "idle", scope |-> DenyAll, allowed |-> {}, pass |-> 0,
                            cache |-> Empty]]
  /\ net = {} /\ store = NewStore /\ clock = 0
  /\ flush = [phase |-> "idle", live |-> {}, count |-> 0]
  /\ said = [n \in Nodes |-> {}]
  /\ spooled = [keys |-> {}, liveSince |-> {}]
  /\ handed = [d \in Digests |-> [facts |-> "none", again |-> FALSE, running |-> FALSE]]

InvNext ==
  \/ /\ \/ \E n \in Nodes : \/ PassStarts(n) \/ PassScans(n) \/ PassFails(n) \/ ShipReturns(n)
        \/ \E r \in net : OnReport(r)
        \/ FlushStarts \/ FlushRetains \/ FlushRetainsNodes \/ FlushPublishes \/ FlushWritesBuilds
        \/ \E i \in Pids : ProcessWorks(i) \/ PidReused(i)
        \/ \E n \in Nodes : NodeMoves(n)
     /\ UNCHANGED IndexVars
  \/ \E p \in Pods : PodMoves(p)

-----------------------------------------------------------------------------
\* A measurement payload says, of each build of a workload, what the last served
\* report of every node said (Ingest replaces a node's part wholesale): no process
\* is counted twice, none that its node no longer reports survives, and the coverage
\* payloads account for the nodes the measures come from.
MeasuresAreLatest ==
  LET all == UNION {said[n] : n \in Nodes}
      Of(p) == {x.bin : x \in {y \in all : y.at = [key |-> p[1], digest |-> p[2]]}}
      peaks == PeakSnapshot(store)
      counters == CounterSnapshot(store)
  IN  /\ DOMAIN peaks = {<<x.at.key, x.at.digest>> : x \in all}
      /\ \A p \in DOMAIN peaks :
           /\ peaks[p].processes = Cardinality(Of(p))
           /\ peaks[p].peak = Max({b.peak : b \in Of(p)})
           /\ peaks[p].assertedAt =< Min({store.reported[NodeOf[b.pod]] : b \in Of(p)})
      /\ \A p \in DOMAIN counters :
           counters[p].user = Sum(LAMBDA b : b.delta.user, Of(p))
      /\ {NodeOf[x.bin.pod] : x \in all} \subseteq {c.node : c \in Coverage(store)}
      /\ ScanCoverage(store).found >= Cardinality(all)

\* flushInventory publishes only what the pod index supports: every key in a
\* payload was that of an admitted pod at some time during this flush, so an
\* opt-out that precedes the flush is honoured by all four payloads.  And it marks
\* only the builds it handed over: a build marked as written is one the store
\* holds, and the spool was given the facts it holds.  About liveKeys, Retain,
\* PendingBuilds and MarkBuildWritten.
FlushIsHonest ==
  /\ spooled.keys \subseteq spooled.liveSince
  /\ \A d \in store.written : d \in DOMAIN store.builds /\ handed[d].facts = store.builds[d]

\* counterCache.delta: a difference that leaves the node is the work of one process
\* between two of its readings; only a file that could not be read may spoil it (its
\* zeros are a reading, and the next one's baseline).
DeltasExact ==
  \A r \in net : \A b \in r.bins :
    b.delta # NoDelta =>
      /\ b.truth >= 0 /\ b.delta.user = b.truth
      /\ b.delta.onCPU = b.truth \/ b.doubtful

\* The comment in flushInventory: "each is written once".
BuildWrittenOnce == \A d \in Digests : ~handed[d].again
=============================================================================
