------------------------------ MODULE Inventory ------------------------------
(***************************************************************************)
(* internal/inventory/store.go as operators on the store's value s:        *)
(*   records   the inventory record of each key                            *)
(*   builds    the facts of each image digest, written those handed over   *)
(*   peaks, ports, counters   what each node's latest report contributed,  *)
(*             as functions on <<key, digest, node>>                       *)
(*   reported  when each node last reported, scans its latest tallies,     *)
(*   profiling its profiler's state and windows.                           *)
(* A binary is the record of one scanned process; resolve maps each binary *)
(* that joins to its [key, digest] in the pod index.  The tallies of facts *)
(* received and joined are left out.                                       *)
(***************************************************************************)
EXTENDS Integers, SequencesExt

CONSTANT NoDigest   \* the index holds no image digest for the container

Empty == [x \in {} |-> 0]

NewStore ==
  [records |-> Empty, builds |-> Empty, written |-> {},
   peaks |-> Empty, ports |-> Empty, counters |-> Empty,
   reported |-> Empty, scans |-> Empty, profiling |-> Empty]

Without(f, S) == Restrict(f, DOMAIN f \ S)
Over(f, g) == [x \in DOMAIN f \cup DOMAIN g |-> IF x \in DOMAIN g THEN g[x] ELSE f[x]]

\* The smallest value that was read; 0 is a value that was not.
LeastRead(S) == IF S \subseteq {0} THEN 0 ELSE Min(S \ {0})

\* A port is loopback only when every binding of it is.
MergeListeningPorts(lists) ==
  LET all == UNION lists
  IN  {[port |-> p, loopback |-> \A q \in all : q.port = p => q.loopback] :
         p \in {q.port : q \in all}}

-----------------------------------------------------------------------------
\* What one report's binaries B of one key and digest contribute for their node.
nodePeaks(B) ==
  [processes |-> Cardinality(B), peak |-> Max({b.peak : b \in B}),
   cpusMin |-> LeastRead({b.cpus : b \in B}), cpusMax |-> Max({b.cpus : b \in B})]

nodePorts(B) == MergeListeningPorts({b.ports : b \in B})

Sum(F(_), S) == MapThenSumSet(F, S)

nodeCounters(B) ==
  [processes |-> Cardinality(B),
   observed |-> Sum(LAMBDA b : b.delta.observed, B),
   onCPU |-> Sum(LAMBDA b : b.delta.onCPU, B),
   user |-> Sum(LAMBDA b : b.delta.user, B)]

NoDelta == [observed |-> 0, onCPU |-> 0, user |-> 0]

\* The binaries that ingestPeaks, ingestPorts and ingestCounters do not skip.
HasPeaks(b) == b.peak # 0 \/ b.cpus # 0
HasPorts(b) == b.ports # {}
HasCounters(b) == b.delta # NoDelta

\* A report's binaries, by key and digest, and what its node contributes of them.
Grouped(node, B, resolve) ==
  [x \in {<<resolve[b].key, resolve[b].digest, node>> : b \in B} |->
     {b \in B : resolve[b] = [key |-> x[1], digest |-> x[2]]}]

peaksOf(g) == [x \in DOMAIN g |-> nodePeaks(g[x])]
portsOf(g) == [x \in DOMAIN g |-> nodePorts(g[x])]
countersOf(g) == [x \in DOMAIN g |-> nodeCounters(g[x])]

\* Fault, not the code: what a node no longer reports stays.
ReplacedKeepsUnreported(f, node, new) == Over(f, new)

\* ingestX and forgetUnreportedX: the report replaces all that its node said.
Replaced(f, node, new) == Over(Without(f, {x \in DOMAIN f : x[3] = node}), new)

\* ingestBuild, for the places of a report that carry a digest: the first binary
\* with a digest the store does not have gives its facts.
ingestBuild(builds, order, digestAt) ==
  LET new == {digestAt[j] : j \in DOMAIN digestAt} \ ({NoDigest} \cup DOMAIN builds)
      First(d) == order[Min({j \in DOMAIN digestAt : digestAt[j] = d})]
  IN  Over(builds, [d \in new |-> First(d).version])

\* Ingest of a report; order is its binaries as the loop takes them (the last one
\* of a key gives the record).
Ingest(s, node, tallies, profiling, order, resolve, at) ==
  LET joined == {j \in DOMAIN order : order[j] \in DOMAIN resolve}
      B == {order[j] : j \in joined}
      recs == [k \in {resolve[b].key : b \in B} |->
                 LET b == order[Max({j \in joined : resolve[order[j]].key = k})]
                 IN  [version |-> b.version, digest |-> resolve[b].digest, assertedAt |-> at]]
  IN  [s EXCEPT !.records = Over(@, recs),
                !.builds = ingestBuild(@, order, [j \in joined |-> resolve[order[j]].digest]),
                !.peaks = Replaced(@, node, peaksOf(Grouped(node, {b \in B : HasPeaks(b)}, resolve))),
                !.ports = Replaced(@, node, portsOf(Grouped(node, {b \in B : HasPorts(b)}, resolve))),
                !.counters =
                  Replaced(@, node, countersOf(Grouped(node, {b \in B : HasCounters(b)}, resolve))),
                !.reported = Over(@, [n \in {node} |-> at]),
                !.scans = Over(@, [n \in {node} |-> tallies]),
                !.profiling = Over(@, [n \in {node} |-> profiling])]

-----------------------------------------------------------------------------
\* The flush: forget what the pod index and the node index no longer support.
OfKeys(f, live) == Restrict(f, {x \in DOMAIN f : x[1] \in live})
OfNodes(f, live) == Restrict(f, {x \in DOMAIN f : x[3] \in live})

Retain(s, live) ==
  LET recs == Restrict(s.records, DOMAIN s.records \cap live)
      referenced == {recs[k].digest : k \in DOMAIN recs} \ {NoDigest}
  IN  [s EXCEPT !.records = recs,
                !.peaks = OfKeys(@, live), !.ports = OfKeys(@, live),
                !.counters = OfKeys(@, live),
                !.builds = Restrict(@, DOMAIN @ \cap referenced),
                !.written = @ \ (DOMAIN s.builds \ referenced)]

RetainNodes(s, live) ==
  [s EXCEPT !.reported = Restrict(@, DOMAIN @ \cap live),
            !.scans = Restrict(@, DOMAIN @ \cap live),
            !.profiling = Restrict(@, DOMAIN @ \cap live),
            !.peaks = OfNodes(@, live), !.ports = OfNodes(@, live),
            !.counters = OfNodes(@, live)]

PendingBuilds(s) == DOMAIN s.builds \ s.written
MarkBuildWritten(s, digests) == [s EXCEPT !.written = @ \cup digests]

-----------------------------------------------------------------------------
\* The snapshots.
Snapshot(s) == s.records

\* oldest, folded over the nodes that contribute: a zero time is no answer.
Asserted(s, nodes) ==
  LeastRead({IF n \in DOMAIN s.reported THEN s.reported[n] ELSE 0 : n \in nodes})

Pairs(f) == {<<x[1], x[2]>> : x \in DOMAIN f}
NodesOf(f, p) == {n \in {x[3] : x \in DOMAIN f} : <<p[1], p[2], n>> \in DOMAIN f}

PeakSnapshot(s) ==
  [p \in Pairs(s.peaks) |->
     LET C == {s.peaks[<<p[1], p[2], n>>] : n \in NodesOf(s.peaks, p)} IN
     [processes |-> Sum(LAMBDA n : s.peaks[<<p[1], p[2], n>>].processes, NodesOf(s.peaks, p)),
      peak |-> Max({c.peak : c \in C}),
      cpusMin |-> LeastRead({c.cpusMin : c \in C}), cpusMax |-> Max({c.cpusMax : c \in C}),
      assertedAt |-> Asserted(s, NodesOf(s.peaks, p))]]

CounterSnapshot(s) ==
  [p \in Pairs(s.counters) |->
     LET N == NodesOf(s.counters, p)
         At(n) == s.counters[<<p[1], p[2], n>>]
     IN  [processes |-> Sum(LAMBDA n : At(n).processes, N),
          observed |-> Sum(LAMBDA n : At(n).observed, N),
          onCPU |-> Sum(LAMBDA n : At(n).onCPU, N),
          user |-> Sum(LAMBDA n : At(n).user, N),
          assertedAt |-> Asserted(s, N)]]

PortSnapshot(s) ==
  [p \in Pairs(s.ports) |->
     [ports |-> MergeListeningPorts({s.ports[<<p[1], p[2], n>>] : n \in NodesOf(s.ports, p)}),
      assertedAt |-> Asserted(s, NodesOf(s.ports, p))]]

ScanCoverage(s) ==
  [nodes |-> Cardinality(DOMAIN s.scans), oldest |-> Asserted(s, DOMAIN s.scans),
   scanned |-> Sum(LAMBDA n : s.scans[n].scanned, DOMAIN s.scans),
   found |-> Sum(LAMBDA n : s.scans[n].found, DOMAIN s.scans),
   filtered |-> Sum(LAMBDA n : s.scans[n].filtered, DOMAIN s.scans)]

Coverage(s) == {[node |-> n, assertedAt |-> s.reported[n]] : n \in DOMAIN s.reported}
=============================================================================
