# A TLA+ model of the runtime agent

The agent is a Kubernetes program with two roles. The controller watches pods,
nodes and jobs, polls usage, accumulates what it sees in memory by wall-clock
window, and writes payload files into a spool directory that a shipper delivers
to a backend. The node role scans processes and profiles them, and ships what it
finds to the controller's intake. Line numbers for every definition are in
`PROJECT.json` under `map`.

## Parts and modules

| part | modules | what is hard |
|---|---|---|
| spool (`internal/sink/spool.go`) | `SpoolDir`, `Spool`, `PayloadNames` | removal by name after a listing; a crash between write and rename; names that must keep payloads apart |
| shipper (`internal/shipper`) | `Shipper`, `Delivery`, `Outbox` | files replaced while a request is open; late requests; a round that stops early |
| cadence gate (`sink/cadence.go`, `registry.go`) | `Cadence`, `Registry` | two clock readings per write; failed publishes; restarts |
| event journals (`internal/journal`) | `Journal` | informer and flush goroutines; windows that end; late events |
| state, counter and goroutine journals | `Accrual` | window boundaries; streaks of failures; resumed windows |
| usage poller and rollups | `Windowing`, `UsageWindows`, `Rollup` | counter resets, cached samples, two files per window, integer splits |
| window recovery (`sink/recover.go`) | `Journal`, `UsageWindows`, `Accrual`, `PayloadNames` | what a restart may reopen |
| watchers (`internal/collector`) | `Informer`, `Watchers` | relists that hide a deletion; two locks per handler; exactly-once reports |
| policy captures (`collector/policy.go`) | `Policy` | nine caches read one after the other; an absence that is a gap |
| inventory (`internal/inventory`), scanner, report shipping | `PodIndex`, `Inventory`, `NodeInventory` | late reports; the live set read before the lock; reused pids |
| profiler, intake, authentication, targeting | `PodIndex`, `NodeProfiling` | a target set that outlives its answer; key rotation against a refetch floor |
| pprof probe, pull, count (`internal/pprofprobe`, `pprofpull`, `nodeprofile`) | `Pprof`, `SymbolFilter` | starvation under a budget; holds; names left in tables |
| lifecycle (`cmd/agent/main.go`, `flush.go`) | `Controller`, `Registry`, `PayloadNames` | two passes over the same keys; shutdown |

How the modules' state and actions correspond to the code:

* `SpoolDir` is the directory: a file is a version (its bytes and its
  modification time) and an inode. `Spool` adds publish and Sweep, `Shipper` the
  delivery loop with the backend as an external upsert by key, and `Delivery`
  composes them and adds crashes. `fate` is a ghost that follows the newest
  payload of each key. `Exposes` names the situations in which a removal or a
  mark decided on an earlier file applies to a newer one.
* `Outbox` is the abstract specification of that path: one slot per key, a
  newer payload replaces an older one, and one whose fate is open leaves only by
  a receipt for those very bytes or by an eviction. `Delivery` maps its files to
  the slots and an answered request to the receipt.
* `Cadence` is `Spool.write` and the gate under the periodic pass. A write reads
  the clock before and after the publish, both within `Slack` of the pass start.
* `Journal` is one event journal: the handler that stamps an event, `Observe`,
  the pass (`CloseBefore`, `Snapshots`, one `Write` per window), files leaving
  the spool, crash and recovery. Events differ in whether the cluster dated them
  (`Dated`) and whether a restarted watcher sees them again (`Replayed`).
* `UsageWindows` follows one cumulative counter (CPU, throttling or network,
  chosen at the start) of one replica from the kubelet's cached statistic through
  the poller's baseline and the accumulator to the snapshot and closed files, with
  restarts of the container and of the controller, lost polls, failed writes and a
  clock that steps back. A record sums the replicas of a workload's container:
  whether it is open or written is the record's own, its numbers are the followed
  replica's share, and the other replicas touch it at any poll (`OthersObserve`). `Windowing` holds the windows and the split of an interval
  over them, which `UsageWindows` and `Rollup` share; `Rollup` the other pure
  operators: histogram, records and their merge.
* `Accrual` follows one of four subjects through passes, graceful stops, crashes
  and recovery: a policy cache's failures and its state record, a gating cache
  and the watchdog, a counter, or the goroutine readings of one process.
* `Informer` is a client-go shared informer: a store, a queue of notifications,
  and a watch that breaks and is replaced by a new list. `Watchers` puts the pod,
  job or node handlers on it. A pod handler is two steps, index and report, with
  the readers in between. A job carries its refusal on itself or on its pod
  template, and both are read. Ghosts name the pods whose deletion was never seen
  (`orphans`) and those that took over another's entry (`heirs`).
* `Policy` is one capture: the gaps are read, then each cache, while caches fill
  and fail, objects change and pods enter and leave the cache and the index. A
  budget or a service is taken up with the pods its selector lists and matched
  with the index in a later step, as the code reads the two one after the other.
* `Inventory` is the store as operators on its value. `NodeInventory` has the
  scan passes of each node with their scope query, files and executables that
  cannot be read, the counter cache, reports that are served late or never, and the flush that forgets, publishes, writes
  builds and marks them. `NodeProfiling` has the capture pipeline, its three
  requests, profiles served after the node gave up on them, the key cache,
  targeting and the receiver. `NodeRole` puts the two
  paths side by side: a behaviour follows one of them.
* `Pprof` is one of the three goroutines over the shared candidate list; time is
  its own ticks, so the state is finite without a bound. The counter's round has a
  deadline (`RoundTime` readings of full length), and a workload may be slow, use
  a timeout up, or refuse at once. `SymbolFilter` is the
  reduction of a pulled profile.
* `Controller` is `run`: tasks of one wait group, the periodic pass, the flusher
  list, each write through the gate in two steps, the sweep, the shutdown pass
  and the final round. `PayloadNames` says which files each `Write` function
  makes of its records and under which names, and which names recovery reads.
* `MC*` modules hold model constants and, in `MCUsage` and `MCController`, the
  statements about pure operators. `*Proofs` modules hold the theorems.
* Operators introduced by "Fault, not the code" are deliberate defects. No
  specification uses them; substituted for the definition that follows, each
  makes a property fail, which shows that the property depends on that code.

Abstractions: payload bodies are versions, log lines and most tallies are left
out. The processes of a scan are Go programs that are not infrastructure; scanPID
drops the others by what they are, at every pass. Sizes enter as the nondeterministic number of files a sweep must evict. A
sweep counts young temp files against the ceiling but never evicts one: they are
less than a minute old and everything else goes first. What a sweep chose it
removes file by file, in any order, with publishes in between. A read error on a file
that exists, and a file of an unregistered kind, are left out of `Shipper`. A
restart record is the set of advances it counts. In `Controller` a kind stands
for one key. The bag of buckets stands for a sparse histogram.

## Runs

| run | shows | bounds |
|---|---|---|
| `delivery` | `LatestAccounted`, `HoldsOnlyTheRejected`, `OnlyLateRequestsRegress`, `DeliversAsOutbox` | 2 keys, 3 inodes, 3 payloads, a file ceiling of 1, 1 crash: enough for a replacement during a request, inode reuse and an eviction; inodes are symmetric |
| `delivery_live` | `EventuallySettled` | 2 keys, 2 inodes, 2 payloads, 1 crash, no symmetry |
| `cadence` | `SilenceBounded`, `ChangeSpoken`, `FloorHeld` | floor 2 passes, ceiling 3, age 4, 8 passes, 2 faults, clock offsets of 0 and 1 |
| `journal` | `DatedFiledOnce`, `SlicesOnlyGrow`, `FiledIsPublished` | a dated and an undated event, both replayed, 2 windows, 2 faults; the two safety properties are proved for all events |
| `usage` | `TotalsExact`, `CoverageHonest`, `OnlyLateSamplesRewrite`, `SnapshotsOnlyGrow`; `GridExact`, `MergeIsUnion` | windows of 2 ticks, 4 instants, a load of 3, 1 and 2, a baseline forgotten after 1 tick, 2 faults: a sample, a restart and a crash on either side of a boundary; the grid over values of 6 bits, merges over every three of 8 observations |
| `accrual` | `EpisodesCounted`, `OccupancyAccounted`, `CountedOnce`, `BlindnessBounded`, `EndedIsFinal` | windows of 4 ticks, 6 ticks, passes 2 apart, 1 fault, a cap of 2 readings |
| `watchers` | `IndexIsCurrent`, `CountsBalance`, `ReportedOnce` | 1 name, 2 objects in turn, 5 changes, 1 fault, 2 notifications in flight: an object replaced during a broken watch |
| `policy` | `SilenceIsDeclared`, `OnlyAdmittedNamed` | 13 objects of the nine sources, with selectors that are empty and names over their bound; two workloads of one name, a pod that opted out, a namespace of which nothing is collected; 2 changes; deadlock is checked |
| `node` | `FlushIsHonest`, `MeasuresAreLatest`, `DeltasExact`, `KeysFollowRotation`, `AdmissionHeeded` | 2 nodes, 3 processes, 2 builds of one workload, 2 passes, 2 flushes, 1 fault or change; on the profiling path 5 windows, 2 keys, 2 faults or changes |
| `pprof` | `AskedOnce`, `NamesStayHome`, `TailIsSeen` | 5 workloads, 2 of one build, one of a build without pprof; 2 requests a round (3 readings, of which 2 of full length end it), holds of 2 and 3 rounds, 2 changes of health; third-party symbols dropped, the default |
| `controller` | `NamesApart`, `OneWriterPerKey`, `StopKeeps`, `EvictedComesBack`, `OneEndsAll` | a change-triggered and a fixed-cadence kind, 3 tasks, 2 observations, 2 faults or evictions; 10 names, with hyphens, over the 3 characters kept, empty or with dots and separators, in every place of a key |
| `delivery_ack` | a counterexample to `AckRemovesOnlyWhatWasSent` | 1 key, 2 inodes, 3 payloads |

`GridExact`, `MergeIsUnion` and `NamesApart` are about pure operators and are
evaluated in the initial states. Where deadlock is not checked, the bounds on
versions, passes, changes and windows stop the models where the program would
go on, or (`Controller`) the program has returned. `TypeOK` is proved for
`Delivery`, `Cadence`, `Journal`, `Controller` and `UsageWindows`; in `Accrual` and
`Watchers` it documents the state. `CoverageHonest` makes no claim once the wall
clock stepped back: two steps let a window be covered twice.

## Departures from the documentation

`delivery_ack` is the run kept for a disagreement: ADR 0075 conditions the delete
on the file's identity, and the check and the delete are two system calls, so a
payload renamed between them is deleted unsent. The properties of the passing
runs carry the other disagreements as named exceptions. Each definition of the
first column states the sentence as written, and TLC ends in a counterexample to
it: `tlc -config X.cfg M` with the configuration that is named, or, where none
is, with the definition in place of the properties in the run's configuration
(for `BackendNeverRegresses` in `DeliveryAck.cfg`).

| definition, configuration | sentence | what happens | the property that holds |
|---|---|---|---|
| `BackendNeverRegresses` | ADR 0075: an older snapshot cannot arrive after a newer one | a request that timed out arrives late | `OnlyLateRequestsRegress` |
| `GapWithinCeiling`, `CadenceCeiling` | the gap between two writes is "never longer than Ceiling" | a write recorded late in its pass waits one pass more | `SilenceBounded` |
| `FinalIsFinal`, `JournalFinal` | ADR 0078: a window captured past its end is final, "nothing more will be added to it" | a late event reopens it, and the payload holds that event alone | `SlicesOnlyGrow` |
| `ReportedIntoOneWindow`, `JournalRestamp` | a pod reported again after a restart "rewrites its own record" | an eviction without a condition is stamped with the clock each time | `DatedFiledOnce` |
| `EpisodeCountedOnce`, `AccrualEpisode` | an episode is counted where it was first seen | the start of an outage is in memory only; a restart counts it again | `EpisodesCounted` |
| `DeletedAreAbsent` | a deleted pod leaves the index | a pod replaced during a broken watch is an update, and its entry stays | `IndexIsCurrent`, `orphans` |
| `BuildWrittenOnce`, `NodeBuilds` | a build's facts are written once | while two builds of a workload run, the record names one and the other is forgotten | `FlushIsHonest` |
| `JoinIsSound`, `ControllerJoin` | ADR 0073: a snapshot not rewritten did not change | a kind within its floor is withheld while another of the same flush lands | none: a reader must join on instants |
| `SilenceIsAFact` | `policy.go:49`: "Silence here is a fact" | a budget with an empty selector is skipped, where policy/v1 has it select every pod | `SilenceIsDeclared`, `SelectsAll` |
| `TailIsSeenInAnyTime` | ADR 0080: "Every confirmed endpoint, every minute" | a round ends with its interval, and slow endpoints, which are never rested, use it up before the tail | `TailIsSeen`, `InTime` |
| `OneKeyPerFile` | `spool.go:1164`: "The filename carries the whole natural key" | a component is cut to 63 characters and joined to the next by a hyphen, so two workloads may share a file | `NamesApart`, `Whole` |

Exceptions that a property names and no definition of the table states:

* `CoverageHonest` is about one replica. The record sums them, so of n replicas
  it covers up to n windows; the comment of `CoveredNanoseconds`
  (`rollup/record.go:27-33`) and ADR 0027 take it for at most the window.
* `again`, in `TotalsExact` and `CoverageHonest`: `sweep` (`usage.go:599`) forgets
  the baseline of a container that went unseen, and when it is seen again its
  first sample is attributed from its start, a second time.
* `late`, in `OnlyLateSamplesRewrite`, `TotalsExact` and, for goroutine readings,
  `CountedOnce`: the closed usage record is called final, but a cached sample
  reopens its window and replaces it; a reading filed after its window was taken
  stands in a payload of its own.
* `released`, in `SlicesOnlyGrow`: a window that memory gave up may be written
  again with less.
* `Within`, in `TailIsSeen`: workloads of one build share a rotation slot and a
  hold, so one that goes on serving may never be read.
* `Twinned`, in `SilenceIsDeclared`: two workloads that differ in kind alone share
  one policy row.

Also met while modelling: an answer that is not 200, also a passing 503, settles
a port as one without pprof (`probe.go:230`); `NewProfileHandler` never sets the
rejections it counts into; `parseCount` tests for overflow after the product; the
prober, the puller and the counter are not in the wait group, so a reading may be
filed after the last pass.

## Fairness

* `delivery_live`: the shipper's timer fires again (weak fairness of
  `StartRound`), requests end because the client has a timeout (weak fairness of
  `PostEnds`), and a context is cancelled once per process, so a round is not
  cut for ever (strong fairness of `Offer`). That the backend takes a payload
  offered again and again, and that a removal eventually succeeds, are
  assumptions about the environment.
* `journal`: the informer finishes the handler it is in, the ticker runs passes,
  a dead container is restarted. No event has to happen and no fault is forced.
* `controller`: goroutines are scheduled, a `Run` returns once its context is
  cancelled, and a select that finds the context done at every turn takes that
  branch at last (strong fairness of `PeriodicEnds`). No task has to fail.
* `pprof`: the reader's ticker fires and a round goes on or runs out of time;
  every request ends, because each has a timeout. Nothing is assumed of the
  workloads. That a round ends before the second tick after its own is a guard of
  `Tick`: the counter's by its deadline, the prober's because 20 requests of 5
  seconds, and the puller's because 10 of 30, fit two of their intervals.

## Proofs

All theorems hold for every value of the constants that satisfies the named
`ASSUME`s, and each rests on an inductive invariant that TLC checked on the
instance of the run first. The assumptions are that bounds and intervals are
natural numbers, that windows are not empty (`UsageAssumption`,
`AccrualAssumption`), and:

* `CadenceAssumption`: floor, ceiling and age are ordered, and a pass takes less
  than the period between two;
* `TimingAssumption`: passes are no further apart than the gap that ends a run of
  failures, and that gap is no longer than the time for which a run makes a
  source unavailable (one, two and three minutes in the code); without the first
  a pass may see two runs as one, and `EpisodesCounted` does not hold;
* `UsageAssumption`: the horizon is within the range of the integers, so splitting
  an interval by its own length never meets the ceiling of `mulDiv`; the load of
  the counter is any function;
* `KindsAssumption`: the kinds an instance follows are kinds a flusher writes;
* `ProfileAssumption`: a raw profile is a record of the four fields of the type;
* `PolicyAssumption`: there are finitely many pods, a name fits its bound or not
  wherever it stands, and the items of a limit range hold no name.

The arguments:

* `DeliveryProofs`: `LatestAccounted` is not inductive. `Accounting` adds which
  removals are pending (the shipper's, the sweep's) and that a "spooled" payload
  is the target of none. `Ordering` adds that every version out of the spool is
  at most the one the name holds, which gives `OnlyLateRequestsRegress`.
  `ImplementsOutbox` shows the refinement: the initial states map to one of the
  outbox, and each step of the spool (`SpoolStepOutbox`) and of the shipper
  (`ShipperStepOutbox`) to a step or a stutter. It needs `Fresher`: a temp file,
  while it is there, is newer than the file it will replace, so a rename is a
  `Put`; a sweep may take it away first, and then there is no rename.
* `PeriodicProofs`, the gate: `GateIsHonest` says that what the gate remembers of
  a key is what last landed; with it each action preserves `SilenceBounded` and
  `ChangeSpoken`, and every landing keeps the floor.
* `PeriodicProofs`, the journals: `Kept` says where the published records of a
  window are: in the accumulator, or in the batch of the pass closing it.
  `InItsWindow` says that a dated event is nowhere but in its own window.
* `ControllerProofs`, the lifecycle: `Turns` says that the shutdown pass begins
  only after the tasks and the periodic goroutine ended, hence `OneWriterPerKey`.
  `Overdue` ties the passes since an eviction to the age the gate remembers, which
  its ceiling bounds, hence `EvictedComesBack`. `Keeping` says that what the
  shutdown pass has left behind it is current, which at its end is `StopKeeps`.
* `PeriodicProofs`, the pprof readers: an answer that does not expire is
  remembered (`AskedInv`), a round's requests are within what it has used of its
  budget (`BudgetInv`), and the lemmas on the filter say that a kept line is of an
  admitted package.
* `NodeProofs`: each property is about something read early and used late, and
  the invariant relates the two: `Caches` a cached counter reading to the process
  or an earlier one of its pid, `Scopes` a scope to what was admitted when it was
  asked for, `Support` the store between the retain and the publish of a flush to
  the keys live since it began, `Handed` the builds marked as written to what the
  spool was given, `Rotation` a key the cache lacks to the last fetch, and
  `Refreshed` the target set of a window to the query it came from.
* `Sums`: the theory of `SumFunctionOnSet` that the totals rest on. The sum is a
  recursive function over subsets, so `SolutionExists` first shows that its
  equation has a solution; then that a sum of integers is one, that it changes by
  what one term changes by, adds, is monotone and vanishes where its terms do.
  The induction is over a set of subsets (`SubsetInduction`), the one form of it
  the provers can instantiate.
* `UsageProofs`: first the split: its parts are natural numbers, add up to the
  delta (the last part is what the others leave), and for the interval itself are
  its overlaps with the windows. `Coverage` says that a record covers nothing
  above the instant the next delta starts from, so intervals are added end to end
  and `CoverageHonest` follows; that another replica opens or reopens a record
  leaves the share as it was (`OthersOpen`). `Exact` says that open, taken and written records
  add up to the counter at the baseline, which is `TotalsExact`. `Lateness` says
  that an open record of a closed window took a late sample, hence
  `OnlyLateSamplesRewrite`; `Growth` that an open window holds at least what its
  last snapshot told, hence `SnapshotsOnlyGrow`.
* `AccrualProofs`, the records one by one: `Blind` says that the watchdog has
  looked at all of a run of refusals but its last tick, hence `BlindnessBounded`.
  `Finality` says that a window is forgotten with the pass that ends it and that
  no later pass reaches back into it, hence `EndedIsFinal`. `Spans` says that what
  a record has observed and the interval the next pass will add are together no
  more than the window was watched (`SpansAccounted`); `Readings` in which of
  memory, batch and file the readings of a window are (`ReadingsAccounted`).
* `TotalsProofs`, what they count together. `Counts` bounds the rises by the most
  any place has of each window, since after a crash the places disagree. Until a
  fault, `Ordered` says that a window's latest record is where the next pass looks
  for it, so a pass changes each total by exactly what it observed (`TotalPass`).
  `Episodes` then says that the only run not counted is one that began since the
  last pass (`Pending`), and `Occupancy` how far the occupied time and the time
  the state held are apart, case by case of what the next pass will add; at a
  pass these are `EpisodesCounted` and `OccupancyAccounted`. `Deltas` and `Counts`
  give `CountedOnce`.
* `ControllerProofs`, the captures: a capture reads caches that go on changing, so
  the invariant says what each read still owes. `World`: an owed object stays in
  its cache unless its source was declared unavailable, and a steady pod stays
  listed and indexed. `Collected`: steady pods have their rows and claims, and
  rows and claims are of pods indexed during the capture. `Underway`: an owed
  object that bears on a steady pod is shown, in the listing being matched, or in
  a listing still to come; at the end there is none to come, which is
  `SilenceIsDeclared`.

Only model-checked, on the instances above:

* liveness (`EventuallySettled`, `FiledIsPublished`, `TailIsSeen`, `OneEndsAll`):
  it needs fairness, which the prover does not handle;
* `MeasuresAreLatest`: the store sorts the instances of a workload into a sequence
  and folds over it, and what a sort returns is an induction over sequences;
* the pure operators of `GridExact`, `MergeIsUnion` and `NamesApart`: recursive
  over numbers, bags and strings;
* `IndexIsCurrent`, `CountsBalance` and `ReportedOnce`: they follow an informer's
  queue, which a relist extends by a flattened sequence, again an induction over
  data.

## Not modelled

* Reading `/proc`, ELF and build information, the eBPF sampler and its maps:
  I/O and formats. A scan is its outcome, a capture is the pod it came from.
* Token verification (a library's cryptography), TLS, gzip, JSON: a request is
  accepted or not, a payload is a version.
* Metrics exposition, health endpoints, configuration parsing, memory limits:
  formatting and plain comparisons.
* Placement, revisions, update strategies and node details: reductions of one
  Kubernetes object to payload fields, with no state of their own.
* The prober, the puller and the counter inside `Controller`: the wait group
  does not wait for them; they are in `Pprof`.
