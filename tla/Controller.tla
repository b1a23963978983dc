------------------------------ MODULE Controller ------------------------------
(***************************************************************************)
(* The controller's lifecycle (cmd/agent/main.go, flush.go): the tasks and *)
(* the periodic pass of one wait group, the flushers both passes share,    *)
(* each write through the cadence gate and the two steps of a publish, the *)
(* sweep, and the shutdown pass with its final round.  A payload is the    *)
(* version of what memory holds for its kind; a kind stands for one key.   *)
(***************************************************************************)
EXTENDS Registry, PayloadNames

CONSTANTS Kinds,      \* the kinds of the registry the instance follows
          Tasks,      \* the lifecycle tasks of this installation
          MaxAge,     \* passes after which the sweep forgets a key
          MaxChanges, \* bound on observations
          MaxFaults   \* bound on failed publishes and on sweeps that evict

ASSUME BoundsAssumption == MaxAge \in Nat /\ MaxChanges \in Nat /\ MaxFaults \in Nat

VARIABLES ctx,        \* the context is cancelled
          tasks,      \* tasks whose Run has not returned
          main,       \* where run() is
          periodic,   \* where the periodic goroutine is
          left,       \* writer -> the kinds its pass has yet to come to
          out,        \* writer -> its temp file: kind and version, or NoTemp
          mem,        \* kind -> version memory holds
          gate,       \* kind -> what the gate remembers of its last write
          file,       \* kind -> version in the spool, or None
          sent,       \* kind -> newest version the backend has, or None
          changes,    \* observations so far
          faults,     \* failed publishes so far
          evictions,  \* sweeps so far that evicted something
          gone,       \* ghost: kind -> passes since its payload was evicted
          failed,     \* ghost: kinds whose publish failed in the shutdown pass
          landed,     \* ghost: metadata kinds the pass under way has written
          withheld,   \* ghost: metadata kinds it assembled, changed, and did not write
          up          \* ghost: the final round reached a backend that took all

lifecycle == <<ctx, tasks, main, periodic>>
writers == <<left, out>>
spool == <<gate, file, sent>>
ghosts == <<gone, failed, landed, withheld, up>>
bounds == <<changes, faults, evictions>>
vars == <<lifecycle, writers, mem, spool, bounds, ghosts>>

None == -1
NoTemp == [ver |-> None]
Writers == {"periodic", "main"}

-----------------------------------------------------------------------------
\* What each flusher writes, in its order.
logCoverage == <<"collection_coverage", "agent_states", "agent_counters">>
flushMetadata == <<"workload_metadata", "node_metadata", "workload_revisions",
                   "workload_policy", "cluster_policy", "restart_counters">>
flushInventory == <<"go_inventory", "process_peaks", "process_counters",
                    "listening_ports", "go_build">>
flushRestarts == <<"container_restarts">>
flushDisruptions == <<"pod_disruptions">>
flushJobRuns == <<"job_runs">>
flushNodeLifecycle == <<"node_lifecycle">>
flushGoroutineCounts == <<"goroutine_counts">>

\* Fault, not the code: the journal of restarts is left to the periodic pass.
flushersDrifted ==
  <<[run |-> logCoverage, onShutdown |-> TRUE],
    [run |-> flushMetadata, onShutdown |-> FALSE],
    [run |-> flushInventory, onShutdown |-> TRUE],
    [run |-> flushRestarts, onShutdown |-> FALSE]>>

flushers ==
  <<[run |-> logCoverage, onShutdown |-> TRUE],
    [run |-> flushMetadata, onShutdown |-> FALSE],
    [run |-> flushInventory, onShutdown |-> TRUE],
    [run |-> flushRestarts, onShutdown |-> TRUE],
    [run |-> flushDisruptions, onShutdown |-> TRUE],
    [run |-> flushJobRuns, onShutdown |-> TRUE],
    [run |-> flushNodeLifecycle, onShutdown |-> TRUE],
    [run |-> flushGoroutineCounts, onShutdown |-> TRUE]>>

\* The kinds a pass of runFlushers writes.
runFlushers(shutdown) ==
  {k \in Kinds : \E f \in Range(flushers) : k \in Range(f.run) /\ (shutdown => f.onShutdown)}

\* The order in which it comes to them.
Before(j, k) ==
  \E a, b \in DOMAIN flushers : \E m \in DOMAIN flushers[a].run, n \in DOMAIN flushers[b].run :
    /\ flushers[a].run[m] = j /\ flushers[b].run[n] = k
    /\ a < b \/ (a = b /\ m < n)

\* The instance follows kinds that a flusher writes.
ASSUME KindsAssumption ==
  Kinds \subseteq UNION {Range(flushers[i].run) : i \in DOMAIN flushers}

\* Which goroutine's observations a kind accumulates or is derived from.
Feeds == [pods |-> {"workload_metadata", "workload_revisions", "workload_policy",
                    "cluster_policy", "restart_counters", "container_restarts",
                    "pod_disruptions", "job_runs"},
          nodes |-> {"node_metadata", "node_lifecycle"},
          intake |-> {"go_inventory", "process_peaks", "process_counters",
                      "listening_ports", "go_build"}]

WaitedFor == UNION {Feeds[t] : t \in Tasks \cap DOMAIN Feeds}
\* What the flusher of a kind hands to its writer: the journals' records, the
\* builds not yet written; the agent's own windows always hold an observation.
AlwaysHeld == {"agent_states", "agent_counters"}
Held(k) ==
  IF mem[k] = 0 /\ k \notin AlwaysHeld THEN {}
  ELSE {[window |-> [start |-> 0, seconds |-> 1], digest |-> <<"a">>]}

\* The files the writer of a kind makes of them.
Writes(k, records) ==
  CASE k = "collection_coverage" -> WriteCollectionCoverage
    [] k = "agent_states" -> WriteAgentStates(records)
    [] k = "agent_counters" -> WriteAgentCounters(records)
    [] k = "workload_metadata" -> WriteWorkloadMetadata
    [] k = "node_metadata" -> WriteNodeMetadata
    [] k = "workload_revisions" -> WriteWorkloadRevisions
    [] k = "workload_policy" -> WriteWorkloadPolicy
    [] k = "cluster_policy" -> WriteClusterPolicy
    [] k = "restart_counters" -> WriteRestartCounters
    [] k = "go_inventory" -> WriteGoInventory
    [] k = "process_peaks" -> WriteProcessPeaks
    [] k = "process_counters" -> WriteProcessCounters
    [] k = "listening_ports" -> WriteListeningPorts
    [] k = "go_build" -> UNION {WriteGoBuild(r.digest) : r \in records}
    [] k = "container_restarts" -> WriteContainerRestarts(records)
    [] k = "pod_disruptions" -> WritePodDisruptions(records)
    [] k = "job_runs" -> WriteJobRuns(records)
    [] k = "node_lifecycle" -> WriteNodeLifecycle(records)
    [] k = "goroutine_counts" -> WriteGoroutineCounts(records)

Silent(k) == Writes(k, Held(k)) = {}
Triggered(k) == registry[k].trigger = "changed"
NotWritten == [age |-> 0, fp |-> None]
Running == main \notin {"returned", "failed"}

Init ==
  /\ ctx = FALSE /\ tasks = {}
  /\ main = "start" /\ periodic = "select"
  /\ left = [w \in Writers |-> {}] /\ out = [w \in Writers |-> NoTemp]
  /\ mem = [k \in Kinds |-> 0]
  /\ gate = [k \in Kinds |-> NotWritten]
  /\ file = [k \in Kinds |-> None] /\ sent = [k \in Kinds |-> None]
  /\ changes = 0 /\ faults = 0 /\ evictions = 0
  /\ gone = [k \in Kinds |-> 0]
  /\ failed = {} /\ landed = {} /\ withheld = {} /\ up = FALSE

-----------------------------------------------------------------------------
\* Lifecycle.

\* The receiver cannot be configured: run returns, nothing is waited for.
IntakeFails ==
  /\ main = "start" /\ "intake" \in Tasks
  /\ main' = "failed" /\ ctx' = TRUE
  /\ UNCHANGED <<tasks, periodic, writers, mem, spool, bounds, ghosts>>

Launch ==
  /\ main = "start"
  /\ main' = "wait" /\ tasks' = Tasks
  /\ UNCHANGED <<ctx, periodic, writers, mem, spool, bounds, ghosts>>

Signal ==
  /\ Running /\ ~ctx
  /\ ctx' = TRUE
  /\ UNCHANGED <<tasks, main, periodic, writers, mem, spool, bounds, ghosts>>

\* Fault, not the code: a task that ends leaves the context alone.
TaskEndsQuietly(t) ==
  /\ main = "wait" /\ t \in tasks
  /\ ctx \/ t # "ship"
  /\ tasks' = tasks \ {t}
  /\ UNCHANGED <<ctx, main, periodic, writers, mem, spool, bounds, ghosts>>

\* A Run returns when the context is cancelled or, the shipper's excepted, on
\* an error of its own; either way the context is cancelled.
TaskEnds(t) ==
  /\ main = "wait" /\ t \in tasks
  /\ ctx \/ t # "ship"
  /\ tasks' = tasks \ {t} /\ ctx' = TRUE
  /\ UNCHANGED <<main, periodic, writers, mem, spool, bounds, ghosts>>

\* An event reaches memory while the goroutine that handles it runs.
Observe(k) ==
  /\ Running /\ changes < MaxChanges
  /\ \E t \in tasks \cap DOMAIN Feeds : k \in Feeds[t]
  /\ mem' = [mem EXCEPT ![k] = @ + 1] /\ changes' = changes + 1
  /\ UNCHANGED <<lifecycle, writers, spool, faults, evictions, ghosts>>

\* The shipper's round delivers a payload and deletes its file.
Deliver(k) ==
  /\ Running /\ "ship" \in tasks /\ file[k] # None
  /\ sent' = [sent EXCEPT ![k] = file[k]] /\ file' = [file EXCEPT ![k] = None]
  /\ UNCHANGED <<lifecycle, writers, mem, gate, bounds, ghosts>>

-----------------------------------------------------------------------------
\* The passes.

\* Fault, not the code: only a changed payload is written.
dueWhenChanged(k, fp) ==
  \/ ~Triggered(k)
  \/ gate[k].fp = None
  \/ gate[k].age >= registry[k].floor /\ fp # gate[k].fp

\* gate.due: a key never written (or forgotten) is, an unchanged one only at
\* its ceiling, a changed one from its floor on.
due(k, fp) ==
  \/ ~Triggered(k)
  \/ gate[k].fp = None
  \/ gate[k].age >= registry[k].ceiling
  \/ gate[k].age >= registry[k].floor /\ fp # gate[k].fp

\* The select takes the tick, also when the context is cancelled and both are
\* ready.
BeginPass ==
  /\ Running /\ periodic = "select"
  /\ periodic' = "flush" /\ left' = [left EXCEPT !["periodic"] = runFlushers(FALSE)]
  /\ gate' = [k \in Kinds |-> [gate[k] EXCEPT !.age = IF gate[k].fp = None THEN 0 ELSE @ + 1]]
  /\ gone' = [k \in Kinds |-> IF gone[k] = 0 THEN 0 ELSE gone[k] + 1]
  /\ landed' = {} /\ withheld' = {}
  /\ UNCHANGED <<ctx, tasks, main, out, mem, file, sent, bounds, failed, up>>

PeriodicEnds ==
  /\ Running /\ periodic = "select" /\ ctx
  /\ periodic' = "ended"
  /\ UNCHANGED <<ctx, tasks, main, writers, mem, spool, bounds, ghosts>>

InPass(w) ==
  /\ Running
  /\ IF w = "main" THEN main = "flush" ELSE periodic = "flush"

\* Spool.write up to the temp file: the payload is assembled, looked up in the
\* registry, and held back by the gate or written beside its name.
Assemble(w) ==
  /\ InPass(w) /\ out[w] = NoTemp
  /\ \E k \in left[w] :
       /\ \A j \in left[w] : ~Before(j, k)
       /\ IF ~Silent(k) /\ Lookup(k) /\ due(k, mem[k])
          THEN /\ out' = [out EXCEPT ![w] = [kind |-> k, ver |-> mem[k]]]
               /\ UNCHANGED <<left, withheld>>
          ELSE /\ left' = [left EXCEPT ![w] = @ \ {k}]
               /\ withheld' = IF mem[k] # gate[k].fp
                              THEN withheld \cup ({k} \cap Range(flushMetadata)) ELSE withheld
               /\ UNCHANGED out
  /\ UNCHANGED <<lifecycle, mem, spool, bounds, gone, failed, landed, up>>

\* publish's rename, and gate.wrote.
Publish(w) ==
  /\ InPass(w) /\ out[w] # NoTemp
  /\ LET k == out[w].kind IN
     /\ file' = [file EXCEPT ![k] = out[w].ver]
     /\ gate' = IF Triggered(k) THEN [gate EXCEPT ![k] = [age |-> 0, fp |-> out[w].ver]] ELSE gate
     /\ gone' = [gone EXCEPT ![k] = 0]
     /\ landed' = landed \cup ({k} \cap Range(flushMetadata))
     /\ left' = [left EXCEPT ![w] = @ \ {k}]
  /\ out' = [out EXCEPT ![w] = NoTemp]
  /\ UNCHANGED <<lifecycle, mem, sent, bounds, failed, withheld, up>>

PublishFails(w) ==
  /\ InPass(w) /\ out[w] # NoTemp /\ faults + evictions < MaxFaults
  /\ failed' = IF w = "main" THEN failed \cup {out[w].kind} ELSE failed
  /\ left' = [left EXCEPT ![w] = @ \ {out[w].kind}]
  /\ out' = [out EXCEPT ![w] = NoTemp]
  /\ faults' = faults + 1
  /\ UNCHANGED <<lifecycle, mem, spool, changes, evictions, gone, landed, withheld, up>>

\* The sweep after the flushers: the gate forgets by age, and the ceilings
\* take files whatever the gate remembers of them.
Sweep ==
  /\ Running /\ periodic = "flush" /\ left["periodic"] = {}
  /\ \E evicted \in SUBSET {k \in Kinds : file[k] # None} :
       /\ evicted = {} \/ faults + evictions < MaxFaults
       /\ evictions' = IF evicted = {} THEN evictions ELSE evictions + 1
       /\ file' = [k \in Kinds |-> IF k \in evicted THEN None ELSE file[k]]
       /\ gone' = [k \in Kinds |-> IF k \in evicted /\ Triggered(k) THEN 1 ELSE gone[k]]
  /\ gate' = [k \in Kinds |-> IF gate[k].age > MaxAge
                              THEN NotWritten ELSE gate[k]]
  /\ periodic' = "select"
  /\ UNCHANGED <<ctx, tasks, main, writers, mem, sent, changes, faults, failed, landed, withheld, up>>

\* Fault, not the code: the periodic goroutine is not waited for.
WaitForTasksOnly ==
  /\ main = "wait" /\ tasks = {} /\ ctx
  /\ main' = "flush" /\ left' = [left EXCEPT !["main"] = runFlushers(TRUE)]
  /\ UNCHANGED <<ctx, tasks, periodic, out, mem, spool, bounds, ghosts>>

\* wg.Wait returns and the shutdown pass begins.
Wait ==
  /\ main = "wait" /\ tasks = {} /\ periodic = "ended"
  /\ main' = "flush" /\ left' = [left EXCEPT !["main"] = runFlushers(TRUE)]
  /\ UNCHANGED <<ctx, tasks, periodic, out, mem, spool, bounds, ghosts>>

\* FinalRound after the flush: what it delivers depends on the backend and on
\* its budget; without a shipper there is none.
FinalRound ==
  /\ main = "flush" /\ left["main"] = {}
  /\ \E taken \in SUBSET {k \in Kinds : file[k] # None} :
       /\ "ship" \in Tasks \/ taken = {}
       /\ up' = ("ship" \in Tasks /\ taken = {k \in Kinds : file[k] # None})
       /\ sent' = [k \in Kinds |-> IF k \in taken THEN file[k] ELSE sent[k]]
       /\ file' = [k \in Kinds |-> IF k \in taken THEN None ELSE file[k]]
  /\ main' = "returned"
  /\ UNCHANGED <<ctx, tasks, periodic, writers, mem, gate, bounds,
                 gone, failed, landed, withheld>>

Next ==
  \/ IntakeFails \/ Launch \/ Signal
  \/ \E t \in Tasks : TaskEnds(t)
  \/ \E k \in Kinds : Observe(k) \/ Deliver(k)
  \/ BeginPass \/ PeriodicEnds \/ Sweep
  \/ \E w \in Writers : Assemble(w) \/ Publish(w) \/ PublishFails(w)
  \/ Wait \/ FinalRound

\* Goroutines are scheduled; a Run returns once its context is cancelled; a
\* select that finds the context done again and again takes that branch.
Fairness ==
  /\ WF_vars(Launch) /\ WF_vars(Wait) /\ WF_vars(FinalRound) /\ WF_vars(Sweep)
  /\ \A t \in Tasks : WF_vars(ctx /\ TaskEnds(t))
  /\ \A w \in Writers : WF_vars(Assemble(w) \/ Publish(w))
  /\ SF_vars(PeriodicEnds)

Spec == Init /\ [][Next]_vars /\ Fairness

-----------------------------------------------------------------------------
TypeOK ==
  /\ ctx \in BOOLEAN /\ up \in BOOLEAN
  /\ tasks \subseteq Tasks
  /\ main \in {"start", "wait", "flush", "returned", "failed"}
  /\ periodic \in {"select", "flush", "ended"}
  /\ left \in [Writers -> SUBSET Kinds]
  /\ out \in [Writers -> [kind : Kinds, ver : Nat] \cup {NoTemp}]
  /\ mem \in [Kinds -> Nat] /\ gone \in [Kinds -> Nat]
  /\ gate \in [Kinds -> [age : Nat, fp : Nat \cup {None}]]
  /\ file \in [Kinds -> Nat \cup {None}] /\ sent \in [Kinds -> Nat \cup {None}]
  /\ changes \in Nat /\ faults \in Nat /\ evictions \in Nat
  /\ failed \subseteq Kinds /\ landed \subseteq Kinds /\ withheld \subseteq Kinds

Inside(w) == IF out[w] = NoTemp THEN {} ELSE {out[w].kind}

\* Two writers of one key share its temp file.  The periodic pass and the
\* shutdown pass are never between the temp file and the rename of one key.
OneWriterPerKey == Inside("periodic") \cap Inside("main") = {}

\* What a graceful stop keeps of what the lifecycle tasks observed, the
\* metadata re-derived from live indexes excepted.  A payload of the fixed
\* cadence is current in the spool, or with the backend when the
\* final round delivered everything, unless its last write failed.  A
\* change-triggered one is the one last written, unless
\* that write is younger than its floor or the last one failed.
StopKeeps ==
  main = "returned" =>
    \A k \in (Kinds \cap WaitedFor) \ (Range(flushMetadata) \cup failed) :
      \/ Silent(k)
      \/ /\ Triggered(k)
         /\ gate[k].fp = mem[k] \/ gate[k].age < registry[k].floor
      \/ /\ ~Triggered(k)
         /\ IF up THEN sent[k] = mem[k] ELSE mem[k] \in {file[k], sent[k]}

\* The sweep evicts a payload that the gate goes on remembering as written.
\* It is back after its ceiling, and one pass later for each failed publish.
EvictedComesBack ==
  \A k \in Kinds : gone[k] =< registry[k].ceiling + 1 + faults

\* A task that ends, like a signal, brings the whole agent down, through the
\* shutdown pass, rather than leave it half-blind.
OneEndsAll ==
  (main = "wait" /\ (ctx \/ tasks # Tasks)) ~> main = "returned"

\* "The reason the older one was not rewritten: nothing in it had changed":
\* when a metadata flush writes some of its payloads, those it did not write
\* are as they were when last written.
JoinIsSound ==
  landed = {} \/ withheld = {}
=============================================================================
