--------------------------- MODULE ControllerProofs ---------------------------
(***************************************************************************)
(* Proofs about the controller's lifecycle, for every set of kinds that    *)
(* the flushers write, every set of tasks and every cadence; and about the *)
(* policy captures its pass makes, for every finite set of pods, every set *)
(* of policy objects and every number of changes.                          *)
(*                                                                         *)
(* The lifecycle's inductive invariant has three parts on top of TypeOK:   *)
(*                                                                         *)
(*   - Turns: the shutdown pass begins after the periodic goroutine ended, *)
(*     and a temp file belongs to a kind its pass has yet to leave;        *)
(*   - Overdue: a payload is missing from the spool for no longer than the *)
(*     gate has remembered it, and the gate holds a payload back for no    *)
(*     longer than its ceiling, a failed publish apart;                    *)
(*   - Keeping: what the shutdown pass has left behind it is current.      *)
(*                                                                         *)
(* A capture is a sequence of reads of caches that go on changing, so its  *)
(* inductive invariant says what each read still owes:                     *)
(*                                                                         *)
(*   - World: an object the capture owes is in its cache all along, unless *)
(*     its source was declared unavailable when the capture began, and a   *)
(*     steady pod is both listed and indexed;                              *)
(*   - Collected: every steady pod has its row and its claims, and every   *)
(*     row and claim is of a pod indexed during the capture;               *)
(*   - Underway: an owed object that bears on a steady pod is shown, is in *)
(*     the listing being matched, or has its listing still to come.        *)
(***************************************************************************)
EXTENDS Controller, Policy, FiniteSetTheorems, TLAPS

\* Every leaf goes to Zenon first: most are first-order, and a leaf that needs
\* arithmetic is soon given up.
USE ZenonT(3), SMTT(30)

-----------------------------------------------------------------------------
\* Where run() and the periodic goroutine are, and whose temp file there is.
Turns ==
  /\ main \in {"flush", "returned"} => tasks = {} /\ periodic = "ended"
  /\ out["main"] # NoTemp => main = "flush"
  /\ out["periodic"] # NoTemp => periodic = "flush"
  /\ \A w \in Writers : out[w] # NoTemp => out[w].kind \in left[w]

\* The periodic pass has not come to k yet.
Ahead(k) == periodic = "flush" /\ k \in left["periodic"]

\* The passes a payload may be missing, and the gate may hold it back.
Patience(k) == registry[k].ceiling + faults + IF Ahead(k) THEN 1 ELSE 0

\* A change-triggered kind: how long it has been missing, and how long the gate
\* has held it back.
OverdueOne(k) ==
  IF Triggered(k)
  THEN /\ gone[k] =< Patience(k)
       /\ gate[k].fp # None => gate[k].age < Patience(k) /\ gone[k] =< gate[k].age + 1
  ELSE gone[k] = 0

Overdue == \A k \in Kinds : OverdueOne(k)

\* What the gate or the spool has of a kind is what memory holds.
Current(k) ==
  \/ Silent(k)
  \/ Triggered(k) /\ (gate[k].fp = mem[k] \/ gate[k].age < registry[k].floor)
  \/ ~Triggered(k) /\ file[k] = mem[k]

Keeping ==
  /\ main = "flush" =>
       /\ out["main"] # NoTemp => out["main"].ver = mem[out["main"].kind]
       /\ \A k \in runFlushers(TRUE) \ (left["main"] \cup failed) : Current(k)
  /\ StopKeeps

IInv == TypeOK /\ Turns /\ Overdue /\ Keeping
-----------------------------------------------------------------------------

\* A periodic pass of runFlushers comes to every kind of the instance.
LEMMA AllFlushed == runFlushers(FALSE) = Kinds
BY KindsAssumption DEF runFlushers, Range

\* The payloads of all flushers.
Flushed ==
  {"collection_coverage", "agent_states", "agent_counters", "workload_metadata",
   "node_metadata", "workload_revisions", "workload_policy", "cluster_policy",
   "restart_counters", "go_inventory", "process_peaks", "process_counters",
   "listening_ports", "go_build", "container_restarts", "pod_disruptions", "job_runs",
   "node_lifecycle", "goroutine_counts"}

\* Each kind of the instance is one of the payloads the flushers write.
LEMMA KindsFlushed == Kinds \subseteq Flushed
<1>1. ASSUME NEW i \in DOMAIN flushers PROVE Range(flushers[i].run) \subseteq Flushed
  BY DEF flushers, Range, Flushed, logCoverage, flushMetadata, flushInventory, flushRestarts,
         flushDisruptions, flushJobRuns, flushNodeLifecycle, flushGoroutineCounts
<1> QED BY <1>1, KindsAssumption

Cadences == {everyPass, onChange, onChangeDebounced, onEvent}

\* Spool.write finds every flushed kind in the registry, and a change-triggered
\* one has a ceiling of at least one pass.
LEMMA Registered ==
  ASSUME NEW k \in Kinds
  PROVE  /\ Lookup(k)
         /\ registry[k].floor \in Nat /\ registry[k].ceiling \in Nat
         /\ Triggered(k) => registry[k].ceiling >= 1
<1>1. k \in Flushed BY KindsFlushed
<1>2. k \in DOMAIN registry /\ registry[k] \in Cadences
  BY <1>1 DEF Flushed, registry, journalRows, inventoryRows, Cadences
<1> QED BY <1>2, RegistryAssumption
        DEF Lookup, Triggered, Cadences, everyPass, onChange, onChangeDebounced, onEvent

\* The writer of a change-triggered kind always has a payload to write, also
\* before the first observation.
LEMMA TriggeredSpeaks ==
  ASSUME NEW k \in Kinds, Triggered(k) PROVE ~Silent(k)
<1>1. k \in Flushed BY KindsFlushed
<1>2. k \in {"restart_counters", "go_inventory", "process_peaks", "listening_ports",
             "workload_metadata", "workload_revisions", "workload_policy", "cluster_policy",
             "node_metadata"}
  BY <1>1 DEF Triggered, Flushed, registry, journalRows, inventoryRows,
              everyPass, onChange, onChangeDebounced, onEvent
<1> QED BY <1>2 DEF Silent, Writes, WriteRestartCounters, WriteGoInventory, WriteProcessPeaks,
                    WriteListeningPorts, WriteWorkloadMetadata, WriteNodeMetadata,
                    WriteWorkloadRevisions, WriteWorkloadPolicy, WriteClusterPolicy

\* The shutdown pass of runFlushers leaves out no kind but the metadata.
LEMMA StopFlushes ==
  Kinds \ Range(flushMetadata) \subseteq runFlushers(TRUE)
<1> SUFFICES ASSUME NEW k \in Kinds, k \notin Range(flushMetadata)
             PROVE  k \in runFlushers(TRUE)
  OBVIOUS
<1>1. PICK i \in DOMAIN flushers : k \in Range(flushers[i].run) BY KindsAssumption
<1>2. flushers[i].onShutdown \/ flushers[i].run = flushMetadata BY DEF flushers
<1>3. flushers[i] \in Range(flushers) BY DEF Range
<1> QED BY <1>1, <1>2, <1>3 DEF runFlushers

-----------------------------------------------------------------------------
\* The invariant holds when run() starts.
LEMMA InitIInv == ASSUME Init PROVE IInv
<1>1. TypeOK BY DEF Init, TypeOK, NotWritten, None, NoTemp
<1>2. Turns BY DEF Init, Turns, Writers
<1>3. Overdue BY Registered DEF Init, Overdue, OverdueOne, NotWritten, None, Patience, Ahead
<1>4. Keeping BY DEF Init, Keeping, StopKeeps
<1> QED BY <1>1, <1>2, <1>3, <1>4 DEF IInv

-----------------------------------------------------------------------------
\* Every step of the tasks, the passes and run() keeps the types.
LEMMA NextTypeOK == ASSUME TypeOK, [Next]_vars PROVE TypeOK'
<1> USE DEF lifecycle, writers, spool, bounds, ghosts
<1>1. CASE IntakeFails \/ Launch \/ Signal BY <1>1 DEF IntakeFails, Launch, Signal, TypeOK
<1>2. CASE \E t \in Tasks : TaskEnds(t) BY <1>2 DEF TaskEnds, TypeOK
<1>3. CASE \E k \in Kinds : Observe(k) BY <1>3 DEF Observe, TypeOK
<1>4. CASE \E k \in Kinds : Deliver(k) BY <1>4 DEF Deliver, TypeOK
<1>5. CASE BeginPass
  <2>1. gate' \in [Kinds -> [age : Nat, fp : Nat \cup {None}]] BY <1>5 DEF BeginPass, TypeOK
  <2>2. gone' \in [Kinds -> Nat] BY <1>5 DEF BeginPass, TypeOK
  <2>3. left' \in [Writers -> SUBSET Kinds] BY <1>5, AllFlushed DEF BeginPass, TypeOK
  <2> QED BY <1>5, <2>1, <2>2, <2>3 DEF BeginPass, TypeOK
<1>6. CASE PeriodicEnds BY <1>6 DEF PeriodicEnds, TypeOK
<1>7. CASE Sweep
  <2>1. gate' \in [Kinds -> [age : Nat, fp : Nat \cup {None}]]
    BY <1>7 DEF Sweep, TypeOK, NotWritten
  <2>2. gone' \in [Kinds -> Nat] /\ file' \in [Kinds -> Nat \cup {None}] /\ evictions' \in Nat
    BY <1>7 DEF Sweep, TypeOK
  <2> QED BY <1>7, <2>1, <2>2 DEF Sweep, TypeOK
<1>8. ASSUME NEW w \in Writers, Assemble(w) PROVE TypeOK'
  <2>1. PICK k \in left[w] :
          \/ out' = [out EXCEPT ![w] = [kind |-> k, ver |-> mem[k]]] /\ UNCHANGED <<left, withheld>>
          \/ /\ left' = [left EXCEPT ![w] = @ \ {k}] /\ UNCHANGED out
             /\ withheld' = withheld \cup ({k} \cap Range(flushMetadata)) \/ withheld' = withheld
    BY <1>8 DEF Assemble
  <2>2. k \in Kinds BY DEF TypeOK
  <2> QED BY <1>8, <2>1, <2>2 DEF Assemble, TypeOK
<1>9. ASSUME NEW w \in Writers, Publish(w) PROVE TypeOK'
  <2>1. out[w] \in [kind : Kinds, ver : Nat] BY <1>9 DEF Publish, TypeOK
  <2>2. gate' \in [Kinds -> [age : Nat, fp : Nat \cup {None}]]
    BY <1>9, <2>1 DEF Publish, TypeOK
  <2> QED BY <1>9, <2>1, <2>2 DEF Publish, TypeOK
<1>10. ASSUME NEW w \in Writers, PublishFails(w) PROVE TypeOK'
  <2>1. out[w] \in [kind : Kinds, ver : Nat] BY <1>10 DEF PublishFails, TypeOK
  <2> QED BY <1>10, <2>1 DEF PublishFails, TypeOK
<1>11. CASE Wait BY <1>11 DEF Wait, TypeOK, runFlushers
<1>12. CASE FinalRound
  <2>1. file' \in [Kinds -> Nat \cup {None}] /\ sent' \in [Kinds -> Nat \cup {None}]
        /\ up' \in BOOLEAN
    BY <1>12 DEF FinalRound, TypeOK
  <2> QED BY <1>12, <2>1 DEF FinalRound, TypeOK
<1>13. CASE UNCHANGED vars BY <1>13 DEF vars, TypeOK
<1> QED BY <1>1, <1>2, <1>3, <1>4, <1>5, <1>6, <1>7, <1>8, <1>9, <1>10, <1>11, <1>12, <1>13
        DEF Next

-----------------------------------------------------------------------------
\* run() enters its flush only after wg.Wait, and a writer holds a temp file
\* only inside its pass.
LEMMA NextTurns == ASSUME TypeOK, Turns, [Next]_vars PROVE Turns'
<1> USE DEF lifecycle, writers, spool, bounds, ghosts, Writers
<1>1. CASE IntakeFails \/ Launch \/ Signal
  BY <1>1 DEF IntakeFails, Launch, Signal, Turns
<1>2. CASE \E t \in Tasks : TaskEnds(t) BY <1>2 DEF TaskEnds, Turns
<1>3. CASE \E k \in Kinds : Observe(k) \/ Deliver(k) BY <1>3 DEF Observe, Deliver, Turns
<1>4. CASE BeginPass BY <1>4 DEF BeginPass, Turns, TypeOK
<1>5. CASE PeriodicEnds BY <1>5 DEF PeriodicEnds, Turns
<1>6. CASE Sweep BY <1>6 DEF Sweep, Turns
<1>7. ASSUME NEW w \in Writers, Assemble(w) PROVE Turns'
  <2>1. PICK k \in left[w] :
          \/ out' = [out EXCEPT ![w] = [kind |-> k, ver |-> mem[k]]] /\ UNCHANGED left
          \/ left' = [left EXCEPT ![w] = @ \ {k}] /\ UNCHANGED out
    BY <1>7 DEF Assemble
  <2> QED BY <1>7, <2>1 DEF Assemble, InPass, Turns, TypeOK
<1>8. ASSUME NEW w \in Writers, Publish(w) \/ PublishFails(w) PROVE Turns'
  BY <1>8 DEF Publish, PublishFails, InPass, Turns, TypeOK
<1>9. CASE Wait BY <1>9 DEF Wait, Turns, TypeOK
<1>10. CASE FinalRound BY <1>10 DEF FinalRound, Turns
<1>11. CASE UNCHANGED vars BY <1>11 DEF vars, Turns
<1> QED BY <1>1, <1>2, <1>3, <1>4, <1>5, <1>6, <1>7, <1>8, <1>9, <1>10, <1>11 DEF Next

-----------------------------------------------------------------------------
\* A pass ages what the gate remembers and what the sweep evicted alike, and
\* leaves a change-triggered kind unwritten only below its ceiling.
LEMMA NextOverdue == ASSUME TypeOK, Turns, Overdue, [Next]_vars PROVE Overdue'
<1> USE DEF lifecycle, writers, spool, bounds, ghosts, Writers
<1> SUFFICES ASSUME NEW k \in Kinds PROVE OverdueOne(k)'
  BY DEF Overdue, OverdueOne, Triggered
<1>0. /\ OverdueOne(k) /\ registry[k].ceiling \in Nat
      /\ Triggered(k) => registry[k].ceiling >= 1
      /\ gone[k] \in Nat /\ faults \in Nat
      /\ gate[k] \in [age : Nat, fp : Nat \cup {None}]
  BY Registered DEF Overdue, OverdueOne, TypeOK
<1>1. ASSUME UNCHANGED <<gate, gone, faults>>, Ahead(k)' <=> Ahead(k) PROVE OverdueOne(k)'
  BY <1>0, <1>1 DEF OverdueOne, Patience, Triggered
<1>2. CASE IntakeFails \/ Launch \/ Signal
  BY <1>1, <1>2 DEF IntakeFails, Launch, Signal, Ahead
<1>3. CASE \E t \in Tasks : TaskEnds(t) BY <1>1, <1>3 DEF TaskEnds, Ahead
<1>4. CASE \E j \in Kinds : Observe(j) \/ Deliver(j) BY <1>1, <1>4 DEF Observe, Deliver, Ahead
<1>5. CASE BeginPass
  <2>1. Ahead(k)' /\ ~Ahead(k) /\ faults' = faults
    BY <1>5, AllFlushed DEF BeginPass, Ahead, TypeOK
  <2>2. /\ gone'[k] = IF gone[k] = 0 THEN 0 ELSE gone[k] + 1
        /\ gate'[k].fp = gate[k].fp
        /\ gate[k].fp # None => gate'[k].age = gate[k].age + 1
    BY <1>0, <1>5 DEF BeginPass
  <2> QED BY <1>0, <2>1, <2>2 DEF OverdueOne, Patience, Triggered
<1>6. CASE PeriodicEnds BY <1>1, <1>6 DEF PeriodicEnds, Ahead
<1>7. CASE Sweep
  <2>1. ~Ahead(k)' /\ ~Ahead(k) BY <1>7 DEF Sweep, Ahead
  <2>2. /\ faults' = faults
        /\ gone'[k] = gone[k] \/ (Triggered(k) /\ gone'[k] = 1)
        /\ gate'[k] = gate[k] \/ gate'[k].fp = None
    BY <1>7 DEF Sweep, NotWritten
  <2> QED BY <1>0, <2>1, <2>2 DEF OverdueOne, Patience, Triggered
<1>8. ASSUME NEW w \in Writers, Assemble(w) PROVE OverdueOne(k)'
  <2>1. PICK j \in left[w] :
          IF ~Silent(j) /\ Lookup(j) /\ due(j, mem[j])
          THEN UNCHANGED left ELSE left' = [left EXCEPT ![w] = @ \ {j}]
    BY <1>8 DEF Assemble
  <2>2. UNCHANGED <<gate, gone, faults, periodic>> BY <1>8 DEF Assemble
  <2>3. CASE Ahead(k)' <=> Ahead(k) BY <1>1, <2>2, <2>3
  <2>4. CASE ~(Ahead(k)' <=> Ahead(k))
    <3>1. j = k /\ Ahead(k) /\ ~Ahead(k)' /\ left' # left
      BY <2>1, <2>2, <2>4 DEF Ahead, TypeOK
    <3>2. Triggered(k) => ~due(k, mem[k])
      BY <2>1, <3>1, TriggeredSpeaks, Registered
    <3> QED BY <1>0, <2>2, <3>1, <3>2 DEF OverdueOne, Patience, Triggered, due
  <2> QED BY <2>3, <2>4
<1>9. ASSUME NEW w \in Writers, Publish(w) PROVE OverdueOne(k)'
  <2> DEFINE j == out[w].kind
  <2>1. out[w] \in [kind : Kinds, ver : Nat] /\ None \notin Nat
    BY <1>9 DEF Publish, TypeOK, None
  <2>2. UNCHANGED <<faults, periodic>> /\ left' = [left EXCEPT ![w] = @ \ {j}]
    BY <1>9 DEF Publish
  <2>3. CASE k = j
    <3>1. gone'[k] = 0 /\ (Triggered(k) => gate'[k] = [age |-> 0, fp |-> out[w].ver])
      BY <1>9, <2>3 DEF Publish, TypeOK
    <3> QED BY <1>0, <2>1, <2>2, <3>1 DEF OverdueOne, Patience, Triggered
  <2>4. CASE k # j
    <3>1. gone'[k] = gone[k] /\ gate'[k] = gate[k] BY <1>9, <2>4 DEF Publish, TypeOK
    <3>2. Ahead(k)' <=> Ahead(k) BY <2>2, <2>4 DEF Ahead, TypeOK
    <3> QED BY <1>0, <2>2, <3>1, <3>2 DEF OverdueOne, Patience, Triggered
  <2> QED BY <2>3, <2>4
<1>10. ASSUME NEW w \in Writers, PublishFails(w) PROVE OverdueOne(k)'
  <2>1. faults' = faults + 1 /\ UNCHANGED <<gate, gone>> BY <1>10 DEF PublishFails
  <2> QED BY <1>0, <2>1 DEF OverdueOne, Patience, Triggered
<1>11. CASE Wait BY <1>1, <1>11 DEF Wait, Ahead, TypeOK
<1>12. CASE FinalRound BY <1>1, <1>12 DEF FinalRound, Ahead
<1>13. CASE UNCHANGED vars BY <1>1, <1>13 DEF vars, Ahead
<1> QED BY <1>2, <1>3, <1>4, <1>5, <1>6, <1>7, <1>8, <1>9, <1>10, <1>11, <1>12, <1>13 DEF Next

-----------------------------------------------------------------------------
\* Whether a writer has anything to write depends on memory alone.
LEMMA SilenceKept == ASSUME NEW k, mem' = mem PROVE Silent(k)' <=> Silent(k)
BY DEF Silent, Held

\* No goroutine but run() moves during the shutdown pass, and each kind that
\* pass has left is current or held back below its floor.
LEMMA NextKeeping == ASSUME TypeOK, Turns, Keeping, [Next]_vars PROVE Keeping'
<1> USE DEF lifecycle, writers, spool, bounds, ghosts, Writers
<1>1. ASSUME UNCHANGED <<main, out, left, mem, gate, file, sent, failed, up>> PROVE Keeping'
  BY <1>1, SilenceKept DEF Keeping, StopKeeps, Current, Triggered
<1>2. ASSUME main' \notin {"flush", "returned"} PROVE Keeping'
  BY <1>2 DEF Keeping, StopKeeps
<1>3. CASE IntakeFails \/ Launch \/ Signal \/ PeriodicEnds
  BY <1>1, <1>2, <1>3 DEF IntakeFails, Launch, Signal, PeriodicEnds
<1>4. CASE \E t \in Tasks : TaskEnds(t) BY <1>2, <1>4, SMTT(30) DEF TaskEnds
<1>5. CASE \E k \in Kinds : Observe(k) \/ Deliver(k)
  BY <1>2, <1>5, SMTT(30) DEF Observe, Deliver, Turns, Running
<1>6. CASE BeginPass \/ Sweep BY <1>2, <1>6, Zenon DEF BeginPass, Sweep, Turns, Running
<1>7. CASE Assemble("periodic") \/ Publish("periodic") \/ PublishFails("periodic")
  BY <1>2, <1>7, SMTT(30) DEF Assemble, Publish, PublishFails, InPass, Turns, Running
<1>8. CASE Assemble("main")
  <2>1. /\ main = "flush" /\ main' = "flush" /\ out["main"] = NoTemp
        /\ UNCHANGED <<mem, gate, file, failed>>
    BY <1>8 DEF Assemble, InPass
  <2>2. PICK k \in left["main"] :
          IF ~Silent(k) /\ Lookup(k) /\ due(k, mem[k])
          THEN /\ out' = [out EXCEPT !["main"] = [kind |-> k, ver |-> mem[k]]] /\ UNCHANGED left
          ELSE left' = [left EXCEPT !["main"] = @ \ {k}] /\ UNCHANGED out
    BY <1>8 DEF Assemble
  <2>3. k \in Kinds /\ Lookup(k) BY Registered DEF TypeOK
  <2>4. ASSUME NEW j, Current(j) PROVE Current(j)'
    BY <2>1, <2>4, SilenceKept DEF Current, Triggered
  <2>5. ~(~Silent(k) /\ due(k, mem[k])) => Current(k)
    <3>1. gate[k].age \in Nat /\ registry[k].floor \in Nat BY <2>3, Registered DEF TypeOK
    <3> QED BY <3>1 DEF Current, due
  <2>6. out'["main"] # NoTemp => out'["main"].ver = mem[out'["main"].kind]
    BY <2>1, <2>2 DEF TypeOK
  <2>7. \A j \in runFlushers(TRUE) \ (left'["main"] \cup failed) : Current(j)
    <3>1. \/ left'["main"] = left["main"]
          \/ left'["main"] = left["main"] \ {k} /\ Current(k)
      BY <2>2, <2>3, <2>5 DEF TypeOK
    <3>2. \A j \in runFlushers(TRUE) \ (left["main"] \cup failed) : Current(j)
      BY <2>1 DEF Keeping
    <3> QED BY <3>1, <3>2
  <2> QED BY <2>1, <2>4, <2>6, <2>7 DEF Keeping, StopKeeps, runFlushers
<1>9. CASE Publish("main")
  <2>0. PICK k : k = out["main"].kind OBVIOUS
  <2>1. /\ main = "flush" /\ main' = "flush" /\ out'["main"] = NoTemp
        /\ UNCHANGED <<mem, failed>> /\ left' = [left EXCEPT !["main"] = @ \ {k}]
    BY <1>9, <2>0 DEF Publish, InPass, TypeOK
  <2>2. out["main"] \in [kind : Kinds, ver : Nat] /\ out["main"].ver = mem[k]
    BY <1>9, <2>0 DEF Publish, TypeOK, Keeping, InPass
  <2>3. Current(k)'
    <3>1. file'[k] = mem[k] /\ (Triggered(k) => gate'[k].fp = mem[k])
      BY <1>9, <2>0, <2>2, SMTT(30) DEF Publish, TypeOK
    <3> QED BY <2>1, <3>1 DEF Current, Triggered
  <2>4. ASSUME NEW j \in Kinds, j # k, Current(j) PROVE Current(j)'
    <3>1. file'[j] = file[j] /\ gate'[j] = gate[j] BY <1>9, <2>0, <2>4 DEF Publish, TypeOK
    <3> QED BY <2>1, <2>4, <3>1, SilenceKept DEF Current, Triggered
  <2>5. \A j \in runFlushers(TRUE) \ (left'["main"] \cup failed) : j = k \/ Current(j)
    BY <2>1, Zenon DEF Keeping, TypeOK
  <2> QED BY <2>1, <2>3, <2>4, <2>5, SMTT(30) DEF Keeping, StopKeeps, runFlushers
<1>10. CASE PublishFails("main")
  <2>1. /\ main = "flush" /\ main' = "flush" /\ out'["main"] = NoTemp
        /\ UNCHANGED <<mem, gate, file>> /\ failed' = failed \cup {out["main"].kind}
        /\ left'["main"] = left["main"] \ {out["main"].kind}
    BY <1>10, SMTT(30) DEF PublishFails, InPass, TypeOK
  <2>2. ASSUME NEW j, Current(j) PROVE Current(j)'
    BY <2>1, <2>2, SilenceKept DEF Current, Triggered
  <2> QED BY <2>1, <2>2, SMTT(30) DEF Keeping, StopKeeps, runFlushers
<1>11. CASE Wait
  BY <1>11, SMTT(30) DEF Wait, Turns, Keeping, StopKeeps, TypeOK, runFlushers
<1>12. CASE FinalRound
  <2>1. main' = "returned" /\ UNCHANGED <<mem, gate, failed>> BY <1>12 DEF FinalRound
  <2> SUFFICES ASSUME NEW k \in Kinds, k \notin Range(flushMetadata), k \notin failed, ~Silent(k)
               PROVE  \/ Triggered(k) /\ (gate[k].fp = mem[k] \/ gate[k].age < registry[k].floor)
                      \/ ~Triggered(k) /\ IF up' THEN sent'[k] = mem[k]
                                                 ELSE mem[k] \in {file'[k], sent'[k]}
    BY <2>1, SilenceKept, SMTT(30) DEF Keeping, StopKeeps, Triggered
  <2>2. Current(k) BY <1>12, StopFlushes DEF Keeping, FinalRound
  <2>3. CASE Triggered(k) BY <2>2, <2>3 DEF Current
  <2>4. CASE ~Triggered(k)
    <3>1. file[k] = mem[k] /\ mem[k] # None BY <2>2, <2>4 DEF Current, TypeOK, None
    <3> QED BY <1>12, <2>4, <3>1 DEF FinalRound
  <2> QED BY <2>3, <2>4
<1>13. CASE UNCHANGED vars BY <1>1, <1>13 DEF vars
<1> QED BY <1>3, <1>4, <1>5, <1>6, <1>7, <1>8, <1>9, <1>10, <1>11, <1>12, <1>13 DEF Next

-----------------------------------------------------------------------------
\* The invariant holds in every state of the controller.
LEMMA Inductive == Spec => []IInv
<1>1. Init => IInv BY InitIInv
<1>2. IInv /\ [Next]_vars => IInv'
  BY NextTypeOK, NextTurns, NextOverdue, NextKeeping DEF IInv
<1> QED BY <1>1, <1>2, PTL DEF Spec

\* The variables of the lifecycle keep their types.
THEOREM TypeCorrect == Spec => []TypeOK
<1>1. IInv => TypeOK BY DEF IInv
<1> QED BY <1>1, Inductive, PTL

\* The periodic goroutine and run() are never between the temp file and the
\* rename of one key, because run() flushes only after wg.Wait.
THEOREM OneWriter == Spec => []OneWriterPerKey
<1>1. IInv => OneWriterPerKey BY DEF IInv, Turns, OneWriterPerKey, Inside
<1> QED BY <1>1, Inductive, PTL

\* A payload the sweep evicted while the gate remembers it is written again
\* within its ceiling, one pass more for each failed publish.
THEOREM ComesBack == Spec => []EvictedComesBack
<1>1. IInv => EvictedComesBack
  BY Registered DEF IInv, TypeOK, Overdue, OverdueOne, Patience, EvictedComesBack
<1> QED BY <1>1, Inductive, PTL

\* What the lifecycle tasks observed is in the spool, with the backend, or held
\* back by a floor when run() returns, for every set of kinds and tasks.
THEOREM Keeps == Spec => []StopKeeps
<1>1. IInv => StopKeeps BY DEF IInv, Keeping
<1> QED BY <1>1, Inductive, PTL

-----------------------------------------------------------------------------
(* The policy captures. *)

\* The sources that a capture lists; the slices are read with their service.
Listed == {"pod_disruption_budgets", "services", "horizontal_pod_autoscalers",
           "persistent_volume_claims", "limit_ranges", "resource_quotas",
           "priority_classes", "storage_classes"}

\* A listing that a capture makes contains the object, once it is made.
Lists(r, o) == r.source = o.source /\ r.ns \in {"all", o.ns}

\* What is taken up lists every steady pod that its selector matches, and every
\* slice that is owed to the service.
InHand(h) ==
  /\ h.object \in Objects /\ h.object.source \in Listed \cap Wanted[subject]
  /\ h.object.source \in Selectors => \A p \in steady : Selects(h.object, p) => p \in h.pods
  /\ \A p \in h.pods : h.object.source \in Selectors /\ Selects(h.object, p)
  /\ \A e \in owed :
       (e.source = "endpoint_slices" /\ e.ns = h.object.ns /\ e.selects = h.object.name)
         => e.source \in gaps \/ e.name \in h.zones

\* What stays true of the caches, the index and the ghosts while they change.
World ==
  /\ subject \in {"workload", "cluster"} /\ stage \in Nat
  /\ cluster \cup cache \cup todo \subseteq Objects /\ index \cup touched \subseteq Pods
  /\ \A o \in owed : /\ o \in cluster /\ o.source \in Wanted[subject]
                     /\ o.source \in gaps \/ o \in cache
  /\ steady \subseteq podCache \cap index
  /\ stage # 0 => index \subseteq touched
  /\ stage \in {0, 1, 2} => todo = {} /\ hand = {}
  /\ \A o \in todo : o.source \in Listed \cap Wanted[subject]
  /\ \A g, h \in hand : g = h
  /\ \A h \in hand : InHand(h)

\* A row of the capture for a pod.
HasRow(p) ==
  \E r \in rows : /\ r.ns = p.ns
                  /\ subject = "workload" => r.name = p.name /\ (r.kind = p.kind \/ Twinned(p))

\* collectedWorkloads and collectedNamespaces, once they have read the index.
Collected ==
  stage > 1 =>
    /\ \A p \in steady : HasRow(p)
    /\ \A r \in rows : \E q \in touched : r.ns = q.ns /\ (subject = "workload" => r = Row(q))
    /\ subject = "workload" =>
         /\ \A p \in steady : \A c \in p.claims : <<Key(p), c>> \in claims
         /\ \A c \in claims : \E q \in touched : \E n \in q.claims : c = <<Key(q), n>>

\* A listing that contains the object is still to be made.
ToCome(o) == stage > 1 /\ \E i \in stage - 1 .. Len(Reads) : Lists(Reads[i], o)

\* A pod for which an object may be left out of the payload.
Excused(o, p) ==
  \/ o.source \in gaps \/ ~Bears(o, p) \/ SelectsAll(o)
  \/ o.source = "horizontal_pod_autoscalers" /\ Twinned(p)

\* The object is taken up and not matched yet.
OnHand(o) == \E h \in hand : h.object = o

\* What a capture owes is shown or on its way.
Underway ==
  \A o \in owed : \A p \in steady :
    \/ Excused(o, p) \/ Shown(o, p)
    \/ o.source # "endpoint_slices" /\ (stage = 1 \/ o \in todo \/ OnHand(o) \/ ToCome(o))

\* What is attached is of the program's objects and names nothing it must not.
Attached == (\A a \in attached : a.object \in Objects) /\ OnlyAdmittedNamed

\* The inductive invariant.
PolicyIInv == World /\ Collected /\ Underway /\ Attached

-----------------------------------------------------------------------------
\* The namespaces of a set of pods are finitely many.
LEMMA FiniteImages ==
  ASSUME NEW S \in SUBSET Pods
  PROVE  IsFiniteSet({p.ns : p \in S}) /\ IsFiniteSet({Row(p) : p \in S})
<1>1. IsFiniteSet(S) BY PolicyAssumption, FS_Subset
<1>2. [p \in S |-> p.ns] \in Surjection(S, {p.ns : p \in S}) BY DEF Surjection
<1>3. [p \in S |-> Row(p)] \in Surjection(S, {Row(p) : p \in S}) BY DEF Surjection
<1> QED BY <1>1, <1>2, <1>3, FS_Surjection

\* collectedNamespaces lists every namespace.
LEMMA Ordered ==
  ASSUME NEW S, IsFiniteSet(S)
  PROVE  /\ Len(SetToSeq(S)) \in Nat
         /\ \A x \in S : \E i \in 1 .. Len(SetToSeq(S)) : SetToSeq(S)[i] = x
<1> DEFINE n == Cardinality(S)
           f == SetToSeq(S)
<1>1. n \in Nat /\ ExistsBijection(1 .. n, S) BY FS_CardinalityType
<1>2. \E g \in [1 .. n -> S] : IsInjective(g)
  BY <1>1 DEF ExistsBijection, Bijection, Injection
<1>3. f \in [1 .. n -> S] /\ IsInjective(f) BY <1>2 DEF SetToSeq
<1>4. IsFiniteSet(1 .. n) /\ Cardinality(1 .. n) = n BY <1>1, FS_Interval
<1>5. f \in Injection(1 .. n, S) BY <1>3 DEF Injection
<1>6. f \in Surjection(1 .. n, S) BY <1>4, <1>5, FS_Injection
<1>7. Len(f) = n
  <2> HIDE DEF f
  <2> QED BY <1>1, <1>3
<1> QED BY <1>1, <1>6, <1>7 DEF Surjection

\* WorkloadPolicies lists its four sources.
LEMMA WorkloadLists ==
  /\ Len(WorkloadReads) = 4
  /\ \A i \in 1 .. 4 : WorkloadReads[i].source \in Listed \cap workloadPolicySources
  /\ \A s \in workloadPolicySources \ {"endpoint_slices"} :
       \E i \in 1 .. 4 : WorkloadReads[i] = Read(s, "all")
BY SMT DEF WorkloadReads, Read, Listed, workloadPolicySources

\* ClusterPolicy lists the two catalogs, and two sources in each namespace.
LEMMA ClusterLists ==
  ASSUME NEW S, IsFiniteSet(S)
  PROVE  /\ Len(ClusterReads(S)) \in Nat
         /\ \A i \in 1 .. Len(ClusterReads(S)) :
              ClusterReads(S)[i].source \in Listed \cap clusterPolicySources
         /\ \A s \in Catalogs : \E i \in 1 .. Len(ClusterReads(S)) :
              ClusterReads(S)[i] = Read(s, "all")
         /\ \A s \in {"limit_ranges", "resource_quotas"} : \A x \in S :
              \E i \in 1 .. Len(ClusterReads(S)) : ClusterReads(S)[i] = Read(s, x)
<1> DEFINE ns == SetToSeq(S)
           n == 2 * Len(ns)
           R == ClusterReads(S)
<1>1. n \in Nat /\ Len(ns) \in Nat BY Ordered
<1>2. \A x \in S : \E k \in 1 .. Len(ns) : ns[k] = x BY Ordered
<1>3. R = [i \in 1 .. n + 2 |->
             IF i > n THEN Read(IF i = n + 1 THEN "priority_classes" ELSE "storage_classes", "all")
             ELSE Read(IF i % 2 = 1 THEN "limit_ranges" ELSE "resource_quotas", ns[(i + 1) \div 2])]
  BY DEF ClusterReads
<1> HIDE DEF R
<1>4. Len(R) = n + 2 BY <1>1, <1>3
<1>5. \A i \in 1 .. n + 2 : R[i].source \in Listed \cap clusterPolicySources
  BY <1>1, <1>3 DEF Read, Listed, clusterPolicySources
<1>6. R[n + 1] = Read("priority_classes", "all") /\ R[n + 2] = Read("storage_classes", "all")
  BY <1>1, <1>3
<1>7. ASSUME NEW x \in S
      PROVE  /\ \E i \in 1 .. n + 2 : R[i] = Read("limit_ranges", x)
             /\ \E i \in 1 .. n + 2 : R[i] = Read("resource_quotas", x)
  <2>1. PICK k \in 1 .. Len(ns) : ns[k] = x BY <1>2
  <2>2. /\ 2 * k - 1 \in 1 .. n /\ (2 * k - 1) % 2 = 1 /\ ((2 * k - 1) + 1) \div 2 = k
        /\ 2 * k \in 1 .. n /\ (2 * k) % 2 = 0 /\ (2 * k + 1) \div 2 = k
    BY <1>1
  <2>3. R[2 * k - 1] = Read("limit_ranges", x) BY <1>1, <1>3, <2>1, <2>2
  <2>4. R[2 * k] = Read("resource_quotas", x) BY <1>1, <1>3, <2>1, <2>2
  <2> QED BY <1>1, <2>2, <2>3, <2>4
<1>8. \A s \in Catalogs : \E i \in 1 .. n + 2 : R[i] = Read(s, "all")
  BY <1>1, <1>6 DEF Catalogs
<1> QED BY <1>1, <1>4, <1>5, <1>7, <1>8 DEF R

\* How an object bears on a pod, by its source.
LEMMA BearsBy ==
  ASSUME NEW o, NEW p
  PROVE  /\ o.source = "pod_disruption_budgets" => (Bears(o, p) <=> Selects(o, p))
         /\ o.source = "services" =>
              (Bears(o, p) <=> Selects(o, p) /\ o.selects # "everything")
         /\ o.source = "horizontal_pod_autoscalers" =>
              (Bears(o, p) <=> o.ns = p.ns /\ o.selects = [kind |-> p.kind, name |-> p.name])
         /\ o.source = "persistent_volume_claims" =>
              (Bears(o, p) <=> o.ns = p.ns /\ o.name \in p.claims)
         /\ o.source \in {"limit_ranges", "resource_quotas"} => (Bears(o, p) <=> o.ns = p.ns)
         /\ o.source \in Catalogs => (Bears(o, p) <=> o.fits)
BY DEF Bears, Catalogs

\* The rows that KeysOf chooses, by the source of the object.
LEMMA KeysBy ==
  ASSUME NEW h
  PROVE  /\ h.object.source = "pod_disruption_budgets" => KeysOf(h) = attachBudgets(h)
         /\ h.object.source = "services" => KeysOf(h) = attachServices(h)
         /\ h.object.source = "horizontal_pod_autoscalers" =>
              KeysOf(h) = attachAutoscalers(h.object)
         /\ h.object.source = "persistent_volume_claims" => KeysOf(h) = attachClaims(h.object)
         /\ h.object.source \in {"limit_ranges", "resource_quotas"} =>
              KeysOf(h) = limitsAndQuotasIn(h.object)
         /\ h.object.source \in Catalogs => KeysOf(h) = classes(h.object)
BY DEF KeysOf, Catalogs

\* An object that bears on a pod of a listed namespace is in some listing.
LEMMA HasListing ==
  ASSUME NEW S, IsFiniteSet(S), NEW o, NEW p, Bears(o, p), p.ns \in S
  PROVE  /\ o.source \in workloadPolicySources \ {"endpoint_slices"} =>
              \E i \in 1 .. Len(WorkloadReads) : Lists(WorkloadReads[i], o)
         /\ o.source \in clusterPolicySources =>
              \E i \in 1 .. Len(ClusterReads(S)) : Lists(ClusterReads(S)[i], o)
<1>1. \A s, x : Read(s, x).source = s /\ Read(s, x).ns = x BY DEF Read
<1>2. ASSUME o.source \in workloadPolicySources \ {"endpoint_slices"}
      PROVE  \E i \in 1 .. Len(WorkloadReads) : Lists(WorkloadReads[i], o)
  BY <1>1, <1>2, WorkloadLists DEF Lists
<1>3. ASSUME o.source \in Catalogs
      PROVE  \E i \in 1 .. Len(ClusterReads(S)) : Lists(ClusterReads(S)[i], o)
  BY <1>1, <1>3, ClusterLists DEF Lists
<1>4. ASSUME o.source \in {"limit_ranges", "resource_quotas"}
      PROVE  \E i \in 1 .. Len(ClusterReads(S)) : Lists(ClusterReads(S)[i], o)
  <2>1. o.ns \in S BY <1>4, BearsBy
  <2> QED BY <1>1, <1>4, <2>1, ClusterLists DEF Lists
<1> QED BY <1>2, <1>3, <1>4 DEF clusterPolicySources, Catalogs

\* Once the index is read, the listings to make are of the capture's sources.
LEMMA ListingsKnown ==
  ASSUME World, Collected, stage > 1
  PROVE  /\ Len(Reads) \in Nat
         /\ \A i \in 1 .. Len(Reads) : Reads[i].source \in Listed \cap Wanted[subject]
<1>1. IsFiniteSet({r.ns : r \in rows})
  <2>1. {r.ns : r \in rows} \in SUBSET {p.ns : p \in touched} BY DEF Collected
  <2>2. IsFiniteSet({p.ns : p \in touched}) BY FiniteImages DEF World
  <2> QED BY <2>1, <2>2, FS_Subset
<1>2. CASE subject = "workload" BY <1>2, WorkloadLists DEF Reads, Wanted
<1>3. CASE subject = "cluster" BY <1>1, <1>3, ClusterLists DEF Reads, Wanted
<1> QED BY <1>2, <1>3 DEF World

-----------------------------------------------------------------------------
\* The steps of the cluster, the caches, the watches and the pod handlers.
Drift ==
  \/ \E o \in Objects : ObjectChanges(o)
  \/ \E o \in cluster \cup cache : EventArrives(o)
  \/ \E s \in Wanted[subject] : Fills(s) \/ WatchFails(s) \/ WatchRecovers(s) \/ FailureAges(s)
  \/ \E p \in Pods : PodMoves(p) \/ HandlerRuns(p)

\* None of them touches the capture; the ghosts lose what was disturbed.
LEMMA Drifts ==
  ASSUME World, Drift
  PROVE  /\ UNCHANGED <<subject, stage, gaps, rows, claims, todo, hand, attached>>
         /\ owed' \subseteq owed /\ steady' \subseteq steady /\ touched \subseteq touched'
<1>1. CASE \E o \in Objects : ObjectChanges(o) BY <1>1 DEF ObjectChanges, capture
<1>2. CASE \E o \in cluster \cup cache : EventArrives(o) BY <1>2 DEF EventArrives, capture
<1>3. CASE \E s \in Wanted[subject] : Fills(s) \/ WatchFails(s) \/ WatchRecovers(s)
                                      \/ FailureAges(s)
  BY <1>3 DEF Fills, WatchFails, WatchRecovers, FailureAges, capture
<1>4. CASE \E p \in Pods : PodMoves(p) BY <1>4 DEF PodMoves, capture
<1>5. CASE \E p \in Pods : HandlerRuns(p)
  <2>1. PICK p \in Pods : HandlerRuns(p) BY <1>5
  <2>2. touched \subseteq touched' BY <2>1 DEF HandlerRuns
  <2> QED BY <2>1, <2>2 DEF HandlerRuns, capture
<1> QED BY <1>1, <1>2, <1>3, <1>4, <1>5 DEF Drift

\* What is owed stays in its cache: its cluster object has not changed, so no
\* event or relist takes it out.  What is steady stays listed and indexed.
LEMMA DriftWorld ==
  ASSUME World, Drift
  PROVE  World'
<1>0. /\ UNCHANGED <<subject, stage, gaps, todo, hand>>
      /\ owed' \subseteq owed /\ steady' \subseteq steady
  BY Drifts
<1>h. \A h \in hand : InHand(h)' BY <1>0 DEF World, InHand
<1> SUFFICES /\ cluster' \cup cache' \subseteq Objects /\ index' \cup touched' \subseteq Pods
             /\ \A o \in owed' : o \in cluster' /\ (o.source \in gaps \/ o \in cache')
             /\ steady' \subseteq podCache' \cap index'
             /\ stage # 0 => index' \subseteq touched'
  BY <1>0, <1>h DEF World
<1>1. ASSUME NEW o \in Objects, ObjectChanges(o)
      PROVE  /\ cluster' \subseteq Objects
             /\ \A x \in owed' : x \in cluster'
             /\ UNCHANGED <<cache, index, podCache, steady, touched>>
  BY <1>1 DEF ObjectChanges, World
<1>2. ASSUME NEW o \in cluster \cup cache, EventArrives(o)
      PROVE  /\ cache' \subseteq Objects
             /\ \A x \in owed' : x.source \in gaps \/ x \in cache'
             /\ UNCHANGED <<cluster, owed, index, podCache, steady, touched>>
  BY <1>2 DEF EventArrives, World
<1>3. ASSUME NEW s, Fills(s) \/ WatchRecovers(s)
      PROVE  /\ cache' \subseteq Objects
             /\ \A x \in owed' : x.source \in gaps \/ x \in cache'
             /\ UNCHANGED <<cluster, owed, index, podCache, steady, touched>>
  <2>1. cache' = Relisted(s) /\ UNCHANGED <<cluster, owed, index, podCache, steady, touched>>
    BY <1>3 DEF Fills, WatchRecovers
  <2> QED BY <2>1 DEF Relisted, Cached, World
<1>4. ASSUME NEW s, WatchFails(s) \/ FailureAges(s)
      PROVE  UNCHANGED <<cluster, cache, owed, index, podCache, steady, touched>>
  BY <1>4 DEF WatchFails, FailureAges
<1>5. ASSUME NEW p \in Pods, PodMoves(p)
      PROVE  /\ steady' \subseteq podCache' \cap index'
             /\ UNCHANGED <<cluster, cache, owed, index, touched>>
  BY <1>5 DEF PodMoves, World
<1>6. ASSUME NEW p \in Pods, HandlerRuns(p)
      PROVE  /\ steady' \subseteq podCache' \cap index'
             /\ index' \cup touched' \subseteq Pods /\ (stage # 0 => index' \subseteq touched')
             /\ UNCHANGED <<cluster, cache, owed>>
  BY <1>6 DEF HandlerRuns, Idle, World
<1> QED BY <1>0, <1>1, <1>2, <1>3, <1>4, <1>5, <1>6 DEF Drift, World

\* What is taken up is read from caches that hold all that is steady or owed.
LEMMA TakenInHand ==
  ASSUME World, NEW o \in todo
  PROVE  InHand(Taken(o))
<1> DEFINE h == Taken(o)
<1>1. /\ h.object = o /\ h.zones = endpointZones(o)
      /\ h.pods = {p \in podCache : o.source \in Selectors /\ Selects(o, p)}
  BY DEF Taken
<1> HIDE DEF h
<1>2. \A e \in owed : (e.source = "endpoint_slices" /\ e.ns = o.ns /\ e.selects = o.name)
                       => e.source \in gaps \/ e.name \in h.zones
  BY <1>1 DEF World, endpointZones, Cached
<1>3. o \in Objects /\ o.source \in Listed \cap Wanted[subject] /\ steady \subseteq podCache
  BY DEF World
<1>4. InHand(h) BY <1>1, <1>2, <1>3 DEF InHand
<1> QED BY <1>4 DEF h

\* The steps of a capture leave the caches and the index alone.
LEMMA CaptureWorld ==
  ASSUME World, Collected,
         \/ Begin \/ collectedWorkloads \/ collectedNamespaces \/ List \/ Finish
         \/ \E o \in todo : TakeUp(o) \/ Join(o)
         \/ \E h \in hand : Match(h)
  PROVE  World'
<1>0. UNCHANGED <<cluster, cache, podCache, index, subject>>
  BY DEF Begin, collectedWorkloads, collectedNamespaces, List, Finish, TakeUp, Join, Match,
         Attach, world
<1>1. CASE Begin
  <2>1. \A o \in owed' : /\ o \in cluster' /\ o.source \in Wanted[subject]'
                         /\ o.source \in gaps' \/ o \in cache'
    BY <1>0, <1>1 DEF Begin, unavailablePolicySources
  <2>2. /\ stage' = 1 /\ todo' = {} /\ hand' = {}
        /\ touched' = index /\ steady' = podCache \cap index
    BY <1>1 DEF Begin, Idle, World
  <2> QED BY <1>0, <2>1, <2>2 DEF World
<1>2. CASE collectedWorkloads \/ collectedNamespaces
  <2>1. /\ stage = 1 /\ stage' \in {0, 2}
        /\ UNCHANGED <<todo, hand, gaps, owed, steady, touched>>
    BY <1>2 DEF collectedWorkloads, collectedNamespaces
  <2> QED BY <1>0, <2>1 DEF World
<1>3. CASE List
  <2> DEFINE r == Reads[stage - 1]
  <2>1. /\ stage \in 2 .. Len(Reads) + 1 /\ stage' = stage + 1 /\ hand = {} /\ hand' = {}
        /\ todo' = {o \in Cached(r.source) : r.ns \in {"all", o.ns}}
        /\ UNCHANGED <<gaps, owed, steady, touched>>
    BY <1>3 DEF List
  <2>2. stage \in Nat /\ stage > 1 BY <2>1 DEF World
  <2>3. Len(Reads) \in Nat BY <2>2, ListingsKnown
  <2>4. stage - 1 \in 1 .. Len(Reads) BY <2>1, <2>2, <2>3
  <2>5. r.source \in Listed \cap Wanted[subject] BY <2>2, <2>4, ListingsKnown
  <2>6. todo' \subseteq Objects /\ \A o \in todo' : o.source \in Listed \cap Wanted[subject]
    BY <2>1, <2>5 DEF Cached, World
  <2>7. stage' \in Nat /\ stage' \notin {0, 1, 2} BY <2>1, <2>2
  <2> QED BY <1>0, <2>1, <2>2, <2>6, <2>7 DEF World
<1>4. CASE Finish
  <2>1. /\ stage' = 0 /\ todo = {} /\ hand = {}
        /\ UNCHANGED <<todo, hand, gaps, owed, steady, touched>>
    BY <1>4 DEF Finish
  <2> QED BY <1>0, <2>1 DEF World
<1>5. CASE \E h \in hand : Match(h)
  <2>1. hand' = {} /\ UNCHANGED <<todo, stage, gaps, owed, steady, touched>>
    BY <1>5 DEF Match, Attach
  <2> QED BY <1>0, <2>1 DEF World
<1>6. CASE \E o \in todo : TakeUp(o)
  <2>1. PICK o \in todo : TakeUp(o) BY <1>6
  <2>2. /\ hand' = {Taken(o)} /\ todo' \subseteq todo
        /\ UNCHANGED <<stage, gaps, owed, steady, touched>>
    BY <2>1 DEF TakeUp
  <2>3. InHand(Taken(o)) BY TakenInHand
  <2> DEFINE h == Taken(o)
  <2> HIDE DEF h
  <2>4. hand' = {h} /\ InHand(h) BY <2>2, <2>3 DEF h
  <2>5. \A x \in hand' : InHand(x)' BY <1>0, <2>2, <2>4 DEF InHand
  <2>6. stage \notin {0, 1, 2} BY <2>1 DEF World
  <2> QED BY <1>0, <2>2, <2>5, <2>6 DEF World
<1>7. CASE \E o \in todo : Join(o)
  <2>1. todo' \subseteq todo /\ UNCHANGED <<hand, stage, gaps, owed, steady, touched>>
    BY <1>7 DEF Join, Attach
  <2>2. \A h \in hand' : InHand(h)' BY <1>0, <2>1 DEF InHand, World
  <2> QED BY <1>0, <2>1, <2>2 DEF World
<1> QED BY <1>1, <1>2, <1>3, <1>4, <1>5, <1>6, <1>7

-----------------------------------------------------------------------------
\* Of two workloads of one key collectedWorkloads keeps one; the other is twinned.
LEMMA WorkloadsCollected ==
  ASSUME World, collectedWorkloads, stage' # 0
  PROVE  Collected'
<1>1. PICK kept \in SUBSET {Row(p) : p \in index} :
        /\ \A p \in index : Cardinality({r \in kept : r.ns = p.ns /\ r.name = p.name}) = 1
        /\ rows' = kept
  BY DEF collectedWorkloads
<1>2. /\ subject = "workload" /\ UNCHANGED <<subject, steady, touched>> /\ stage = 1
      /\ claims' = UNION {{<<Key(p), c>> : c \in p.claims} : p \in index}
  BY DEF collectedWorkloads
<1>3. steady \subseteq index /\ index \subseteq touched /\ index \subseteq Pods BY <1>2 DEF World
<1>4. ASSUME NEW p \in steady PROVE HasRow(p)'
  <2> DEFINE K == {r \in kept : r.ns = p.ns /\ r.name = p.name}
  <2>1. IsFiniteSet({Row(q) : q \in index}) BY <1>3, FiniteImages
  <2>2. IsFiniteSet(K) BY <2>1, FS_Subset
  <2>3. Cardinality(K) = 1 BY <1>1, <1>3
  <2>4. PICK r \in kept : r.ns = p.ns /\ r.name = p.name BY <2>2, <2>3, FS_Singleton
  <2>5. PICK q \in index : r = Row(q) BY <1>1, <2>4
  <2>6. q.ns = p.ns /\ q.name = p.name /\ r.kind = q.kind BY <2>4, <2>5 DEF Row
  <2>7. r.kind = p.kind \/ Twinned(p) BY <1>3, <2>6 DEF Twinned, Key
  <2> QED BY <1>1, <1>2, <2>4, <2>7 DEF HasRow, Twinned
<1>5. \A r \in rows' : \E q \in touched' : r.ns = q.ns /\ r = Row(q)
  BY <1>1, <1>2, <1>3 DEF Row
<1>6. \A p \in steady : \A c \in p.claims : <<Key(p), c>> \in claims' BY <1>2, <1>3
<1>7. \A c \in claims' : \E q \in touched' : \E n \in q.claims : c = <<Key(q), n>>
  BY <1>2, <1>3
<1> QED BY <1>2, <1>4, <1>5, <1>6, <1>7 DEF Collected

\* Rows and claims are of pods that were indexed during the capture.
LEMMA CollectedKept ==
  ASSUME World, Collected, PolicyNext
  PROVE  Collected'
<1>1. CASE Drift
  <2>1. /\ UNCHANGED <<subject, stage, rows, claims>>
        /\ steady' \subseteq steady /\ touched \subseteq touched'
    BY <1>1, Drifts
  <2>2. \A p : Twinned(p) => Twinned(p)' BY <2>1 DEF Twinned
  <2>3. \A p : HasRow(p) => HasRow(p)' BY <2>1, <2>2 DEF HasRow
  <2> QED BY <2>1, <2>3 DEF Collected
<1>2. CASE Begin BY <1>2 DEF Begin, Collected
<1>3. CASE collectedWorkloads
  <2>1. CASE stage' # 0 BY <1>3, <2>1, WorkloadsCollected
  <2>2. CASE stage' = 0 BY <2>2 DEF Collected
  <2> QED BY <2>1, <2>2
<1>4. CASE collectedNamespaces
  <2>1. /\ subject = "cluster" /\ UNCHANGED <<subject, steady, touched>> /\ stage = 1
        /\ rows' = {[ns |-> p.ns, kind |-> "Namespace", name |-> "namespace"] : p \in index}
    BY <1>4 DEF collectedNamespaces
  <2>2. steady \subseteq index /\ index \subseteq touched BY <2>1 DEF World
  <2>3. \A p \in steady : HasRow(p)' BY <2>1, <2>2 DEF HasRow
  <2>4. \A r \in rows' : \E q \in touched' : r.ns = q.ns BY <2>1, <2>2
  <2> QED BY <2>1, <2>3, <2>4 DEF Collected
<1>5. CASE \/ List \/ \E o \in todo : TakeUp(o) \/ Join(o)
           \/ \E h \in hand : Match(h)
  <2>1. /\ UNCHANGED <<subject, rows, claims, steady, touched>>
        /\ stage' > 1 => stage > 1
    BY <1>5 DEF List, TakeUp, Join, Match, Attach, World
  <2> QED BY <2>1 DEF Collected, HasRow, Twinned
<1>6. CASE Finish BY <1>6 DEF Finish, Collected
<1> QED BY <1>1, <1>2, <1>3, <1>4, <1>5, <1>6 DEF PolicyNext, Drift

-----------------------------------------------------------------------------
\* A match attaches an object for every steady pod that it bears on.
LEMMA KeysCover ==
  ASSUME World, Collected, stage > 1, NEW h, InHand(h), NEW o, h.object = o,
         NEW p \in steady, Bears(o, p), ~SelectsAll(o)
  PROVE  \/ o.source \in clusterPolicySources /\ KeysOf(h) # {}
         \/ Key(p) \in KeysOf(h)
         \/ o.source = "horizontal_pod_autoscalers" /\ Twinned(p)
<1>0. stage > 1 /\ o.source \in Listed \cap Wanted[subject] BY DEF InHand
<1>1. PICK r \in rows : /\ r.ns = p.ns
                        /\ subject = "workload" =>
                             r.name = p.name /\ (r.kind = p.kind \/ Twinned(p))
  BY <1>0 DEF Collected, HasRow
<1>2. CASE subject = "workload"
  <2>0. o.source \in {"pod_disruption_budgets", "services", "horizontal_pod_autoscalers",
                      "persistent_volume_claims"}
    BY <1>0, <1>2 DEF Listed, Wanted, workloadPolicySources
  <2>1. Key(p) = [ns |-> r.ns, name |-> r.name] BY <1>1, <1>2 DEF Key
  <2>2. Key(p) \in RowKeys BY <2>1 DEF RowKeys
  <2>3. CASE o.source \in {"pod_disruption_budgets", "services"}
    <3>1. Selects(o, p) /\ o.selects # "everything" BY <2>3, BearsBy DEF SelectsAll
    <3>2. p \in h.pods /\ p \in index BY <2>3, <3>1 DEF InHand, Selectors, World
    <3>3. Key(p) \in workloadsSelecting(h) BY <3>2 DEF workloadsSelecting
    <3> QED BY <2>2, <2>3, <3>1, <3>3, KeysBy DEF attachBudgets, attachServices
  <2>4. CASE o.source = "horizontal_pod_autoscalers"
    <3>1. o.ns = p.ns /\ o.selects = [kind |-> p.kind, name |-> p.name] BY <2>4, BearsBy
    <3>2. r.kind = p.kind => Key(p) \in attachAutoscalers(o)
      BY <1>1, <1>2, <2>1, <3>1 DEF attachAutoscalers
    <3> QED BY <1>1, <1>2, <2>4, <3>2, KeysBy
  <2>5. CASE o.source = "persistent_volume_claims"
    <3>1. o.ns = p.ns /\ <<Key(p), o.name>> \in claims
      BY <1>0, <1>2, <2>5, BearsBy DEF Collected
    <3>2. <<Key(p), o.name>>[1] = Key(p) /\ <<Key(p), o.name>>[2] = o.name /\ Key(p).ns = p.ns
      BY DEF Key
    <3>3. Key(p) \in attachClaims(o) BY <3>1, <3>2 DEF attachClaims
    <3> QED BY <2>5, <3>3, KeysBy
  <2> QED BY <2>0, <2>3, <2>4, <2>5
<1>3. CASE subject = "cluster"
  <2>0. o.source \in clusterPolicySources BY <1>0, <1>3 DEF Wanted
  <2>1. CASE o.source \in Catalogs
    <3>1. classes(o) # {} BY <2>1, BearsBy DEF classes
    <3> QED BY <2>0, <2>1, <3>1, KeysBy
  <2>2. CASE o.source \in {"limit_ranges", "resource_quotas"}
    <3>1. o.ns = p.ns BY <2>2, BearsBy
    <3>2. [ns |-> r.ns, name |-> r.name] \in limitsAndQuotasIn(o)
      BY <1>1, <3>1 DEF limitsAndQuotasIn, RowKeys
    <3> QED BY <2>0, <2>2, <3>2, KeysBy
  <2> QED BY <2>0, <2>1, <2>2 DEF clusterPolicySources, Catalogs
<1> QED BY <1>2, <1>3 DEF World

-----------------------------------------------------------------------------
\* When the index has been read, whatever is owed and bears on a steady pod has
\* its listing ahead.
LEMMA CollectOwes ==
  ASSUME World, Underway, collectedWorkloads \/ collectedNamespaces
  PROVE  Underway'
<1> SUFFICES ASSUME NEW o \in owed, NEW p \in steady, ~Excused(o, p), ~Shown(o, p)
             PROVE  o.source # "endpoint_slices" /\ ToCome(o)'
  <2>1. UNCHANGED <<subject, gaps, todo, hand, attached, owed, steady, touched>>
    BY DEF collectedWorkloads, collectedNamespaces
  <2> QED BY <2>1 DEF Underway, Excused, Shown, Carried, Twinned
<1>1. /\ stage = 1 /\ UNCHANGED subject /\ p \in index /\ index \subseteq Pods
      /\ o.source \in Wanted[subject] /\ Bears(o, p) /\ todo = {} /\ hand = {}
  BY DEF collectedWorkloads, collectedNamespaces, World, Excused
<1>2. o.source # "endpoint_slices" BY <1>1 DEF Underway
<1>3. CASE collectedWorkloads
  <2>1. PICK kept \in SUBSET {Row(q) : q \in index} :
          /\ Cardinality({r \in kept : r.ns = p.ns /\ r.name = p.name}) = 1
          /\ stage' = IF kept = {} THEN 0 ELSE 2
    BY <1>1, <1>3 DEF collectedWorkloads
  <2>2. kept # {}
    <3>1. ASSUME kept = {} PROVE FALSE
      <4>1. {r \in kept : r.ns = p.ns /\ r.name = p.name} = {} BY <3>1
      <4> QED BY <2>1, <4>1, FS_EmptySet
    <3> QED BY <3>1
  <2>3. stage' = 2 BY <2>1, <2>2
  <2>4. subject = "workload" BY <1>3 DEF collectedWorkloads
  <2>5. IsFiniteSet({p.ns}) /\ p.ns \in {p.ns} BY FS_Singleton
  <2>6. o.source \in workloadPolicySources \ {"endpoint_slices"}
    BY <1>1, <1>2, <2>4 DEF Wanted
  <2>7. \E i \in 1 .. Len(WorkloadReads) : Lists(WorkloadReads[i], o)
    BY <1>1, <2>5, <2>6, HasListing
  <2>8. Reads' = WorkloadReads BY <1>1, <2>4 DEF Reads
  <2>9. stage' > 1 /\ stage' - 1 = 1 BY <2>3
  <2> QED BY <1>2, <2>7, <2>8, <2>9 DEF ToCome, Lists
<1>4. CASE collectedNamespaces
  <2> DEFINE S == {r.ns : r \in rows'}
  <2>1. /\ subject = "cluster" /\ stage' = 2
        /\ rows' = {[ns |-> q.ns, kind |-> "Namespace", name |-> "namespace"] : q \in index}
    BY <1>4 DEF collectedNamespaces
  <2>2. S \in SUBSET {q.ns : q \in index} /\ p.ns \in S
    <3>1. [ns |-> p.ns, kind |-> "Namespace", name |-> "namespace"] \in rows' BY <1>1, <2>1
    <3>2. [ns |-> p.ns, kind |-> "Namespace", name |-> "namespace"].ns = p.ns OBVIOUS
    <3>3. p.ns \in S BY <3>1, <3>2
    <3>4. \A r \in rows' : \E q \in index : r.ns = q.ns BY <2>1
    <3> QED BY <3>3, <3>4
  <2>3. IsFiniteSet(S) BY <1>1, <2>2, FiniteImages, FS_Subset
  <2>4. o.source \in clusterPolicySources BY <1>1, <2>1 DEF Wanted
  <2>5. \E i \in 1 .. Len(ClusterReads(S)) : Lists(ClusterReads(S)[i], o)
    BY <1>1, <2>2, <2>3, <2>4, HasListing
  <2>6. Reads' = ClusterReads(S) BY <1>1, <2>1 DEF Reads
  <2>7. stage' > 1 /\ stage' - 1 = 1 BY <2>1
  <2> HIDE DEF S
  <2> QED BY <1>2, <2>5, <2>6, <2>7 DEF ToCome, Lists
<1> QED BY <1>3, <1>4

\* A listing holds what is owed of its source: it has been in the cache since
\* the capture began.
LEMMA ListOwes ==
  ASSUME World, Collected, Underway, List
  PROVE  Underway'
<1>1. /\ stage \in Nat /\ stage > 1 /\ stage' = stage + 1 /\ todo = {} /\ hand = {}
      /\ todo' = {o \in Cached(Reads[stage - 1].source) : Reads[stage - 1].ns \in {"all", o.ns}}
      /\ UNCHANGED <<subject, gaps, rows, attached, owed, steady, touched>>
  BY DEF List, World
<1>2. Reads' = Reads BY <1>1 DEF Reads
<1> SUFFICES ASSUME NEW o \in owed, NEW p \in steady, ~Excused(o, p), ~Shown(o, p)
             PROVE  o.source # "endpoint_slices" /\ (o \in todo' \/ ToCome(o)')
  BY <1>1 DEF Underway, Excused, Shown, Carried, Twinned
<1>3. o.source # "endpoint_slices" /\ ToCome(o) BY <1>1 DEF Underway, OnHand
<1>4. o \in cache BY DEF World, Excused
<1>5. PICK i \in stage - 1 .. Len(Reads) : Lists(Reads[i], o) BY <1>3 DEF ToCome
<1>6. CASE i = stage - 1
  <2>1. o \in todo' BY <1>1, <1>4, <1>5, <1>6 DEF Lists, Cached
  <2> QED BY <1>3, <2>1
<1>7. CASE i # stage - 1
  <2>0. Len(Reads) \in Nat BY <1>1, ListingsKnown
  <2>1. i \in stage' - 1 .. Len(Reads) /\ stage' > 1 BY <1>1, <1>5, <1>7, <2>0
  <2> QED BY <1>2, <1>3, <1>5, <2>1 DEF ToCome, Lists
<1> QED BY <1>6, <1>7

\* Matching an object shows it for every steady pod, and a service with every
\* zone that is owed.
LEMMA MatchShows ==
  ASSUME World, Collected, Underway, stage > 1, NEW h, InHand(h), Attach(h),
         \A o \in todo : o = h.object \/ o \in todo',
         \A o : OnHand(o) => o = h.object \/ OnHand(o)'
  PROVE  Underway'
<1> DEFINE x == h.object
           new == {[key |-> k, object |-> x,
                    details |-> IF x.source = "services" THEN h.zones ELSE Described(x)]
                   : k \in KeysOf(h)}
<1>1. /\ attached' = attached \cup new
      /\ UNCHANGED <<subject, stage, gaps, rows, owed, steady, touched>>
  BY DEF Attach
<1>2. Reads' = Reads BY <1>1 DEF Reads
<1>3. \A o : ToCome(o) => ToCome(o)' BY <1>1, <1>2 DEF ToCome, Lists
<1> SUFFICES ASSUME NEW o \in owed, NEW p \in steady, ~Excused(o, p)
             PROVE  \/ Shown(o, p)'
                    \/ /\ o.source # "endpoint_slices"
                       /\ stage = 1 \/ o \in todo' \/ OnHand(o)' \/ ToCome(o)'
  BY <1>1 DEF Underway, Excused, Twinned
<1>4. CASE o.source = "endpoint_slices"
  <2>1. Shown(o, p) BY <1>4 DEF Underway
  <2>2. ASSUME NEW a \in new, a.object.source = "services", a.object.ns = o.ns,
               a.object.name = o.selects
        PROVE  o.name \in a.details
    <3>1. a.object = x /\ (x.source = "services" => a.details = h.zones) BY <2>2
    <3>2. o.name \in h.zones BY <1>4, <2>2, <3>1 DEF InHand, Excused
    <3> QED BY <2>2, <3>1, <3>2
  <2> HIDE DEF new
  <2> QED BY <1>1, <1>4, <2>1, <2>2 DEF Shown
<1>5. CASE o.source # "endpoint_slices" /\ o # x
  <2>1. Shown(o, p) => Shown(o, p)'
    <3> HIDE DEF new
    <3> QED BY <1>1, <1>5 DEF Shown, Carried
  <2> QED BY <1>1, <1>3, <1>5, <2>1 DEF Underway
<1>6. CASE o.source # "endpoint_slices" /\ o = x
  <2>1. \/ o.source \in clusterPolicySources /\ KeysOf(h) # {}
        \/ Key(p) \in KeysOf(h)
    BY <1>6, KeysCover DEF Excused
  <2>2. ASSUME NEW k \in KeysOf(h) PROVE \E a \in new : a.key = k /\ a.object = o
    <3> DEFINE a == [key |-> k, object |-> x,
                     details |-> IF x.source = "services" THEN h.zones ELSE Described(x)]
    <3>1. a \in new BY <1>6, <2>2
    <3>2. a.key = k /\ a.object = o BY <1>6
    <3> QED BY <3>1, <3>2
  <2>3. \E a \in new : a.object = o /\ (o.source \in clusterPolicySources \/ a.key = Key(p))
    BY <2>1, <2>2
  <2> HIDE DEF new
  <2> QED BY <1>1, <1>6, <2>3 DEF Shown, Carried
<1> QED BY <1>4, <1>5, <1>6

\* An object taken up is on its way until it is matched.
LEMMA TakeUpOwes ==
  ASSUME World, Underway, NEW x \in todo, TakeUp(x)
  PROVE  Underway'
<1>1. /\ todo' = todo \ {x} /\ hand = {} /\ hand' = {Taken(x)}
      /\ UNCHANGED <<subject, stage, gaps, rows, attached, owed, steady, touched>>
  BY DEF TakeUp
<1>2. \A o, p : /\ Excused(o, p) => Excused(o, p)'
                /\ Shown(o, p) => Shown(o, p)'
  BY <1>1 DEF Excused, Twinned, Shown, Carried
<1>3. \A o : ToCome(o) => ToCome(o)' BY <1>1 DEF ToCome, Reads, Lists
<1>4. Taken(x).object = x BY DEF Taken
<1>5. \A o : (o \in todo => o \in todo' \/ OnHand(o)') /\ ~OnHand(o)
  BY <1>1, <1>4 DEF OnHand
<1> QED BY <1>1, <1>2, <1>3, <1>5 DEF Underway

\* Every step keeps what the capture owes shown or on its way.
LEMMA UnderwayKept ==
  ASSUME World, Collected, Underway, PolicyNext
  PROVE  Underway'
<1>1. CASE Drift
  <2>1. /\ UNCHANGED <<subject, stage, gaps, rows, todo, hand, attached>>
        /\ owed' \subseteq owed /\ steady' \subseteq steady /\ touched \subseteq touched'
    BY <1>1, Drifts
  <2>2. \A o, p : Excused(o, p) => Excused(o, p)' BY <2>1 DEF Excused, Twinned
  <2>3. \A o, p : Shown(o, p) => Shown(o, p)' BY <2>1 DEF Shown, Carried
  <2>4. \A o : ToCome(o) => ToCome(o)' BY <2>1 DEF ToCome, Reads, Lists
  <2> QED BY <2>1, <2>2, <2>3, <2>4 DEF Underway, OnHand
<1>2. CASE Begin
  <2>1. stage' = 1 /\ attached' = {} BY <1>2 DEF Begin
  <2>2. \A o, p : o.source = "endpoint_slices" => Shown(o, p)' BY <2>1 DEF Shown
  <2> QED BY <2>1, <2>2 DEF Underway
<1>3. CASE collectedWorkloads \/ collectedNamespaces BY <1>3, CollectOwes
<1>4. CASE List BY <1>4, ListOwes
<1>5. CASE \E h \in hand : Match(h)
  <2>1. PICK h \in hand : Match(h) BY <1>5
  <2>2. InHand(h) /\ stage > 1 /\ Attach(h) BY <2>1 DEF Match, World
  <2>3. todo' = todo BY <2>1 DEF Match
  <2>4. \A o : OnHand(o) => o = h.object \/ OnHand(o)' BY <2>1 DEF OnHand, World
  <2> QED BY <2>2, <2>3, <2>4, MatchShows
<1>7. CASE \E o \in todo : Join(o)
  <2>1. PICK o \in todo : Join(o) BY <1>7
  <2> DEFINE h == Taken(o)
  <2>2. h.object = o BY DEF Taken
  <2>3. InHand(h) /\ Attach(h) /\ stage > 1 BY <2>1, TakenInHand DEF Join, World
  <2>4. todo' = todo \ {o} /\ UNCHANGED hand BY <2>1 DEF Join
  <2> HIDE DEF h
  <2> QED BY <2>2, <2>3, <2>4, MatchShows DEF OnHand
<1>8. CASE \E o \in todo : TakeUp(o) BY <1>8, TakeUpOwes
<1>6. CASE Finish
  <2>1. /\ stage > 1 /\ stage = Len(Reads) + 2 /\ todo = {} /\ hand = {}
        /\ UNCHANGED <<gaps, attached, owed, steady, touched>>
    BY <1>6 DEF Finish
  <2>2. \A o : ~ToCome(o)
    <3>1. Len(Reads) \in Nat BY <2>1, ListingsKnown
    <3>2. stage - 1 .. Len(Reads) = {} BY <2>1, <3>1
    <3> QED BY <3>2 DEF ToCome
  <2>3. stage # 1 BY <2>1 DEF World
  <2> QED BY <2>1, <2>2, <2>3 DEF Underway, Excused, Shown, Carried, Twinned, OnHand
<1> QED BY <1>1, <1>2, <1>3, <1>4, <1>5, <1>6, <1>7, <1>8 DEF PolicyNext, Drift

-----------------------------------------------------------------------------
\* A join names a row only for a pod that was indexed during the capture.
LEMMA KeysAccountedFor ==
  ASSUME World, Collected, stage > 1, NEW h, InHand(h), NEW x, h.object = x,
         NEW k \in KeysOf(h)
  PROVE  /\ x.source \in Catalogs => x.fits
         /\ x.source \in Catalogs \/ \E p \in touched : Bears(x, p) /\ p.ns = k.ns
<1>0. /\ stage > 1 /\ x.source \in Listed \cap Wanted[subject] /\ index \subseteq touched
      /\ subject \in {"workload", "cluster"}
  BY DEF World, InHand
<1>1. \A r \in rows : \E q \in touched : r.ns = q.ns /\ (subject = "workload" => r = Row(q))
  BY <1>0 DEF Collected
<1>2. CASE x.source \in {"pod_disruption_budgets", "services"}
  <2>1. k \in workloadsSelecting(h) /\ x.selects # "everything"
    BY <1>2, KeysBy DEF attachBudgets, attachServices
  <2>2. PICK q \in index : k = Key(q) /\ q \in h.pods BY <2>1 DEF workloadsSelecting
  <2>3. k.ns = q.ns /\ Selects(x, q) BY <2>2 DEF Key, InHand
  <2> QED BY <1>0, <1>2, <2>1, <2>2, <2>3, BearsBy DEF Catalogs
<1>3. CASE x.source = "horizontal_pod_autoscalers"
  <2>1. subject = "workload" BY <1>0, <1>3 DEF Wanted, clusterPolicySources
  <2>2. PICK r \in rows : /\ k = [ns |-> r.ns, name |-> r.name]
                          /\ r.ns = x.ns /\ [kind |-> r.kind, name |-> r.name] = x.selects
    BY <1>3, KeysBy DEF attachAutoscalers
  <2>3. PICK q \in touched : r = Row(q) BY <1>1, <2>1, <2>2
  <2>4. r.ns = q.ns /\ r.kind = q.kind /\ r.name = q.name /\ k.ns = r.ns
    BY <2>2, <2>3 DEF Row
  <2>5. Bears(x, q)
    <3>1. x.ns = q.ns /\ x.selects = [kind |-> q.kind, name |-> q.name] BY <2>2, <2>4
    <3> QED BY <1>3, <3>1, BearsBy
  <2> QED BY <1>3, <2>4, <2>5 DEF Catalogs
<1>4. CASE x.source = "persistent_volume_claims"
  <2>1. subject = "workload" BY <1>0, <1>4 DEF Wanted, clusterPolicySources
  <2>2. PICK c \in claims : k = c[1] /\ c[1].ns = x.ns /\ c[2] = x.name
    BY <1>4, KeysBy DEF attachClaims
  <2>3. PICK q \in touched : \E n \in q.claims : c = <<Key(q), n>>
    BY <1>0, <2>1, <2>2 DEF Collected
  <2>4. PICK n \in q.claims : c = <<Key(q), n>> BY <2>3
  <2>5. c[1] = Key(q) /\ c[2] = n /\ Key(q).ns = q.ns BY <2>4 DEF Key
  <2>6. x.ns = q.ns /\ x.name \in q.claims /\ q.ns = k.ns BY <2>2, <2>4, <2>5
  <2>7. Bears(x, q) BY <1>4, <2>6, BearsBy
  <2> QED BY <1>4, <2>6, <2>7 DEF Catalogs
<1>5. CASE x.source \in {"limit_ranges", "resource_quotas"}
  <2>1. k \in RowKeys /\ k.ns = x.ns BY <1>5, KeysBy DEF limitsAndQuotasIn
  <2>2. PICK r \in rows : k = [ns |-> r.ns, name |-> r.name] BY <2>1 DEF RowKeys
  <2>3. PICK q \in touched : r.ns = q.ns BY <1>1, <2>2
  <2>4. k.ns = r.ns BY <2>2
  <2>5. q.ns = k.ns /\ x.ns = q.ns BY <2>1, <2>3, <2>4
  <2>6. Bears(x, q) BY <1>5, <2>5, BearsBy
  <2> QED BY <1>5, <2>5, <2>6 DEF Catalogs
<1>6. CASE x.source \in Catalogs BY <1>6, KeysBy DEF classes
<1> QED BY <1>0, <1>2, <1>3, <1>4, <1>5, <1>6 DEF Listed, Catalogs

\* The reductions keep no name that does not fit its bound.
LEMMA DescribedFits ==
  ASSUME NEW x \in Objects, NEW d \in x.details, d.id \in Described(x)
  PROVE  d.fits
<1>1. CASE x.source = "horizontal_pod_autoscalers"
  <2>1. PICK m \in x.details : d.id \in describeMetric(m)
    BY <1>1 DEF Described, describeAutoscaler
  <2>2. m.fits /\ d.id = m.id BY <2>1 DEF describeMetric
  <2> QED BY <2>1, <2>2, PolicyAssumption
<1>2. CASE x.source = "persistent_volume_claims"
  <2>1. PICK c \in x.details : c.fits /\ d.id = c.id BY <1>2 DEF Described, describeClaim
  <2> QED BY <2>1, PolicyAssumption
<1>3. CASE x.source = "limit_ranges" BY <1>3, PolicyAssumption
<1>4. CASE x.source = "resource_quotas"
  <2>1. d.id \in describeQuota(x) BY <1>4 DEF Described
  <2>2. PICK c \in x.details : c.fits /\ d.id = c.id BY <2>1 DEF describeQuota, quantityMap
  <2> QED BY <2>1, <2>2, PolicyAssumption
<1>5. CASE x.source \notin {"horizontal_pod_autoscalers", "persistent_volume_claims",
                            "limit_ranges", "resource_quotas"}
  BY <1>5 DEF Described
<1> QED BY <1>1, <1>2, <1>3, <1>4, <1>5

\* What a match attaches is accounted for.
LEMMA AttachNames ==
  ASSUME World, Collected, Attached, stage > 1, NEW h, InHand(h), Attach(h)
  PROVE  Attached'
<1> DEFINE x == h.object
           new == {[key |-> k, object |-> x,
                    details |-> IF x.source = "services" THEN h.zones ELSE Described(x)]
                   : k \in KeysOf(h)}
<1>1. attached' = attached \cup new /\ UNCHANGED touched BY DEF Attach
<1>2. x \in Objects BY DEF InHand
<1>3. ASSUME NEW a \in new
      PROVE  /\ a.object \in Objects
             /\ \/ a.object.source \in Catalogs
                \/ \E p \in touched : Bears(a.object, p) /\ p.ns = a.key.ns
             /\ a.object.source \in Catalogs => a.object.fits
             /\ \A d \in a.object.details : d.id \in a.details => d.fits
  <2>1. /\ a.object = x /\ a.key \in KeysOf(h)
        /\ x.source # "services" => a.details = Described(x)
    BY <1>3
  <2>2. \A d \in x.details : d.id \in a.details => d.fits
    <3>1. CASE x.source = "services" BY <1>2, <3>1, PolicyAssumption
    <3>2. CASE x.source # "services" BY <1>2, <2>1, <3>2, DescribedFits
    <3> QED BY <3>1, <3>2
  <2>3. /\ x.source \in Catalogs => x.fits
        /\ x.source \in Catalogs \/ \E p \in touched : Bears(x, p) /\ p.ns = a.key.ns
    BY <2>1, KeysAccountedFor
  <2> QED BY <1>2, <2>1, <2>2, <2>3
<1> HIDE DEF new
<1> QED BY <1>1, <1>3 DEF Attached, OnlyAdmittedNamed

\* No other step of a capture attaches.
LEMMA AttachedKept ==
  ASSUME World, Collected, Attached, PolicyNext
  PROVE  Attached'
<1>1. CASE Drift
  <2>1. UNCHANGED attached /\ touched \subseteq touched' BY <1>1, Drifts
  <2> QED BY <2>1 DEF Attached, OnlyAdmittedNamed
<1>2. CASE Begin
  <2>1. attached' = {} BY <1>2 DEF Begin
  <2> QED BY <2>1 DEF Attached, OnlyAdmittedNamed
<1>3. CASE \E h \in hand : Match(h)
  <2>1. PICK h \in hand : Match(h) BY <1>3
  <2>2. InHand(h) /\ stage > 1 /\ Attach(h) BY <2>1 DEF Match, World
  <2> QED BY <2>2, AttachNames
<1>5. CASE \E o \in todo : Join(o)
  <2>1. PICK o \in todo : Join(o) BY <1>5
  <2>2. InHand(Taken(o)) /\ stage > 1 /\ Attach(Taken(o)) BY <2>1, TakenInHand DEF Join, World
  <2> QED BY <2>2, AttachNames
<1>4. CASE \/ collectedWorkloads \/ collectedNamespaces \/ List \/ Finish
           \/ \E o \in todo : TakeUp(o)
  <2>1. UNCHANGED <<attached, touched>>
    BY <1>4 DEF collectedWorkloads, collectedNamespaces, List, Finish, TakeUp
  <2> QED BY <2>1 DEF Attached, OnlyAdmittedNamed
<1> QED BY <1>1, <1>2, <1>3, <1>4, <1>5 DEF PolicyNext, Drift

-----------------------------------------------------------------------------
\* The program starts with nothing captured.
LEMMA PolicyInitIInv == PolicyInit => PolicyIInv
<1> SUFFICES ASSUME PolicyInit PROVE PolicyIInv OBVIOUS
<1>1. World
  <2>1. cluster \subseteq Objects /\ cache \subseteq cluster BY DEF PolicyInit
  <2> QED BY <2>1 DEF PolicyInit, World
<1>2. Collected BY DEF PolicyInit, Collected
<1>3. Underway BY DEF PolicyInit, Underway
<1>4. Attached BY DEF PolicyInit, Attached, OnlyAdmittedNamed
<1> QED BY <1>1, <1>2, <1>3, <1>4 DEF PolicyIInv

\* Every step of the cluster, the caches, the pods and the capture keeps it.
LEMMA PolicyInductive == PolicyIInv /\ [PolicyNext]_policyVars => PolicyIInv'
<1> SUFFICES ASSUME PolicyIInv, [PolicyNext]_policyVars PROVE PolicyIInv' OBVIOUS
<1>1. CASE PolicyNext
  <2>1. World'
    <3>1. CASE Drift BY <3>1, DriftWorld DEF PolicyIInv
    <3>2. CASE ~Drift BY <1>1, <3>2, CaptureWorld DEF PolicyIInv, PolicyNext, Drift
    <3> QED BY <3>1, <3>2
  <2> QED BY <1>1, <2>1, CollectedKept, UnderwayKept, AttachedKept DEF PolicyIInv
<1>2. CASE UNCHANGED policyVars
  <2>1. /\ UNCHANGED <<cluster, cache, watch, podCache, index, policyChanges, subject>>
        /\ UNCHANGED <<stage, gaps, rows, claims, todo, hand, attached, owed, steady, touched>>
    BY <1>2 DEF policyVars, world, capture
  <2>0. \A h : InHand(h) => InHand(h)' BY <2>1 DEF InHand
  <2>2. World' BY <2>0, <2>1 DEF PolicyIInv, World
  <2>3. Collected' BY <2>1 DEF PolicyIInv, Collected, HasRow, Twinned
  <2>4. Underway'
    <3>1. \A o, p : Excused(o, p) => Excused(o, p)' BY <2>1 DEF Excused, Twinned
    <3>2. \A o, p : Shown(o, p) => Shown(o, p)' BY <2>1 DEF Shown, Carried
    <3>3. \A o : ToCome(o) => ToCome(o)' BY <2>1 DEF ToCome, Reads, Lists
    <3> QED BY <2>1, <3>1, <3>2, <3>3 DEF PolicyIInv, Underway, OnHand
  <2>5. Attached' BY <2>1 DEF PolicyIInv, Attached, OnlyAdmittedNamed
  <2> QED BY <2>2, <2>3, <2>4, <2>5 DEF PolicyIInv
<1> QED BY <1>1, <1>2

\* Hence it holds in every state of a behaviour.
LEMMA Invariant == PolicySpec => []PolicyIInv
BY PolicyInitIInv, PolicyInductive, PTL DEF PolicySpec

\* What the cluster had throughout a capture is shown for every pod it bears on,
\* or unavailablePolicySources declared its source, however caches, watches and
\* pods changed meanwhile; only a budget that attachBudgets skips because its
\* selector is empty, and an autoscaler of a twinned workload, may be missing.
THEOREM SilenceDeclared == PolicySpec => []SilenceIsDeclared
<1>1. PolicyIInv => SilenceIsDeclared
  <2> SUFFICES ASSUME PolicyIInv, Idle, NEW o \in owed, NEW p \in steady
               PROVE  Excused(o, p) \/ Shown(o, p)
    BY DEF SilenceIsDeclared, Accounted, Excused
  <2>1. stage = 0 /\ todo = {} /\ hand = {} BY DEF Idle, PolicyIInv, World
  <2>2. ~ToCome(o) BY <2>1 DEF ToCome
  <2> QED BY <2>1, <2>2 DEF PolicyIInv, Underway, OnHand
<1> QED BY <1>1, Invariant, PTL

\* The joins of WorkloadPolicies and ClusterPolicy name no object that no
\* admitted pod accounts for, and the reductions keep no name over its bound.
THEOREM AdmittedNamed == PolicySpec => []OnlyAdmittedNamed
<1>1. PolicyIInv => OnlyAdmittedNamed BY DEF PolicyIInv, Attached
<1> QED BY <1>1, Invariant, PTL
===============================================================================
