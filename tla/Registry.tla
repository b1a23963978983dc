------------------------------- MODULE Registry -------------------------------
(***************************************************************************)
(* The payload registry of internal/sink: every kind the agent may write   *)
(* and how often it is written.  Time is counted in periodic passes.       *)
(***************************************************************************)
EXTENDS Naturals

CONSTANTS Debounce, \* floor of onChangeDebounced, in passes
          Quarter   \* ceiling of the change-triggered cadences, in passes

\* A quarter of an hour is at least one pass.
ASSUME RegistryAssumption == Debounce \in Nat /\ Quarter \in Nat \ {0}

everyPass == [floor |-> 1, ceiling |-> 1, trigger |-> "always"]
onChange == [floor |-> 1, ceiling |-> Quarter, trigger |-> "changed"]
onChangeDebounced == [floor |-> Debounce, ceiling |-> Quarter, trigger |-> "changed"]
onEvent == [floor |-> 0, ceiling |-> 0, trigger |-> "event"]

\* The agent's own kinds, usage, and what the journals accumulate.
journalRows ==
  [collection_coverage |-> everyPass, agent_states |-> everyPass,
   agent_counters |-> everyPass, usage_snapshot |-> everyPass,
   usage_window |-> onEvent, network_window |-> onEvent, oom_kill |-> onEvent,
   goroutine_counts |-> everyPass, container_restarts |-> everyPass,
   restart_counters |-> onChangeDebounced, pod_disruptions |-> everyPass,
   node_lifecycle |-> everyPass]

\* Jobs, what the nodes report, cluster metadata and profiles.
inventoryRows ==
  [job_runs |-> everyPass, go_inventory |-> onChangeDebounced,
   process_peaks |-> onChangeDebounced, process_counters |-> everyPass,
   listening_ports |-> onChangeDebounced, go_build |-> onEvent,
   workload_metadata |-> onChangeDebounced, workload_revisions |-> onChangeDebounced,
   workload_policy |-> onChangeDebounced, cluster_policy |-> onChangeDebounced,
   node_metadata |-> onChange, ebpf_profile |-> onEvent, pprof_profile |-> onEvent]

registry ==
  [k \in DOMAIN journalRows \cup DOMAIN inventoryRows |->
     IF k \in DOMAIN journalRows THEN journalRows[k] ELSE inventoryRows[k]]

Lookup(kind) == kind \in DOMAIN registry
=============================================================================
