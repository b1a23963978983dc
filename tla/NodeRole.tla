------------------------------- MODULE NodeRole -------------------------------
(***************************************************************************)
(* The node role and the controller's intake.  The scanner and the profiler *)
(* of a node share only the list of each container's own modules, which    *)
(* narrows what a profile shows and not whether it is shipped, so a        *)
(* behaviour follows one of the two paths.                                 *)
(***************************************************************************)
EXTENDS NodeInventory, NodeProfiling

CONSTANT Budget   \* path -> changes and faults in one behaviour

VARIABLE path

vars == <<path, IndexVars, budget, invVars, profVars>>

Init ==
  /\ path \in {"inventory", "profiling"}
  /\ budget = Budget[path]
  /\ InvInit /\ ProfInit
  /\ path = "inventory" => top = {}

Next ==
  \/ path = "inventory" /\ InvNext /\ UNCHANGED <<path, profVars>>
  \/ path = "profiling" /\ ProfNext /\ UNCHANGED <<path, invVars>>

Spec == Init /\ [][Next]_vars

(***************************************************************************)
(* Scope fails closed on both paths.  A process whose executable a pass    *)
(* opened belongs to a pod that was admitted when that pass began, and a   *)
(* profile leaves the node only if its pod was admitted when its window    *)
(* asked, whatever became of the query and however old the target set is.  *)
(* A profile that reaches the spool was captured less than one refresh     *)
(* interval after its pod was opted out of profiling, unless a targets     *)
(* query failed meanwhile and the old set was kept.  About scanScope, the  *)
(* scope of a window, ContainersOnNode and the refresh of the target set.  *)
(***************************************************************************)
AdmissionHeeded ==
  /\ \A r \in net : \A b \in r.bins : b.pod \in r.allowed
  /\ \A g \in pipe.groups : g.admitted
  /\ profile.optedFor < Refresh \/ profile.failing
=============================================================================
