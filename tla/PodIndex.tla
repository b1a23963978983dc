------------------------------- MODULE PodIndex -------------------------------
(***************************************************************************)
(* The pod index as its readers see it (collector/pods.go): the pods that  *)
(* passed the customer's filters and opt-outs, and those of them that may  *)
(* be profiled.  How events move it is the module Watchers; here it        *)
(* changes under the readers' feet.  A pod has one container, so it stands *)
(* for its container as well.                                              *)
(***************************************************************************)
EXTENDS Integers, FiniteSets

CONSTANTS Pods, NodeOf, KeyOf, DigestOf,  \* pod -> node, workload, image digest
          Starts   \* what the index may hold at first

ASSUME StartsAssumption == Starts \subseteq SUBSET Pods

VARIABLES index,        \* the admitted pods
          profilable,   \* the pods without the profiling opt-out
          budget        \* changes and faults that may still happen

Spend(n) == n =< budget /\ budget' = budget - n

LookupContainerOnNode(pod, node) == pod \in index /\ NodeOf[pod] = node
AdmittedPodsOnNode(node) == {p \in index : NodeOf[p] = node}

\* Fault, not the code: the profiling opt-out is not looked at.
ContainersOnNodeAll(node) == {p \in index : NodeOf[p] = node}

ContainersOnNode(node) == {p \in index \cap profilable : NodeOf[p] = node}

\* The workloads of which every indexed pod opted out; one replica is not the
\* workload.
ProfilingOptOuts == {KeyOf[p] : p \in index} \ {KeyOf[p] : p \in index \cap profilable}

\* inventory.LiveKeys(podWatcher.Pods()).
LiveKeys(pods) == {KeyOf[p] : p \in pods}

\* A pod is admitted, or leaves the index (deleted, opted out, filtered).
IndexMoves(pod) ==
  /\ Spend(1)
  /\ index' = IF pod \in index THEN index \ {pod} ELSE index \cup {pod}
  /\ UNCHANGED profilable

\* A pod is annotated against profiling, or the annotation goes.
ProfilingMoves(pod) ==
  /\ Spend(1)
  /\ profilable' = IF pod \in profilable THEN profilable \ {pod} ELSE profilable \cup {pod}
  /\ UNCHANGED index

IndexInit == index \in Starts /\ profilable = Pods

IndexVars == <<index, profilable>>
=============================================================================
