------------------------------- MODULE MCPolicy -------------------------------
\* Two workloads of one name, a pod that opted out of collection, and a
\* namespace of which nothing is collected.
EXTENDS Policy

Pod(ns, kind, label, cs, admitted) ==
  [ns |-> ns, kind |-> kind, name |-> "web", label |-> label, claims |-> cs,
   admitted |-> admitted]

MCPods == {Pod("a", "Deployment", "x", {"data"}, TRUE),
           Pod("a", "StatefulSet", "x", {}, TRUE),
           Pod("a", "Deployment", "y", {"scratch"}, FALSE),
           Pod("b", "Deployment", "x", {}, FALSE)}

Object(s, ns, n, sel, f, ds) ==
  [source |-> s, ns |-> ns, name |-> n, selects |-> sel, fits |-> f, details |-> ds]

Metric(id, f) == [id |-> id, fits |-> f, present |-> TRUE]
Quantity(id, f, st) == [id |-> id, fits |-> f, status |-> st]

MCWorkloadObjects ==
  {Object("pod_disruption_budgets", "a", "both", "x", TRUE, {}),
   Object("pod_disruption_budgets", "a", "excluded", "y", TRUE, {}),
   Object("pod_disruption_budgets", "a", "all", "everything", TRUE, {}),
   Object("services", "a", "external", "everything", TRUE, {}),
   Object("horizontal_pod_autoscalers", "a", "scaler",
          [kind |-> "Deployment", name |-> "web"], TRUE,
          {Metric("cpu", TRUE), Metric("long", FALSE)}),
   Object("persistent_volume_claims", "a", "data", "none", TRUE,
          {[id |-> "class", fits |-> FALSE]}),
   Object("services", "a", "front", "x", TRUE, {}),
   Object("endpoint_slices", "a", "zones", "front", TRUE, {})}

MCClusterObjects ==
  {Object("limit_ranges", "a", "limits", "none", TRUE,
          {[id |-> "item", amounts |-> TRUE, fits |-> TRUE],
           [id |-> "bare", amounts |-> FALSE, fits |-> TRUE]}),
   Object("resource_quotas", "a", "quota", "none", TRUE,
          {Quantity("spec", TRUE, FALSE), Quantity("status", TRUE, TRUE),
           Quantity("long", FALSE, TRUE)}),
   Object("resource_quotas", "b", "elsewhere", "none", TRUE, {}),
   Object("priority_classes", "cluster", "high", "none", TRUE, {}),
   Object("storage_classes", "cluster", "unbounded", "none", FALSE, {})}

MCObjects == MCWorkloadObjects \cup MCClusterObjects
=============================================================================
