SPECIFICATION Spec
CONSTANTS
  Debounce = 2
  Quarter = 3
  Kinds = {"workload_metadata", "node_metadata"}
  Tasks = {"pods", "nodes"}
  MaxAge = 4
  MaxChanges = 2
  MaxFaults = 0
  fileTokenMax = 3
  shortDigestLen = 2
  Instants = {0, 1, 2}
  Lengths = {1, 2}
INVARIANT JoinIsSound
CHECK_DEADLOCK FALSE
