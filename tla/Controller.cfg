SPECIFICATION Spec
CONSTANTS
  Debounce = 2
  Quarter = 3
  Kinds = {"go_inventory", "container_restarts"}
  Tasks = {"pods", "intake", "ship"}
  MaxAge = 4
  MaxChanges = 2
  MaxFaults = 2
  fileTokenMax = 3
  shortDigestLen = 2
  Instants = {0, 1, 2}
  Lengths = {1, 2}
INVARIANTS NamesApart OneWriterPerKey StopKeeps EvictedComesBack
PROPERTY OneEndsAll
CHECK_DEADLOCK FALSE
