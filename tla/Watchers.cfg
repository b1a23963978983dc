CONSTANTS
  Names = {a}
  MaxQueue = 2
  MaxUid = 2
  MaxChanges = 5
  MaxFaults = 1
  Allowed = TRUE
SPECIFICATION Spec
INVARIANTS IndexIsCurrent CountsBalance ReportedOnce
CHECK_DEADLOCK FALSE
