CONSTANTS
  Events = {evicted, preempted}
  Dated = {preempted}
  Replayed = {preempted, evicted}
  MaxWindow = 1
  MaxFaults = 1
SPECIFICATION JournalSpec
INVARIANT ReportedIntoOneWindow
CHECK_DEADLOCK FALSE
