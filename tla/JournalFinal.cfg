CONSTANTS
  Events = {evicted, preempted}
  Dated = {preempted}
  Replayed = {preempted, evicted}
  MaxWindow = 1
  MaxFaults = 0
SPECIFICATION JournalSpec
PROPERTY FinalIsFinal
CHECK_DEADLOCK FALSE
